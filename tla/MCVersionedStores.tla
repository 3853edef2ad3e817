------------------------ MODULE MCVersionedStores ------------------------
(* Two declarations of one family, one of them of a foreign source, and two *)
(* declarations of one plan; a run for each of two queries.                 *)
EXTENDS VersionedStores, TLC

CONSTANTS q1, q2, r1, r2, c1, l1

Runs == {r1, r2}
Asks == [r \in Runs |-> IF r = r1 THEN q1 ELSE q2]
InContext == [r \in Runs |-> c1]
Families == {[source |-> Yandex, queries |-> <<q1, q2>>, created |-> 0],
             [source |-> Yandex, queries |-> <<q1>>, created |-> 1],
             [source |-> "other", queries |-> <<q1>>, created |-> 0]}
Declarations == {[family |-> 1, listing |-> l1, checkpoints |-> <<2>>],
                 [family |-> 1, listing |-> l1, checkpoints |-> <<3>>]}
Sightings == [l \in {l1} |-> 0]
Symmetry == Permutations(Opener)
Clean == {c1}
=============================================================================
