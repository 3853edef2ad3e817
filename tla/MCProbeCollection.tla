------------------------ MODULE MCProbeCollection ------------------------
(* Two exact queries: of two families, or of one.                          *)
EXTENDS ProbeCollection, TLC

CONSTANTS q1, q2, f1

Items == {q1, q2}
OwnFamily == [i \in Items |-> i]
OneFamily == [i \in Items |-> f1]
OwnText == [i \in Items |-> i]
Symmetry == Permutations(Items)
=============================================================================
