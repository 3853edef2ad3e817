------------------------------ MODULE MCThesis ------------------------------
(* Three runs: the first of an older manifest with one thesis, two of the   *)
(* suite of two.  Listing 1 belongs to both theses and is left out of some  *)
(* responses; its ratings fall and grow.                                    *)
EXTENDS ThesisIntelligence

CONSTANTS t1, t2, q1, q2, q3

MCSuite == <<t1, t2>>
MCScope == << <<t1>>, <<t1, t2>>, <<t1, t2>> >>
MCMembers == (t1 :> <<1>>) @@ (t2 :> <<2, 1, 3>>)
MCQueries == (t1 :> {q1}) @@ (t2 :> {q2, q3})
MCFoundBy == (t1 :> (1 :> {q1})) @@ (t2 :> (1 :> {q2, q3} @@ 2 :> {q2} @@ 3 :> {q3}))

(* Listing 1 turns a week old at time 3; listing 3 has no date.             *)
MCFirstPublished == <<{-11}, {-5}, {}>>

Offer(rated, text) == [rated |-> rated, text |-> text]
Both == {{"theme", "mechanic"}}
MCOffered == <<
    [t \in 1..4 |-> Offer({<<40, 36, 33, 80>>[t]}, Both)],
    [t \in 1..4 |-> Offer({<<900, 904, 910, 930>>[t]}, IF t < 3 THEN {{"theme"}} ELSE Both)],
    [t \in 1..4 |-> Offer({}, {})]>>

MCPolicy == {[max_age |-> {8}, min_rating |-> {}, min_pace |-> {2}, min_percentile |-> {60},
              min_delta |-> {1}]}
MCOpinion == <<"confirmed_direct", "adjacent", "unresolved">>
MCDigest == <<2, 3, 1>>
=============================================================================
