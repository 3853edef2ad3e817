----------------------------- MODULE QueryBatch -----------------------------
(***************************************************************************)
(* What run_bounded_query_workers promises its caller, without threads,    *)
(* futures or queues: the queries of the manifest are started in order, at *)
(* most Workers at a time; once a failure has been observed nothing is     *)
(* started; the call ends only when nothing is active, with every result   *)
(* or with the error of one query that failed.                             *)
(***************************************************************************)
EXTENDS Integers, FiniteSets

CONSTANTS N, Workers

VARIABLES
    status,   \* of each query: pending, active, ok or failed
    stopped,  \* no query is started any more
    outcome   \* of the call: none, returned or raised

vars == <<status, stopped, outcome>>

Query == 1..N
Having(s) == {i \in Query : status[i] = s}

Init ==
    /\ status = [i \in Query |-> "pending"]
    /\ stopped = FALSE
    /\ outcome = "none"

Start(i) ==
    /\ outcome = "none"
    /\ ~stopped
    /\ status[i] = "pending"
    /\ \A j \in 1..(i - 1) : status[j] # "pending"
    /\ Cardinality(Having("active")) < Workers
    /\ status' = [status EXCEPT ![i] = "active"]
    /\ UNCHANGED <<stopped, outcome>>

End(i) ==
    /\ status[i] = "active"
    /\ \E s \in {"ok", "failed"} : status' = [status EXCEPT ![i] = s]
    /\ UNCHANGED <<stopped, outcome>>

Stop ==
    /\ Having("failed") # {}
    /\ stopped' = TRUE
    /\ UNCHANGED <<status, outcome>>

Return ==
    /\ outcome = "none"
    /\ Having("ok") = Query
    /\ outcome' = "returned"
    /\ UNCHANGED <<status, stopped>>

Raise ==
    /\ outcome = "none"
    /\ stopped
    /\ Having("active") = {}
    /\ outcome' = "raised"
    /\ UNCHANGED <<status, stopped>>

Next ==
    \/ \E i \in Query : Start(i) \/ End(i)
    \/ Stop \/ Return \/ Raise

Spec == Init /\ [][Next]_vars
=============================================================================
