--------------------------- MODULE QueryScheduler ---------------------------
(***************************************************************************)
(* run_bounded_query_workers: the main thread submits queries to a thread  *)
(* pool, the pool's threads run them, and done callbacks put the finished  *)
(* futures into a FIFO queue that only the main thread reads.              *)
(*                                                                         *)
(* Queries are numbered in manifest order. A query worker returns its own  *)
(* query index, so the checks for a foreign or a duplicate index never     *)
(* fail and are left out.                                                  *)
(***************************************************************************)
EXTENDS Integers, Sequences, FiniteSets

CONSTANTS
    N,       \* number of pending queries
    Workers  \* query_workers, 1..4

ASSUME SchedulerAssumption == N \in Nat /\ Workers \in 1..4

VARIABLES
    pc,         \* of the main thread
    next,       \* position of the iterator over the pending items
    status,     \* of each query's future
    registered, \* futures whose done callback has been added
    active,     \* the dict of futures the main thread waits for
    completed,  \* the FIFO of finished futures
    results,    \* indices with a result
    firstError  \* index of the first failure taken from the FIFO

vars == <<pc, next, status, registered, active, completed, results, firstError>>

-----------------------------------------------------------------------------
Query == 1..N
Done == {"ok", "failed"}
None == 0
SmallerOf(a, b) == IF a <= b THEN a ELSE b
Running == {i \in Query : status[i] = "running"}

Init ==
    /\ pc = "wave"
    /\ next = 1
    /\ status = [i \in Query |-> "pending"]
    /\ registered = {}
    /\ active = {}
    /\ completed = <<>>
    /\ results = {}
    /\ firstError = None

(* submit, first half: the future exists and a thread may start on it *)
SubmitNext(after) ==
    /\ pc' = after
    /\ next' = next + 1
    /\ status' = [status EXCEPT ![next] = "queued"]
    /\ active' = active \cup {next}

(* The initial wave fills at most as many slots as there are workers. *)
SubmitWave ==
    /\ pc = "wave"
    /\ IF next <= SmallerOf(Workers, N)
       THEN SubmitNext("register_wave")
       ELSE pc' = "wait" /\ UNCHANGED <<next, status, active>>
    /\ UNCHANGED <<registered, completed, results, firstError>>

(* mutant: the callback of a future that is already done is lost *)
RegisterLate(after) ==
    LET i == next - 1 IN
    /\ pc' = after
    /\ registered' = registered \cup {i}
    /\ UNCHANGED <<next, status, active, completed, results, firstError>>

(* submit, second half: add_done_callback puts a future that is already    *)
(* done from the main thread.                                              *)
Register(after) ==
    LET i == next - 1 IN
    /\ pc' = after
    /\ registered' = registered \cup {i}
    /\ completed' = IF status[i] \in Done THEN Append(completed, i) ELSE completed
    /\ UNCHANGED <<next, status, active, results, firstError>>

RegisterWave == pc = "register_wave" /\ Register("wave")
RegisterNext == pc = "register" /\ Register("wait")

(* A pool thread takes a queued query, oldest first. *)
StartQuery(i) ==
    /\ status[i] = "queued"
    /\ \A j \in 1..(i - 1) : status[j] # "queued"
    /\ Cardinality(Running) < Workers
    /\ status' = [status EXCEPT ![i] = "running"]
    /\ UNCHANGED <<pc, next, registered, active, completed, results, firstError>>

(* mutant: only a query that succeeded is announced *)
FinishQuietly(i) ==
    /\ status[i] = "running"
    /\ \E s \in Done :
         /\ status' = [status EXCEPT ![i] = s]
         /\ completed' = IF i \in registered /\ s = "ok" THEN Append(completed, i)
                         ELSE completed
    /\ UNCHANGED <<pc, next, registered, active, results, firstError>>

(* It finishes, and its done callback, if there is one, puts the future. *)
FinishQuery(i) ==
    /\ status[i] = "running"
    /\ \E s \in Done : status' = [status EXCEPT ![i] = s]
    /\ completed' = IF i \in registered THEN Append(completed, i) ELSE completed
    /\ UNCHANGED <<pc, next, registered, active, results, firstError>>

(* mutant: the last failure is kept *)
TakeLastFailure ==
    /\ pc = "wait"
    /\ completed # <<>>
    /\ status[Head(completed)] = "failed"
    /\ active' = active \ {Head(completed)}
    /\ completed' = Tail(completed)
    /\ firstError' = Head(completed)
    /\ UNCHANGED <<pc, next, status, registered, results>>

(* completed.get(), and what the loop does with the future it returns *)
TakeFailure ==
    /\ pc = "wait"
    /\ completed # <<>>
    /\ status[Head(completed)] = "failed"
    /\ active' = active \ {Head(completed)}
    /\ completed' = Tail(completed)
    /\ firstError' = IF firstError = None THEN Head(completed) ELSE firstError
    /\ UNCHANGED <<pc, next, status, registered, results>>

(* mutant: the next query is submitted without looking at the failure *)
TakeResultAfterFailure ==
    /\ pc = "wait"
    /\ completed # <<>>
    /\ status[Head(completed)] = "ok"
    /\ completed' = Tail(completed)
    /\ results' = results \cup {Head(completed)}
    /\ pc' = IF next <= N THEN "submit" ELSE "wait"
    /\ active' = active \ {Head(completed)}
    /\ UNCHANGED <<next, status, registered, firstError>>

TakeResult ==
    /\ pc = "wait"
    /\ completed # <<>>
    /\ status[Head(completed)] = "ok"
    /\ completed' = Tail(completed)
    /\ results' = results \cup {Head(completed)}
    /\ pc' = IF firstError = None /\ next <= N THEN "submit" ELSE "wait"
    /\ active' = active \ {Head(completed)}
    /\ UNCHANGED <<next, status, registered, firstError>>

SubmitAfterResult ==
    /\ pc = "submit"
    /\ SubmitNext("register")
    /\ UNCHANGED <<registered, completed, results, firstError>>

(* The loop is left when nothing is active; leaving the with statement     *)
(* joins the pool. The results are returned in manifest order.             *)
Leave ==
    /\ pc = "wait"
    /\ active = {}
    /\ Running = {}
    /\ pc' = IF firstError = None /\ results = Query THEN "returned" ELSE "raised"
    /\ UNCHANGED <<next, status, registered, active, completed, results, firstError>>

Ended == pc \in {"returned", "raised"} /\ UNCHANGED vars

Main == SubmitWave \/ RegisterWave \/ RegisterNext \/ TakeFailure
        \/ TakeResult \/ SubmitAfterResult \/ Leave
Pool(i) == StartQuery(i) \/ FinishQuery(i)

Next == Main \/ (\E i \in Query : Pool(i)) \/ Ended

Spec == Init /\ [][Next]_vars

(* Threads are scheduled, and a query ends: its requests time out and its  *)
(* retries are bounded (ProbeCollection).                                  *)
Fairness == WF_vars(Main) /\ \A i \in Query : WF_vars(Pool(i))
FairSpec == Spec /\ Fairness

-----------------------------------------------------------------------------
Order == {completed[k] : k \in 1..Len(completed)}

TypeOK ==
    /\ pc \in {"wave", "register_wave", "wait", "submit", "register", "returned", "raised"}
    /\ next \in 1..(N + 1)
    /\ status \in [Query -> {"pending", "queued", "running"} \cup Done]
    /\ registered \in SUBSET Query
    /\ active \in SUBSET Query
    /\ completed \in Seq(Query)
    /\ results \in SUBSET Query
    /\ firstError \in Query \cup {None}

(* The race between a query that ends and add_done_callback loses and      *)
(* duplicates nothing: each finished future is in the FIFO once until the  *)
(* main thread takes it, and a taken success is a result.                  *)
EveryFutureIsDeliveredOnce ==
    /\ \A k, l \in 1..Len(completed) : completed[k] = completed[l] => k = l
    /\ Order = {i \in active \cap registered : status[i] \in Done}
    /\ results = {i \in Query \ active : status[i] = "ok"}
    /\ Cardinality(active) <= Workers

(* The first failure that reaches the FIFO is the one that is raised:      *)
(* until it is taken no failure has been, and later ones do not replace it.*)
FirstFailureIsKept ==
    [][ IF firstError # None THEN firstError' = firstError
        ELSE /\ \A i \in Query \ active : status[i] # "failed"
             /\ firstError' # None => firstError' = Head(completed) ]_vars

(* The call ends, with all results or with the first error, for every      *)
(* schedule of the threads: the main thread never waits on an empty FIFO   *)
(* that nothing will fill.                                                 *)
CallEnds == <>(pc \in {"returned", "raised"})

(* run_bounded_query_workers implements the promise of QueryBatch. *)
Batch == INSTANCE QueryBatch WITH
    status <- [i \in Query |->
                  IF status[i] \in {"queued", "running"} THEN "active" ELSE status[i]],
    stopped <- firstError # None,
    outcome <- IF pc \in {"returned", "raised"} THEN pc ELSE "none"

BatchSpec == Batch!Spec
=============================================================================
