-------------------------- MODULE ProbeCollection --------------------------
(***************************************************************************)
(* The search_collection and comparable_construction stages of an analyst  *)
(* experiment: exact-query work items collected concurrently by            *)
(* YandexPaginatedProbeRunner into the raw-snapshot store and the probe    *)
(* run store of one workdir, retried after transport errors, resumed after *)
(* a failure or a kill, and bound into immutable comparable sets.          *)
(*                                                                         *)
(* Every access to SQLite is one transaction under ProbePersistenceGate,   *)
(* so each is one action; source and file I/O happens between them.        *)
(* Exclusive ownership of the workdir is the subject of WorkdirLifecycle.  *)
(***************************************************************************)
EXTENDS Integers, Sequences, FiniteSets

CONSTANTS
    Item,            \* exact-query work items of the manifest
    FamilyOf,        \* the query family of an item
    TextOf,          \* its query text; two families may declare the same text
    PageLimit,       \* requested_page_limit: manifest.context.pages
    MaxAttempts,     \* _MAX_TRANSPORT_ATTEMPTS
    QueryWorkers,    \* --query-workers
    ClockStepsBack,  \* may the wall clock be set back?
    MaxTime,         \* bound: clock readings
    MaxInvocations,  \* bound: one run and its resumes
    MaxRuns,         \* bound: probe runs ever created
    MaxSnapshots,    \* bound: responses ever received
    MaxDamage        \* bound: snapshots lost by power failures

ASSUME ItemAssumption ==
    /\ IsFiniteSet(Item)
    /\ DOMAIN FamilyOf = Item
    /\ DOMAIN TextOf = Item
ASSUME LimitAssumption ==
    /\ PageLimit \in Nat \ {0}
    /\ MaxAttempts \in Nat \ {0}
    /\ QueryWorkers \in 1..4
    /\ ClockStepsBack \in BOOLEAN
    /\ MaxTime \in Nat \ {0}
    /\ {MaxInvocations, MaxRuns, MaxSnapshots} \subseteq Nat
    /\ MaxDamage \in Nat

None == 0       \* Python's None for a run, a snapshot, a token or a time

VARIABLES
    runs,       \* probe_runs joined with probe_pages, in creation order
    raw,        \* raw snapshot folders, in creation order
    analysed,   \* snapshots with a persisted schema analysis
    bound,      \* comparable_set_runs: the run bound to each item
    clock,      \* the last wall-clock reading
    invocation, \* how many times run or resume was called
    phase,      \* what the coordinator thread is doing
    item,       \* the worker's local state for each work item
    selected    \* selected_run_ids

durable == <<runs, raw, analysed, bound>>
local == <<phase, item, selected>>
vars == <<durable, clock, invocation, local>>

-----------------------------------------------------------------------------
(* A response carries a continuation token unless the source omits it. The *)
(* token is opaque and its value is the snapshot of the response it came   *)
(* in: two responses never carry the same one.                             *)

Status == {"running", "completed", "partial", "failed"}
Kind == {"page", "unreadable", "http_error"}

Working == {"create", "request", "raw", "interpret", "append", "observe",
            "finish", "report", "fail"}
Phase == {"absent", "search", "build", "done", "failed", "killed"}

Idle == [pc |-> "idle", attempt |-> 0, run |-> None, page |-> 0,
         token |-> None, snap |-> None, last |-> None, error |-> None,
         transport |-> FALSE]
Waiting == [Idle EXCEPT !.pc = "waiting"]

(* ProbeRun and its ProbePage rows *)
NewRun(i, t) == [text |-> TextOf[i], started |-> t, status |-> "running",
                 completed |-> None, error |-> None, pages |-> <<>>]

(* A snapshot folder: the body is written first, then metadata.json. *)
NewSnapshot(kind, t, token, more, next) ==
    [state |-> "body", kind |-> kind, at |-> t, token |-> token,
     more |-> more, next |-> next]

(* probe_page_from_yandex: what one snapshot says about its page *)
PageOf(s) == [snap |-> s, at |-> raw[s].at, token |-> raw[s].token,
              next |-> raw[s].next, more |-> raw[s].more]

Readings == IF ClockStepsBack THEN 1..MaxTime ELSE clock..MaxTime

LatestTime(S) == CHOOSE t \in S : \A u \in S : u <= t

(* _completion_time: never before the start or the last response *)
CompletionTime(i, t) ==
    LatestTime({t, runs[item[i].run].started, item[i].last})

At(i, pc) == item[i].pc = pc
Goto(i, pc) == item' = [item EXCEPT ![i].pc = pc]
Active == {i \in Item : item[i].pc \in Working}
FailureObserved == \E i \in Item : At(i, "failed")

-----------------------------------------------------------------------------
(* What a resume may reuse: the validation is the comparable builder's. *)

(* mutant: the page is trusted without its raw snapshot *)
ReplaysUnread(p) == raw[p.snap].kind = "page" /\ p = PageOf(p.snap)

Replays(p) ==
    /\ raw[p.snap].state = "whole"
    /\ raw[p.snap].kind = "page"
    /\ p = PageOf(p.snap)

(* mutant: the status of the run is not looked at *)
ReusableInAnyStatus(r) ==
    /\ Len(runs[r].pages) \in 1..PageLimit
    /\ Len(runs[r].pages) < PageLimit => ~runs[r].pages[Len(runs[r].pages)].more
    /\ \A k \in 1..Len(runs[r].pages) : Replays(runs[r].pages[k])

Reusable(r) ==
    /\ runs[r].status = "completed"
    /\ Len(runs[r].pages) \in 1..PageLimit
    /\ Len(runs[r].pages) < PageLimit => ~runs[r].pages[Len(runs[r].pages)].more
    /\ \A k \in 1..Len(runs[r].pages) : Replays(runs[r].pages[k])

Candidates(i) == {r \in 1..Len(runs) : runs[r].text = TextOf[i] /\ Reusable(r)}

(* ORDER BY started_at DESC; run ids are random, so ties are arbitrary. *)
BestCandidates(i) ==
    {r \in Candidates(i) :
        \A s \in Candidates(i) : runs[s].started <= runs[r].started}

(* mutant: only persisted comparables are looked up *)
ChoicesOfBound(i) == {bound[i]}

Choices(i) ==
    IF bound[i] # None THEN {bound[i]}
    ELSE IF Candidates(i) # {} THEN BestCandidates(i)
    ELSE {None}

Anchored == {i \in Item : bound[i] # None}
BoundRunsReplay == \A i \in Anchored : Reusable(bound[i])

-----------------------------------------------------------------------------
Init ==
    /\ runs = <<>>
    /\ raw = <<>>
    /\ analysed = {}
    /\ bound = [i \in Item |-> None]
    /\ clock = 1
    /\ invocation = 0
    /\ phase = "absent"
    /\ item = [i \in Item |-> Idle]
    /\ selected = [i \in Item |-> None]

(* run, or resume after a failed or killed invocation: the families are    *)
(* walked by the coordinator alone before any worker starts. A persisted   *)
(* comparable is authoritative, and fatal when it no longer replays.       *)
Invoke ==
    /\ phase \in {"absent", "failed", "killed"}
    /\ invocation < MaxInvocations
    /\ invocation' = invocation + 1
    /\ \/ /\ ~BoundRunsReplay
          /\ phase' = "failed"
          /\ UNCHANGED <<item, selected>>
       \/ /\ BoundRunsReplay
          /\ phase' = "search"
          /\ selected' \in [Item -> None..Len(runs)]
          /\ \A i \in Item : selected'[i] \in Choices(i)
          /\ item' = [i \in Item |-> IF selected'[i] = None THEN Waiting ELSE Idle]
    /\ UNCHANGED <<durable, clock>>

(* run_bounded_query_workers hands the item to a worker thread. *)
Submit(i) ==
    /\ phase = "search"
    /\ At(i, "waiting")
    /\ Cardinality(Active) < QueryWorkers
    /\ ~FailureObserved
    /\ item' = [item EXCEPT ![i].pc = "create", ![i].attempt = 1]
    /\ UNCHANGED <<durable, clock, invocation, phase, selected>>

(* mutant: INSERT OR REPLACE, under an id derived from the query *)
CreateOrReplaceRun(i) ==
    /\ At(i, "create")
    /\ LET r == IF \E q \in 1..Len(runs) : runs[q].text = TextOf[i]
                THEN CHOOSE q \in 1..Len(runs) : runs[q].text = TextOf[i]
                ELSE Len(runs) + 1 IN
         /\ r <= MaxRuns
         /\ \E t \in Readings :
              /\ clock' = t
              /\ runs' = [q \in 1..(IF r > Len(runs) THEN r ELSE Len(runs)) |->
                            IF q = r THEN NewRun(i, t) ELSE runs[q]]
         /\ item' = [item EXCEPT ![i] = [Idle EXCEPT !.pc = "request",
                        !.attempt = item[i].attempt, !.run = r]]
    /\ UNCHANGED <<raw, analysed, bound, invocation, phase, selected>>

(* create_run *)
CreateRun(i) ==
    /\ At(i, "create")
    /\ Len(runs) < MaxRuns
    /\ \E t \in Readings :
         /\ clock' = t
         /\ runs' = Append(runs, NewRun(i, t))
    /\ item' = [item EXCEPT ![i] = [Idle EXCEPT !.pc = "request",
                                                !.attempt = item[i].attempt,
                                                !.run = Len(runs) + 1]]
    /\ UNCHANGED <<raw, analysed, bound, invocation, phase, selected>>

(* The request fails: no response, no provenance. Only connect and read    *)
(* timeouts and refused connections count as _TRANSPORT_ERRORS.            *)
TransportError(i) ==
    /\ At(i, "request")
    /\ \E retryable \in BOOLEAN :
         item' = [item EXCEPT ![i].pc = "fail", ![i].transport = retryable]
    /\ UNCHANGED <<durable, clock, invocation, phase, selected>>

(* A response arrives and FilesystemRawSnapshotStore.persist writes its body. *)
Respond(i) ==
    /\ At(i, "request")
    /\ Len(raw) < MaxSnapshots
    /\ \E t \in Readings, k \in Kind, more \in BOOLEAN, next \in {None, Len(raw) + 1} :
         /\ k # "page" => ~more
         /\ ~more => next = None
         /\ clock' = t
         /\ raw' = Append(raw, NewSnapshot(k, t, item[i].token, more, next))
    /\ item' = [item EXCEPT ![i].pc = "raw", ![i].snap = Len(raw) + 1]
    /\ UNCHANGED <<runs, analysed, bound, invocation, phase, selected>>

(* metadata.json completes the snapshot; only now can the run cite it. *)
PersistMetadata(i) ==
    /\ At(i, "raw")
    /\ raw' = [raw EXCEPT ![item[i].snap].state = "whole"]
    /\ item' = [item EXCEPT ![i].pc = "interpret",
                            ![i].last = raw[item[i].snap].at,
                            ![i].error = item[i].snap]
    /\ UNCHANGED <<runs, analysed, bound, clock, invocation, phase, selected>>

(* mutant: the failed write is blamed on the snapshot *)
RawWriteFailsCited(i) ==
    /\ At(i, "raw")
    /\ item' = [item EXCEPT ![i].pc = "fail", ![i].error = item[i].snap]
    /\ UNCHANGED <<durable, clock, invocation, phase, selected>>

RawWriteFails(i) ==
    /\ At(i, "raw")
    /\ Goto(i, "fail")
    /\ UNCHANGED <<durable, clock, invocation, phase, selected>>

(* The HTTP status is checked before observe_json, which persists an       *)
(* analysis before breaking drift or a parser failure ends the run.        *)
Interpret(i) ==
    /\ At(i, "interpret")
    /\ LET kind == raw[item[i].snap].kind IN
         /\ analysed' = IF kind = "http_error" THEN analysed
                        ELSE analysed \cup {item[i].snap}
         /\ Goto(i, IF kind = "page" THEN "append" ELSE "fail")
    /\ UNCHANGED <<runs, raw, bound, clock, invocation, phase, selected>>

(* mutant: the time of the previous page is not compared *)
ContinuesAtAnyTime(run, p, index) ==
    LET count == Len(run.pages) IN
    /\ run.status = "running"
    /\ p.at >= run.started
    /\ index = count
    /\ count < PageLimit
    /\ count = 0 => p.token = None
    /\ count > 0 => LET previous == run.pages[count] IN
                      previous.more /\ previous.next # None /\ previous.next = p.token

(* append_page's checks against the run and its last page *)
Continues(run, p, index) ==
    LET count == Len(run.pages) IN
    /\ run.status = "running"
    /\ p.at >= run.started
    /\ index = count
    /\ count < PageLimit
    /\ count = 0 => p.token = None
    /\ count > 0 => LET previous == run.pages[count] IN
                      /\ previous.more
                      /\ previous.next # None
                      /\ previous.next = p.token
                      /\ p.at >= previous.at

Extended(run, p) == [run EXCEPT !.pages = Append(@, p)]

AppendPage(i) ==
    /\ At(i, "append")
    /\ LET p == PageOf(item[i].snap)
           r == item[i].run IN
         IF Continues(runs[r], p, item[i].page)
         THEN /\ runs' = [runs EXCEPT ![r] = Extended(@, p)]
              /\ Goto(i, "observe")
         ELSE /\ Goto(i, "fail")
              /\ UNCHANGED runs
    /\ UNCHANGED <<raw, analysed, bound, clock, invocation, phase, selected>>

(* After a page the runner stops at the end of the feed or at the limit,   *)
(* or asks for the next page with the token of this one, s.                *)
AfterPage(w, s) ==
    IF ~s.more \/ w.page + 1 >= PageLimit
    THEN [w EXCEPT !.pc = "finish", !.error = None]
    ELSE IF s.next = None
    THEN [w EXCEPT !.pc = "fail"]
    ELSE [w EXCEPT !.pc = "request", !.error = None, !.token = s.next,
                   !.page = w.page + 1]

(* page_observer appends to the event log *)
ObservePage(i) ==
    /\ At(i, "observe")
    /\ item' = [item EXCEPT ![i] = AfterPage(item[i], raw[item[i].snap])]
    /\ UNCHANGED <<durable, clock, invocation, phase, selected>>

ObserverFails(i) ==
    /\ At(i, "observe")
    /\ Goto(i, "fail")
    /\ UNCHANGED <<durable, clock, invocation, phase, selected>>

(* mutant: completion is only compared with the start *)
MayFinishAfterStart(run, status, completed) ==
    LET count == Len(run.pages) IN
    /\ run.status = "running"
    /\ completed >= run.started
    /\ status = "completed" => /\ count > 0
                               /\ count = PageLimit \/ ~run.pages[count].more
    /\ status = "partial" => count > 0
    /\ status = "failed" => count = 0

(* finish_run's checks for a terminal status *)
MayFinish(run, status, completed) ==
    LET count == Len(run.pages) IN
    /\ run.status = "running"
    /\ completed >= run.started
    /\ count > 0 => completed >= run.pages[count].at
    /\ status = "completed" => /\ count > 0
                               /\ count = PageLimit \/ ~run.pages[count].more
    /\ status = "partial" => count > 0
    /\ status = "failed" => count = 0

Finished(run, status, completed, error) ==
    [run EXCEPT !.status = status, !.completed = completed, !.error = error]

FinishRun(i) ==
    /\ At(i, "finish")
    /\ \E t \in Readings :
         LET r == item[i].run
             done == CompletionTime(i, t) IN
         /\ clock' = t
         /\ IF MayFinish(runs[r], "completed", done)
            THEN /\ runs' = [runs EXCEPT ![r] = Finished(@, "completed", done, None)]
                 /\ Goto(i, "report")
            ELSE /\ Goto(i, "fail")
                 /\ UNCHANGED runs
    /\ UNCHANGED <<raw, analysed, bound, invocation, phase, selected>>

Failed == [Idle EXCEPT !.pc = "failed"]

(* A transaction can fail, and is then rolled back; before create_run so    *)
(* can the start of the item: its first event or opening its session.      *)
StoreFails(i) ==
    /\ \/ /\ At(i, "create")
          /\ item' = [item EXCEPT ![i] = Failed]
       \/ /\ item[i].pc \in {"interpret", "append", "finish"}
          /\ Goto(i, "fail")
    /\ UNCHANGED <<durable, clock, invocation, phase, selected>>

(* mutant: attempts are not counted *)
AfterFailureRetry(i) ==
    {Failed} \cup
    IF item[i].transport
    THEN {[Idle EXCEPT !.pc = "create", !.attempt = item[i].attempt + 1]}
    ELSE {}

(* What the worker does after a failed run: _collect_search retries a      *)
(* transport error with a new run, unless the retry cannot be logged, and  *)
(* reports everything else.                                                *)
AfterFailure(i) ==
    {Failed} \cup
    IF item[i].transport /\ item[i].attempt < MaxAttempts
    THEN {[Idle EXCEPT !.pc = "create", !.attempt = item[i].attempt + 1]}
    ELSE {}

(* mutant: every failure is persisted as FAILED *)
PersistFailureAsFailed(i) ==
    /\ At(i, "fail")
    /\ \E t \in Readings :
         LET r == item[i].run
             done == CompletionTime(i, t) IN
         /\ clock' = t
         /\ runs' = IF MayFinish(runs[r], "failed", done)
                    THEN [runs EXCEPT ![r] = Finished(@, "failed", done, item[i].error)]
                    ELSE runs
    /\ \E after \in AfterFailure(i) : item' = [item EXCEPT ![i] = after]
    /\ UNCHANGED <<raw, analysed, bound, invocation, phase, selected>>

(* The handler of _run persists PARTIAL or FAILED with the snapshot that   *)
(* caused it; when finish_run refuses, the run stays RUNNING. (This last   *)
(* transaction of a failed run is assumed to reach the database.)          *)
PersistFailure(i) ==
    /\ At(i, "fail")
    /\ \E t \in Readings :
         LET r == item[i].run
             done == CompletionTime(i, t)
             status == IF runs[r].pages = <<>> THEN "failed" ELSE "partial" IN
         /\ clock' = t
         /\ runs' = IF MayFinish(runs[r], status, done)
                    THEN [runs EXCEPT ![r] = Finished(@, status, done, item[i].error)]
                    ELSE runs
    /\ \E after \in AfterFailure(i) : item' = [item EXCEPT ![i] = after]
    /\ UNCHANGED <<raw, analysed, bound, invocation, phase, selected>>

(* query_completed is written to the event log and the result is taken. *)
Report(i) ==
    /\ At(i, "report")
    /\ selected' = [selected EXCEPT ![i] = item[i].run]
    /\ item' = [item EXCEPT ![i] = Idle]
    /\ UNCHANGED <<durable, clock, invocation, phase>>

ReportFails(i) ==
    /\ At(i, "report")
    /\ item' = [item EXCEPT ![i] = Failed]
    /\ UNCHANGED <<durable, clock, invocation, phase, selected>>

-----------------------------------------------------------------------------
Leave(p) ==
    /\ phase' = p
    /\ item' = [i \in Item |-> Idle]
    /\ selected' = [i \in Item |-> None]

(* mutant: a failure does not end the wait for queries never submitted *)
JoinAllWorkers ==
    /\ phase = "search"
    /\ \A i \in Item : item[i].pc \in {"idle", "failed"}
    /\ \/ /\ FailureObserved
          /\ Leave("failed")
       \/ /\ ~FailureObserved
          /\ phase' = "build"
          /\ UNCHANGED <<item, selected>>
    /\ UNCHANGED <<durable, clock, invocation>>

(* The scheduler joins its workers: the first error ends the invocation. *)
JoinWorkers ==
    /\ phase = "search"
    /\ Active = {}
    /\ \/ /\ FailureObserved
          /\ Leave("failed")
       \/ /\ \A i \in Item : At(i, "idle")
          /\ phase' = "build"
          /\ UNCHANGED <<item, selected>>
    /\ UNCHANGED <<durable, clock, invocation>>

Members(f) == {i \in Item : FamilyOf[i] = f}
Families == {FamilyOf[i] : i \in Item}
Built(f) == \A i \in Members(f) : bound[i] # None

(* YandexSearchComparableSetBuilder.build and the store's persist: the set *)
(* is created at the current time, no earlier than its last run completed. *)
MayBuild(f, t) ==
    \A i \in Members(f) : /\ Reusable(selected[i])
                          /\ runs[selected[i]].completed <= t

BuildComparable(f) ==
    /\ phase = "build"
    /\ ~Built(f)
    /\ \E t \in Readings :
         /\ clock' = t
         /\ IF MayBuild(f, t)
            THEN /\ bound' = [i \in Item |-> IF i \in Members(f) THEN selected[i]
                                             ELSE bound[i]]
                 /\ UNCHANGED local
            ELSE /\ Leave("failed")
                 /\ UNCHANGED bound
    /\ UNCHANGED <<runs, raw, analysed, invocation>>

(* An existing comparable was rebuilt and compared instead of persisted. *)
FinishBuild ==
    /\ phase = "build"
    /\ \A f \in Families : Built(f)
    /\ Leave("done")
    /\ UNCHANGED <<durable, clock, invocation>>

(* The process is killed, or the machine loses power: snapshot files are   *)
(* not synced before the transaction that cites them, so some may be lost. *)
Damaged == {s \in 1..Len(raw) : raw[s].state = "damaged"}

Kill ==
    /\ phase \in {"search", "build"}
    /\ Leave("killed")
    /\ \E lost \in SUBSET (1..Len(raw)) :
         /\ Cardinality(lost \cup Damaged) <= MaxDamage
         /\ raw' = [s \in 1..Len(raw) |->
                       IF s \in lost THEN [raw[s] EXCEPT !.state = "damaged"]
                       ELSE raw[s]]
    /\ UNCHANGED <<runs, analysed, bound, clock, invocation>>

(* Nothing is left to do, or nobody resumes the experiment any more. *)
Stopped ==
    /\ \/ phase = "done"
       \/ phase \in {"failed", "killed"} /\ invocation = MaxInvocations
    /\ UNCHANGED vars

RunnerStep(i) ==
    \/ CreateRun(i) \/ TransportError(i) \/ Respond(i)
    \/ PersistMetadata(i) \/ RawWriteFails(i) \/ Interpret(i)
    \/ AppendPage(i) \/ ObservePage(i) \/ ObserverFails(i)
    \/ FinishRun(i) \/ StoreFails(i) \/ PersistFailure(i)
    \/ Report(i) \/ ReportFails(i)

CoordinatorStep ==
    \/ \E i \in Item : Submit(i)
    \/ JoinWorkers
    \/ \E f \in Families : BuildComparable(f)
    \/ FinishBuild

Next ==
    \/ Invoke
    \/ CoordinatorStep
    \/ \E i \in Item : RunnerStep(i)
    \/ Kill
    \/ Stopped

Spec == Init /\ [][Next]_vars

(* A worker thread runs until its item ends: requests time out, the gate   *)
(* is held for one transaction at a time. Nobody has to resume.            *)
Fairness ==
    /\ WF_vars(CoordinatorStep)
    /\ \A i \in Item : WF_vars(RunnerStep(i))

FairSpec == Spec /\ Fairness

-----------------------------------------------------------------------------
Run == 1..Len(runs)
Last(r) == runs[r].pages[Len(runs[r].pages)]

PageRecord == [snap : Nat, at : 1..MaxTime, token : Nat, next : Nat,
               more : BOOLEAN]
RunRecord == [text : {TextOf[i] : i \in Item}, started : 1..MaxTime,
              status : Status, completed : 0..MaxTime, error : Nat,
              pages : Seq(PageRecord)]
SnapshotRecord == [state : {"body", "whole", "damaged"}, kind : Kind,
                   at : 1..MaxTime, token : Nat, more : BOOLEAN, next : Nat]
ItemRecord == [pc : Working \cup {"idle", "waiting", "failed"},
               attempt : 0..MaxAttempts, run : Nat, page : Nat, token : Nat,
               snap : Nat, last : 0..MaxTime, error : Nat, transport : BOOLEAN]

(* The types of the variables: every reference stays within its store. *)
TypeOK ==
    /\ runs \in Seq(RunRecord)
    /\ raw \in Seq(SnapshotRecord)
    /\ analysed \subseteq 1..Len(raw)
    /\ bound \in [Item -> 0..Len(runs)]
    /\ clock \in 1..MaxTime
    /\ invocation \in 0..MaxInvocations
    /\ phase \in Phase
    /\ item \in [Item -> ItemRecord]
    /\ selected \in [Item -> 0..Len(runs)]

(* market-observation.md, page linkage: the pages of every run, whatever   *)
(* its status, form one chain in which each request carries exactly the    *)
(* continuation token of the page before, in time order and within the     *)
(* limit. The store only compares neighbours at append time.               *)
OneChain(run) ==
    /\ Len(run.pages) <= PageLimit
    /\ \A k \in 1..Len(run.pages) :
         LET p == run.pages[k] IN
         IF k = 1 THEN p.token = None /\ run.started <= p.at
         ELSE LET q == run.pages[k - 1] IN
              q.more /\ q.next # None /\ p.token = q.next /\ q.at <= p.at

PagesFormOneChain == \A r \in Run : OneChain(runs[r])

(* Run status semantics: COMPLETED only at the limit or at the end of the  *)
(* feed, PARTIAL only with pages, FAILED only without, completion never    *)
(* before the evidence, whichever interleaving of failures led there.      *)
Evidenced(run) ==
    LET count == Len(run.pages) IN
    /\ run.status = "completed" =>
           /\ count > 0
           /\ count = PageLimit \/ ~run.pages[count].more
           /\ run.error = None
    /\ run.status = "partial" => count > 0
    /\ run.status = "failed" => count = 0
    /\ run.status # "running" =>
           /\ run.completed >= run.started
           /\ count > 0 => run.completed >= run.pages[count].at
    /\ run.status = "running" => run.completed = None /\ run.error = None

StatusMatchesEvidence == \A r \in Run : Evidenced(runs[r])

(* Whoever collected it and however it ended, a stored run is one chain of *)
(* pages and its status says no more than they show (storage/probes.py:    *)
(* 180-260).                                                               *)
RunsAreSound == PagesFormOneChain /\ StatusMatchesEvidence

(* Raw first: a page is stored only after its response was completely      *)
(* written and analysed, it agrees with that response, and no response is  *)
(* the evidence of two pages, in one run or in two.                        *)
PagesRestOnRawEvidence ==
    /\ \A r \in Run : \A k \in 1..Len(runs[r].pages) :
          LET p == runs[r].pages[k] IN
          /\ p.snap \in analysed
          /\ raw[p.snap].kind = "page"
          /\ raw[p.snap].state # "body"
          /\ p = PageOf(p.snap)
    /\ \A r, s \in Run :
          \A k \in 1..Len(runs[r].pages), l \in 1..Len(runs[s].pages) :
              runs[r].pages[k].snap = runs[s].pages[l].snap => r = s /\ k = l

(* market-observation.md, error_raw_snapshot_id: the snapshot blamed for a *)
(* terminal error was received by this run, after all its pages or as the  *)
(* last of them, in answer to the token it had reached.                    *)
ErrorsBlameTheLastResponse ==
    \A r \in Run :
        LET e == runs[r].error
            pages == runs[r].pages IN
        e # None =>
            /\ e <= Len(raw)
            /\ raw[e].state # "body"
            /\ \/ pages # <<>> /\ Last(r).snap = e
               \/ /\ \A s \in Run : \A k \in 1..Len(runs[s].pages) :
                        runs[s].pages[k].snap # e
                  /\ raw[e].token = IF pages = <<>> THEN None ELSE Last(r).next

(* Whatever the store cites is there and says what it is cited for, and    *)
(* each response is cited by one run only.                                 *)
EvidenceIsCited == PagesRestOnRawEvidence /\ ErrorsBlameTheLastResponse

(* The database may refer to a folder that a power failure took. *)
EvidenceIsThere(r) ==
    \A k \in 1..Len(runs[r].pages) : raw[runs[r].pages[k].snap].state = "whole"

(* Section 12.4 and 13 of the experiment spec: what is selected for a      *)
(* comparable, or bound into one, is a COMPLETED run of that very query,   *)
(* and a family's comparable is bound as a whole. While an invocation      *)
(* works, every response these runs rest on is in the raw store, also      *)
(* after a power failure lost some that the database refers to.            *)
OnlyCompletedRunsAreSelected ==
    /\ \A i \in Item : \A r \in {selected[i], bound[i]} \ {None} :
          runs[r].status = "completed" /\ runs[r].text = TextOf[i]
    /\ phase = "build" => \A i \in Item : selected[i] # None
    /\ \A i, j \in Item :
          FamilyOf[i] = FamilyOf[j] => (bound[i] = None <=> bound[j] = None)
    /\ phase \in {"search", "build"} =>
          \A i \in Item : \A r \in {selected[i], bound[i]} \ {None} : EvidenceIsThere(r)

(* A stored run only grows until it is terminal and is then never touched: *)
(* a retry, a resume or a late worker writes a run of its own.             *)
StoredEvidenceIsFinal ==
    [][ /\ Len(runs') >= Len(runs)
        /\ \A r \in Run :
             /\ runs[r].status # "running" => runs'[r] = runs[r]
             /\ \A k \in 1..Len(runs[r].pages) :
                  runs'[r].pages[k] = runs[r].pages[k]
        /\ \A i \in Item : bound[i] # None => bound'[i] = bound[i] ]_vars

(* Section 10: resume works in whole queries. A new run is started for a   *)
(* query only while no stored run of it can be reused. (When two families  *)
(* declare the same text, each may still collect it in one invocation.)    *)
OnlyMissingQueriesAreCollected ==
    [][ Len(runs') > Len(runs) =>
            \A r \in Run : Reusable(r) => runs[r].text # runs'[Len(runs')].text ]_vars

(* README: a run is persisted as completed, partial or failed. Unless it   *)
(* is killed, a worker leaves a run, to retry or to give up, only once it  *)
(* is terminal. A clock that is set back breaks this.                      *)
EndedRunsAreTerminal ==
    [][ \A i \in Item :
            item[i].pc \in Working /\ item[i].run # None /\ phase' = phase =>
                \/ item'[i].run = item[i].run
                \/ runs'[item[i].run].status # "running" ]_vars

(* The handler of a failed run takes the later of the clock and the last   *)
(* response for its completion, and the store refuses one before the last  *)
(* page (ingestion/yandex_probes.py:361, storage/probes.py:254). Whatever  *)
(* failed, a run that its worker leaves open has a page from a time that   *)
(* the clock was set back to before.                                       *)
OnlyTheClockLeavesRunsOpen ==
    [][ \A i \in Item :
            item[i].pc \in Working /\ item[i].run # None /\ phase' = phase =>
                LET r == item[i].run
                    pages == runs'[r].pages IN
                \/ item'[i].run = r
                \/ runs'[r].status # "running"
                \/ pages # <<>> /\ clock' < pages[Len(pages)].at ]_vars

(* Every invocation comes to an end: no worker waits for another for ever, *)
(* and neither a retry nor a refused transaction keeps one alive.          *)
InvocationEnds == phase \in {"search", "build"} ~> phase \in {"done", "failed", "killed"}
=============================================================================
