-------------------------- MODULE VersionedStores --------------------------
(* The stores of immutable versions in the shared database: query families  *)
(* (storage/query_families.py), comparable sets (storage/comparable_sets.py)*)
(* and cadence plans (storage/cadence_plans.py), with the freezer and the   *)
(* audit of the cadence experiment that use them                            *)
(* (experiments/collection_cadence_protocol.py).                            *)
(*                                                                          *)
(* A store looks an entry up in a statement of its own; the insertions that *)
(* may follow are one transaction.  Between the two, any other process may  *)
(* write.  Probe runs are what ProbeCollection makes of them: they start,   *)
(* end once and do not change afterwards.                                   *)
EXTENDS SchemaMigrations, Sequences, FiniteSetsExt

CONSTANTS
    Version,            \* version numbers of the query family and of the comparable set
    FamilyContents,     \* family declarations: [source, queries, created]
    PlanContents,       \* plan declarations: [family, listing, checkpoints]
    FirstSeen,          \* when each known listing was first seen
    Run,                \* identifiers of search runs
    QueryOf, ContextOf, \* what each run asks and in which probe context
    Contexts,           \* the clean anonymous contexts without a region
    Guard,              \* how long before its first checkpoint a plan is frozen
    MaxAge,             \* how old a run may be at its checkpoint
    MaxTime             \* bound: the last instant

ASSUME StoreAssumption ==
    /\ Version \subseteq Nat \ {0}
    /\ Guard \in Nat /\ MaxAge \in Nat /\ MaxTime \in Nat
    /\ \A f \in FamilyContents : f.queries # << >> /\ f.created \in Nat
    /\ \A c \in PlanContents : 1 \in DOMAIN c.checkpoints

(* Both periods are two hours (_FREEZE_GUARD, _MAX_CHECKPOINT_AGE_SECONDS),  *)
(* and a schedule is in the order of time (_validate_checkpoint_schedule).  *)
ASSUME ScheduleAssumption ==
    /\ MaxAge <= Guard
    /\ \A c \in PlanContents : \A i \in DOMAIN c.checkpoints :
          c.checkpoints[i] \in Nat /\ c.checkpoints[1] <= c.checkpoints[i]

VARIABLES
    clock,              \* the time of the database host
    runs,               \* the probe runs: [status, started, completed]
    families, sets, plans,  \* the persisted entries, by key
    client,             \* what each process is about to write
    returned,           \* the entries callers were told are persisted
    reports             \* the audits that ended with a report

storeVars == <<clock, runs, families, sets, plans, client, returned, reports>>
vars == <<schemaVars, storeVars>>

Yandex == "yandex_public"
PlanId == 1
Nothing == [does |-> "nothing"]
Put(store, key, value) == [does |-> "put", store |-> store, key |-> key, value |-> value]
With(entries, key, value) ==
    [k \in DOMAIN entries \cup {key} |-> IF k = key THEN value ELSE entries[k]]

Stored(store) == CASE store = "family" -> families
                   [] store = "set" -> sets
                   [] store = "plan" -> plans

(* What two writers of one key compare: a plan is compared by the hash of   *)
(* its declaration, which leaves the instant of the freeze out.             *)
Content(store, value) ==
    IF store = "plan" THEN [value EXCEPT !.frozen = 0] ELSE value

Init ==
    /\ SchemaInit
    /\ clock = 0
    /\ runs = [r \in Run |-> [status |-> "none", started |-> 0, completed |-> 0]]
    /\ families = [k \in {} |-> 0] /\ sets = [k \in {} |-> 0] /\ plans = [k \in {} |-> 0]
    /\ client = [p \in Opener |-> Nothing]
    /\ returned = {}
    /\ reports = {}

Ready(p) == opener[p] = Opened /\ client[p] = Nothing

---------------------------------------------------------------------------
(* The lookup of persist: an entry that is there is the answer, or a        *)
(* conflict; otherwise the process goes on to insert.                       *)

LookUp(p, store, key, value) ==
    LET found == Stored(store) IN
    IF key \notin DOMAIN found
    THEN /\ client' = [client EXCEPT ![p] = Put(store, key, value)]
         /\ UNCHANGED returned
    ELSE /\ client' = [client EXCEPT ![p] = Nothing]
         /\ returned' = IF Content(store, found[key]) = Content(store, value)
                        THEN returned \cup {<<store, key, found[key]>>}
                        ELSE returned

SubmitFamily(p) ==
    /\ Ready(p)
    /\ \E version \in Version, family \in FamilyContents :
          LookUp(p, "family", version, family)
    /\ UNCHANGED <<schemaVars, clock, runs, families, sets, plans, reports>>

Starts(set) == {runs[set.runs[i]].started : i \in DOMAIN set.runs}
Completions(set) == {runs[set.runs[i]].completed : i \in DOMAIN set.runs}

(* _validate_references: the family is persisted and of the source, the     *)
(* runs answer exactly its queries in one clean context, all are completed, *)
(* and the period is theirs.                                                *)
ValidReferences(set) ==
    /\ set.family \in DOMAIN families
    /\ LET family == families[set.family] IN
       /\ family.source = Yandex
       /\ Len(set.runs) = Len(family.queries)
       /\ \A i \in DOMAIN set.runs :
             /\ QueryOf[set.runs[i]] = family.queries[i]
             /\ ContextOf[set.runs[i]] = set.context
             /\ runs[set.runs[i]].status = "completed"
    /\ set.context \in Contexts
    /\ set.from = Min(Starts(set))
    /\ set.to = Max(Completions(set))

(* What the domain accepts of a set on its own.                             *)
WellFormedSet(set) ==
    /\ set.from <= set.to
    /\ \A i, j \in DOMAIN set.runs : i # j => set.runs[i] # set.runs[j]

RunLists == UNION {[1..k -> Run] : k \in 1..2}
SetContents ==
    {set \in [family : Version, context : {ContextOf[r] : r \in Run},
              runs : RunLists, from : 0..MaxTime, to : 0..MaxTime] : WellFormedSet(set)}

(* The references are validated before the lookup; a set that fails is      *)
(* refused without a trace.                                                 *)
SubmitSet(p) ==
    /\ Ready(p)
    /\ DOMAIN families # {}
    /\ \E version \in Version, set \in SetContents :
          ValidReferences(set) /\ LookUp(p, "set", version, set)
    /\ UNCHANGED <<schemaVars, clock, runs, families, sets, plans, reports>>

(* The freezer looks at the clock and at what the plan declares...          *)
CheckPlan(p) ==
    /\ Ready(p)
    /\ \E plan \in PlanContents :
          /\ clock <= plan.checkpoints[1] - Guard
          /\ plan.family \in DOMAIN families
          /\ families[plan.family].source = Yandex
          /\ families[plan.family].created <= clock
          /\ plan.listing \in DOMAIN FirstSeen
          /\ FirstSeen[plan.listing] <= clock
          /\ client' = [client EXCEPT ![p] = [does |-> "freeze", value |-> plan]]
    /\ UNCHANGED <<schemaVars, clock, runs, families, sets, plans, returned, reports>>

(* mutant: the store relies on the freezer's look at the clock *)
SubmitPlanAsChecked(p) ==
    /\ client[p].does = "freeze"
    /\ LookUp(p, "plan", PlanId, [frozen |-> clock, declared |-> client[p].value])
    /\ UNCHANGED <<schemaVars, clock, runs, families, sets, plans, reports>>

(* ... and the store looks the plan up and the clock again, and dates the   *)
(* plan by that second reading.                                             *)
SubmitPlan(p) ==
    LET plan == client[p].value
        frozen == [frozen |-> clock, declared |-> plan]
        latest == plan.checkpoints[1] - Guard IN
    /\ client[p].does = "freeze"
    /\ IF IF PlanId \in DOMAIN plans
          THEN plans[PlanId].declared = plan /\ plans[PlanId].frozen > latest
          ELSE clock > latest
       THEN client' = [client EXCEPT ![p] = Nothing] /\ UNCHANGED returned
       ELSE LookUp(p, "plan", PlanId, frozen)
    /\ UNCHANGED <<schemaVars, clock, runs, families, sets, plans, reports>>

---------------------------------------------------------------------------
(* The transaction: all rows of the entry, read back before the commit.  A  *)
(* key that was taken since the lookup violates the primary key, and the    *)
(* insertion fails whatever the content.                                    *)

(* mutant: INSERT OR REPLACE *)
Replaced(p, store) ==
    LET put == client[p] IN With(Stored(store), put.key, put.value)

Inserted(p, store) ==
    LET put == client[p] IN
    IF put.key \in DOMAIN Stored(store) THEN Stored(store)
    ELSE With(Stored(store), put.key, put.value)

InsertInto(p, store) ==
    LET put == client[p] IN
    /\ put.does = "put" /\ put.store = store
    /\ client' = [client EXCEPT ![p] = Nothing]
    /\ returned' = IF put.key \in DOMAIN Stored(store) THEN returned
                   ELSE returned \cup {<<store, put.key, put.value>>}
    /\ UNCHANGED <<schemaVars, clock, runs, reports>>

InsertFamily(p) ==
    /\ InsertInto(p, "family")
    /\ families' = Inserted(p, "family")
    /\ UNCHANGED <<sets, plans>>

InsertSet(p) ==
    /\ InsertInto(p, "set")
    /\ sets' = Inserted(p, "set")
    /\ UNCHANGED <<families, plans>>

InsertPlan(p) ==
    /\ InsertInto(p, "plan")
    /\ plans' = Inserted(p, "plan")
    /\ UNCHANGED <<families, sets>>

---------------------------------------------------------------------------
(* The audit of the cadence experiment: one submitted run per member of the *)
(* family and checkpoint, against the frozen plan.                          *)

Declared(plan) == plan.declared

(* A run counts for a checkpoint when it started within the last MaxAge and *)
(* completed before it.                                                     *)
FreshFor(r, checkpoint) ==
    /\ runs[r].status = "completed"
    /\ runs[r].completed <= checkpoint
    /\ runs[r].started <= checkpoint
    /\ checkpoint - runs[r].started <= MaxAge

SearchCheckpoint(chosen, family, checkpoint) ==
    /\ Len(chosen) = Len(family.queries)
    /\ \A i \in DOMAIN chosen :
          /\ FreshFor(chosen[i], checkpoint)
          /\ ContextOf[chosen[i]] = ContextOf[chosen[1]]
          /\ ContextOf[chosen[i]] \in Contexts
    /\ {QueryOf[chosen[i]] : i \in DOMAIN chosen} = {family.queries[i] : i \in DOMAIN family.queries}

(* A plan frozen too late, or a family or listing younger than the plan,    *)
(* fails the audit.                                                         *)
PredeclaredPlan(plan) ==
    LET declared == Declared(plan) IN
    /\ plan.frozen <= declared.checkpoints[1] - Guard
    /\ declared.family \in DOMAIN families
    /\ families[declared.family].created <= plan.frozen
    /\ FirstSeen[declared.listing] <= plan.frozen

(* The manifest binds runs to the checkpoints of the plan and uses none     *)
(* twice.                                                                   *)
Manifests ==
    {m \in UNION {[1..k -> RunLists] : k \in 1..2} :
        \A c, d \in DOMAIN m : \A i \in DOMAIN m[c], j \in DOMAIN m[d] :
            <<c, i>> # <<d, j>> => m[c][i] # m[d][j]}

Audit(p) ==
    /\ Ready(p)
    /\ PlanId \in DOMAIN plans
    /\ LET plan == plans[PlanId] IN
       /\ PredeclaredPlan(plan)
       /\ \E manifest \in Manifests :
             /\ DOMAIN manifest = DOMAIN Declared(plan).checkpoints
             /\ \A c \in DOMAIN manifest :
                   SearchCheckpoint(manifest[c], families[Declared(plan).family],
                                    Declared(plan).checkpoints[c])
             /\ reports' = reports \cup {[plan |-> plan, manifest |-> manifest]}
    /\ UNCHANGED <<schemaVars, clock, runs, families, sets, plans, client, returned>>

---------------------------------------------------------------------------
(* The rest of the system.                                                  *)

StartRun(r) ==
    /\ runs[r].status = "none"
    /\ runs' = [runs EXCEPT ![r].status = "running", ![r].started = clock]
    /\ UNCHANGED <<schemaVars, clock, families, sets, plans, client, returned, reports>>

(* mutant: a run may be finished a second time *)
EndRunAgain(r, status) ==
    /\ runs[r].status \in {"running", "completed"}
    /\ runs' = [runs EXCEPT ![r].status = status, ![r].completed = clock]
    /\ UNCHANGED <<schemaVars, clock, families, sets, plans, client, returned, reports>>

EndRun(r, status) ==
    /\ runs[r].status = "running"
    /\ runs' = [runs EXCEPT ![r].status = status, ![r].completed = clock]
    /\ UNCHANGED <<schemaVars, clock, families, sets, plans, client, returned, reports>>

Tick ==
    /\ clock < MaxTime
    /\ clock' = clock + 1
    /\ UNCHANGED <<schemaVars, runs, families, sets, plans, client, returned, reports>>

(* Opening, migrating and leaving; a process that leaves, leaves what it    *)
(* was about to write unwritten.                                            *)
Database(p) ==
    /\ ReadVersion(p) \/ Migrate(p) \/ Leave(p)
    /\ client' = [client EXCEPT ![p] = Nothing]
    /\ UNCHANGED <<clock, runs, families, sets, plans, returned, reports>>

Next ==
    \/ Tick
    \/ \E r \in Run : StartRun(r) \/ \E s \in {"completed", "failed"} : EndRun(r, s)
    \/ \E p \in Opener :
        \/ Database(p)
        \/ SubmitFamily(p) \/ SubmitSet(p) \/ CheckPlan(p) \/ SubmitPlan(p)
        \/ InsertFamily(p) \/ InsertSet(p) \/ InsertPlan(p)
        \/ Audit(p)

Spec == Init /\ [][Next]_vars

---------------------------------------------------------------------------
(* The types of the variables: every entry is under a key of its store, and *)
(* what a process is about to write is an entry or a plan to be frozen.     *)
Pending ==
    {Nothing}
    \cup {[does |-> "freeze", value |-> plan] : plan \in PlanContents}
    \cup {Put("family", v, family) : v \in Version, family \in FamilyContents}
    \cup {Put("set", v, set) : v \in Version, set \in SetContents}
    \cup {Put("plan", PlanId, plan) : plan \in [frozen : 0..MaxTime, declared : PlanContents]}

TypeOK ==
    /\ SchemaTypeOK
    /\ clock \in 0..MaxTime
    /\ runs \in [Run -> [status : {"none", "running", "completed", "failed"},
                        started : 0..MaxTime, completed : 0..MaxTime]]
    /\ DOMAIN families \subseteq Version /\ families \in [DOMAIN families -> FamilyContents]
    /\ DOMAIN sets \subseteq Version /\ sets \in [DOMAIN sets -> SetContents]
    /\ DOMAIN plans \subseteq {PlanId}
    /\ plans \in [DOMAIN plans -> [frozen : 0..MaxTime, declared : PlanContents]]
    /\ client \in [Opener -> Pending]

(* What a caller was told is persisted is found, unchanged, for ever,       *)
(* although the lookup and the insertion of another writer of the same key  *)
(* may fall on both sides of its own; and a stored set, whose references    *)
(* are validated again at every reading, stays readable whatever the family *)
(* store and the probe store do after the first validation                  *)
(* (query_families.py:37-44, comparable_sets.py:47-55 and 461).             *)
EntriesStayReadable ==
    /\ \A e \in returned : e[2] \in DOMAIN Stored(e[1]) /\ Stored(e[1])[e[2]] = e[3]
    /\ \A v \in DOMAIN sets : ValidReferences(sets[v])

(* A plan precedes its evidence: a stored plan was frozen in time, although *)
(* the freezer's own look at the clock may be long past when the store      *)
(* dates the plan, and what a report rests on was collected after that:     *)
(* neither a run that had started by then nor one that failed counts, and   *)
(* the plan is still the stored one (cadence_plans.py:108-112,              *)
(* collection_cadence_protocol.py:192-198,                                  *)
(* collection_cadence_evidence.py:779-809).                                 *)
PlansPrecedeEvidence ==
    /\ \A k \in DOMAIN plans :
          LET declared == Declared(plans[k]) IN
          /\ plans[k].frozen <= declared.checkpoints[1] - Guard
          /\ families[declared.family].created <= plans[k].frozen
    /\ \A report \in reports :
          /\ report.plan = plans[PlanId]
          /\ \A c \in DOMAIN report.manifest :
                \A i \in DOMAIN report.manifest[c] :
                   LET run == runs[report.manifest[c][i]] IN
                   run.status = "completed" /\ run.started >= report.plan.frozen

(* The three stores together are one write-once store.                      *)
Entries == UNION {{<< <<store, key>>, Stored(store)[key]>> : key \in DOMAIN Stored(store)}
                  : store \in {"family", "set", "plan"}}
Abstract == INSTANCE WriteOnce WITH
    Key <- {"family", "set"} \X Version \cup {<<"plan", PlanId>>},
    Value <- FamilyContents \cup SetContents
               \cup [frozen : 0..MaxTime, declared : PlanContents],
    stored <- Entries

(* Each step of the stores writes one new entry or none: two processes that *)
(* found a key free never both write it, and nothing is replaced or removed.*)
EntriesAreWrittenOnce == Abstract!Spec
=============================================================================
