--------------------- MODULE PlansAndExperimentsProofs ---------------------
(***************************************************************************)
(* Proofs about SchemaMigrations and about VersionedStores, which rests on *)
(* it: that the schema is that of a version however openings overlap, that *)
(* a migrated database stays usable, and that what the stores of plans and *)
(* comparables hold is written once, stays readable and comes in order,    *)
(* for any number of processes and whichever of them are killed.  Then     *)
(* about the experiments that plans and stored runs are for,               *)
(* FeedExperiments and CadenceAudit: what their verdicts say, for any      *)
(* archive, any histories and any submission.                              *)
(***************************************************************************)
EXTENDS VersionedStores, CadenceAudit, FiniteSetTheorems, TLAPS

Doings == {Closed, Opened, Refused} \cup {Migrating(t) : t \in 1..SchemaVersion}

LEMMA FromIsADoing == \A v \in 0..SchemaVersion : From(v) \in Doings
BY DEF Doings, From, Migrating, SchemaVersion

LEMMA MigrationsAreKnown ==
    ASSUME SchemaTypeOK, NEW p \in Opener, opener[p].at = "migrating"
    PROVE  opener[p].next \in 1..SchemaVersion
BY DEF SchemaTypeOK, Closed, Opened, Refused, Migrating

LEMMA StepTypes ==
    ASSUME SchemaTypeOK, NEW p \in Opener,
           ReadVersion(p) \/ Migrate(p) \/ MigrationLockTimeout(p) \/ Leave(p)
    PROVE  SchemaTypeOK'
<1> USE DEF SchemaTypeOK
<1>1. Closed \in Doings /\ Refused \in Doings
    BY DEF Doings
<1>2. \E doing \in Doings : opener' = [opener EXCEPT ![p] = doing]
    <2>1. CASE ReadVersion(p)
        <3>1. userVersion > SchemaVersion \/ From(userVersion) \in Doings
            BY FromIsADoing DEF SchemaVersion
        <3> QED
            BY <1>1, <2>1, <3>1 DEF ReadVersion
    <2>2. CASE Migrate(p)
        <3>1. From(opener[p].next) \in Doings
            BY <2>2, MigrationsAreKnown, FromIsADoing DEF Migrate, SchemaVersion
        <3> QED
            BY <1>1, <2>2, <3>1 DEF Migrate
    <2>3. CASE MigrationLockTimeout(p) \/ Leave(p)
        BY <1>1, <2>3 DEF MigrationLockTimeout, Leave
    <2> QED
        BY <2>1, <2>2, <2>3
<1>3. userVersion' \in Nat /\ schema' \subseteq 1..SchemaVersion
    <2>1. CASE Migrate(p)
        <3>1. PICK t \in 1..SchemaVersion : t = opener[p].next
            BY <2>1, MigrationsAreKnown DEF Migrate
        <3>2. \/ userVersion' = userVersion /\ schema' = schema
              \/ userVersion' = t /\ schema' = schema \cup {t}
            BY <2>1, <3>1 DEF Migrate
        <3>3. userVersion \in Nat /\ schema \subseteq 1..SchemaVersion /\ t \in Nat
            BY DEF SchemaVersion
        <3> HIDE DEF SchemaTypeOK
        <3> QED
            BY <3>1, <3>2, <3>3
    <2>2. CASE ReadVersion(p) \/ MigrationLockTimeout(p) \/ Leave(p)
        BY <2>2 DEF ReadVersion, MigrationLockTimeout, Leave
    <2> QED
        BY <2>1, <2>2
<1> QED
    BY <1>2, <1>3 DEF Doings

(* The types of the version, of the migrations applied and of what each    *)
(* process does with the database.                                         *)
THEOREM SchemaTypesHold == SchemaSpec => []SchemaTypeOK
<1>1. SchemaInit => SchemaTypeOK
    BY VersionAssumption DEF SchemaInit, SchemaTypeOK, SchemaVersion, Closed
<1>2. SchemaTypeOK /\ [SchemaNext]_schemaVars => SchemaTypeOK'
    <2>1. ASSUME SchemaTypeOK, SchemaNext PROVE SchemaTypeOK'
        BY <2>1, StepTypes DEF SchemaNext
    <2>2. ASSUME SchemaTypeOK, UNCHANGED schemaVars PROVE SchemaTypeOK'
        BY <2>2 DEF SchemaTypeOK, schemaVars
    <2> QED
        BY <2>1, <2>2
<1> QED
    BY <1>1, <1>2, PTL DEF SchemaSpec

-----------------------------------------------------------------------------
(* The schema is always that of one version, at least the stated one, and   *)
(* a process migrates what comes next after something that is there.        *)
Migrated(v) ==
    /\ schema = 1..v
    /\ userVersion <= v \/ v = SchemaVersion
    /\ \A p \in Opener : opener[p].at = "migrating" => opener[p].next <= v + 1
    /\ \A p \in Opener : opener[p].at = "open" => v = SchemaVersion

SchemaInv == \E v \in 0..SchemaVersion : Migrated(v)

LEMMA MigratedStep ==
    ASSUME SchemaTypeOK, SchemaInv, NEW p \in Opener,
           ReadVersion(p) \/ Migrate(p) \/ MigrationLockTimeout(p) \/ Leave(p)
    PROVE  SchemaInv'
<1> USE DEF SchemaVersion
<1>1. PICK v \in 0..SchemaVersion : Migrated(v)
    BY DEF SchemaInv
<1>2. userVersion \in Nat /\ opener \in [Opener -> Doings]
    BY DEF SchemaTypeOK, Doings
<1>3. CASE ReadVersion(p)
    <2>1. CASE userVersion > SchemaVersion
        <3>1. opener' = [opener EXCEPT ![p] = Refused] /\ UNCHANGED <<userVersion, schema>>
            BY <1>3, <2>1 DEF ReadVersion
        <3>2. Migrated(v)'
            BY <1>1, <1>2, <3>1 DEF Migrated, Refused
        <3> QED
            BY <3>2 DEF SchemaInv
    <2>2. CASE userVersion <= SchemaVersion
        <3>0. ~(userVersion > SchemaVersion)
            BY <1>2, <2>2
        <3>1. opener' = [opener EXCEPT ![p] = From(userVersion)] /\ UNCHANGED <<userVersion, schema>>
            BY <1>3, <3>0 DEF ReadVersion
        <3>2. userVersion <= v
            BY <1>1, <1>2, <2>2 DEF Migrated
        <3>3. /\ From(userVersion).at = "migrating" => From(userVersion).next <= v + 1
              /\ From(userVersion).at = "open" => v = SchemaVersion
            BY <1>1, <1>2, <2>2, <3>2 DEF From, Opened, Migrating
        <3>4. Migrated(v)'
            BY <1>1, <1>2, <3>1, <3>3 DEF Migrated
        <3> QED
            BY <3>4 DEF SchemaInv
    <2> QED
        BY <1>2, <2>1, <2>2
<1>4. CASE Migrate(p)
    <2>1. PICK t \in 1..SchemaVersion : t = opener[p].next
        BY <1>4, MigrationsAreKnown DEF Migrate
    <2>2. t <= v + 1
        BY <1>1, <1>4, <2>1 DEF Migrated, Migrate
    <2>3. CASE opener' = [opener EXCEPT ![p] = Refused] /\ UNCHANGED <<userVersion, schema>>
        <3>1. Migrated(v)'
            BY <1>1, <1>2, <2>3 DEF Migrated, Refused
        <3> QED
            BY <3>1 DEF SchemaInv
    <2>4. CASE /\ schema' = schema \cup {t}
               /\ userVersion' = t
               /\ opener' = [opener EXCEPT ![p] = From(t)]
        <3>1. PICK w \in v..SchemaVersion : w = (IF t = v + 1 THEN t ELSE v)
            BY <2>2
        <3>2. 1..v \cup {t} = 1..w /\ t <= w
            BY <2>2, <3>1
        <3>3. schema' = 1..w
            BY <1>1, <2>4, <3>2 DEF Migrated
        <3>4. /\ From(t).at = "migrating" => From(t).next <= w + 1
              /\ From(t).at = "open" => w = SchemaVersion
            BY <3>1, <3>2 DEF From, Opened, Migrating
        <3>5. ASSUME NEW q \in Opener
              PROVE  /\ opener'[q].at = "migrating" => opener'[q].next <= w + 1
                     /\ opener'[q].at = "open" => w = SchemaVersion
            <4>1. CASE q = p
                BY <1>2, <2>4, <3>4, <4>1
            <4>2. CASE q # p
                <5>1. opener'[q] = opener[q]
                    BY <1>2, <2>4, <4>2
                <5>2. opener[q].at = "migrating" => opener[q].next \in 1..SchemaVersion
                    BY MigrationsAreKnown
                <5> QED
                    BY <1>1, <3>1, <5>1, <5>2 DEF Migrated
            <4> QED
                BY <4>1, <4>2
        <3>6. Migrated(w)'
            BY <2>4, <3>2, <3>3, <3>5 DEF Migrated
        <3> QED
            BY <3>1, <3>6 DEF SchemaInv
    <2> QED
        BY <1>4, <2>1, <2>3, <2>4 DEF Migrate
<1>5. CASE MigrationLockTimeout(p) \/ Leave(p)
    <2>1. PICK doing \in {Refused, Closed} :
              opener' = [opener EXCEPT ![p] = doing] /\ UNCHANGED <<userVersion, schema>>
        BY <1>5 DEF MigrationLockTimeout, Leave
    <2>2. Migrated(v)'
        BY <1>1, <1>2, <2>1 DEF Migrated, Refused, Closed
    <2> QED
        BY <2>2 DEF SchemaInv
<1> QED
    BY <1>3, <1>4, <1>5

LEMMA SchemaInvHolds == SchemaSpec => []SchemaInv
<1>1. SchemaInit => SchemaInv
    <2>1. ASSUME SchemaInit PROVE SchemaInv
        <3>1. PICK v \in 0..SchemaVersion :
                  v = (IF userVersion > SchemaVersion THEN SchemaVersion ELSE userVersion)
            BY <2>1, VersionAssumption DEF SchemaInit, SchemaVersion
        <3>2. Migrated(v)
            BY <2>1, <3>1, VersionAssumption DEF SchemaInit, Migrated, Closed, SchemaVersion
        <3> QED
            BY <3>2 DEF SchemaInv
    <2> QED
        BY <2>1
<1>2. SchemaTypeOK /\ SchemaInv /\ [SchemaNext]_schemaVars => SchemaInv'
    <2>1. ASSUME SchemaTypeOK, SchemaInv, SchemaNext PROVE SchemaInv'
        BY <2>1, MigratedStep DEF SchemaNext
    <2>2. ASSUME SchemaInv, UNCHANGED schemaVars PROVE SchemaInv'
        BY <2>2 DEF SchemaInv, Migrated, schemaVars
    <2> QED
        BY <2>1, <2>2
<1> QED
    BY <1>1, <1>2, SchemaTypesHold, PTL DEF SchemaSpec

(* _migrate, for any processes that open the database at once, migrate it   *)
(* at once, fail or are killed: the schema is always that of a version, and *)
(* whoever got past the constructor works on the whole of it.               *)
THEOREM SchemaStaysWhole == SchemaSpec => []SchemaIsOfAVersion
<1>1. SchemaInv => SchemaIsOfAVersion
    BY DEF SchemaInv, Migrated, SchemaIsOfAVersion, Opened
<1> QED
    BY <1>1, SchemaInvHolds, PTL

(* _migrate: once the database has this program's version and its migrators *)
(* are gone, any overlapping openings, failures and kills leave it usable.  *)
(* What two first openings can do to it before is no part of this.          *)
THEOREM SettledDatabaseStaysUsable == SchemaSpec => SettledStaysUsable
<1>1. SchemaTypeOK /\ Settled => DatabaseStaysUsable
    BY DEF SchemaTypeOK, Settled, DatabaseStaysUsable, AddsColumn, SchemaVersion
<1>2. SchemaTypeOK /\ Settled /\ [SchemaNext]_schemaVars => Settled'
    <2> SUFFICES ASSUME SchemaTypeOK, Settled, [SchemaNext]_schemaVars PROVE Settled'
        OBVIOUS
    <2>0. opener \in [Opener -> Doings] /\ userVersion \in Nat
        BY DEF SchemaTypeOK, Doings
    <2>1. ASSUME NEW p \in Opener,
                 ReadVersion(p) \/ MigrationLockTimeout(p) \/ Leave(p)
          PROVE  Settled'
        <3>1. PICK doing \in {Opened, Refused, Closed} :
                  opener' = [opener EXCEPT ![p] = doing] /\ UNCHANGED userVersion
            BY <2>0, <2>1 DEF ReadVersion, MigrationLockTimeout, Leave, From, Settled, SchemaVersion
        <3> QED
            BY <2>0, <3>1 DEF Settled, Opened, Refused, Closed
    <2>2. \A p \in Opener : ~Migrate(p)
        BY DEF Settled, Migrate
    <2>3. CASE UNCHANGED schemaVars
        BY <2>3 DEF Settled, schemaVars
    <2> QED
        BY <2>1, <2>2, <2>3 DEF SchemaNext
<1> QED
    BY <1>1, <1>2, SchemaTypesHold, PTL DEF SchemaSpec, SettledStaysUsable

-----------------------------------------------------------------------------
(***************************************************************************)
(* Proofs about VersionedStores.                                           *)
(***************************************************************************)

Stores == {"family", "set", "plan"}
PlanRecords == [frozen : 0..MaxTime, declared : PlanContents]
Freeze(plan) == [does |-> "freeze", value |-> plan]

(* Entries are added and never changed.                                     *)
Grows(old, new) == DOMAIN old \subseteq DOMAIN new /\ \A k \in DOMAIN old : new[k] = old[k]

LEMMA WithGrows ==
    ASSUME NEW entries, NEW key, NEW value, key \notin DOMAIN entries
    PROVE  Grows(entries, With(entries, key, value))
BY DEF Grows, With

LEMMA WithTypes ==
    ASSUME NEW Keys, NEW Values, NEW entries, DOMAIN entries \subseteq Keys,
           entries \in [DOMAIN entries -> Values], NEW key \in Keys, NEW value \in Values
    PROVE  LET new == With(entries, key, value) IN
           DOMAIN new \subseteq Keys /\ new \in [DOMAIN new -> Values]
BY DEF With

-----------------------------------------------------------------------------
(* What a process that inserts is about to write.                           *)

LEMMA PendingFamily ==
    ASSUME TypeOK, NEW p \in Opener, client[p].does = "put", client[p].store = "family"
    PROVE  \E v \in Version, f \in FamilyContents : client[p] = Put("family", v, f)
BY DEF TypeOK, Pending, Put, Nothing

LEMMA PendingSet ==
    ASSUME TypeOK, NEW p \in Opener, client[p].does = "put", client[p].store = "set"
    PROVE  \E v \in Version, s \in SetContents : client[p] = Put("set", v, s)
BY DEF TypeOK, Pending, Put, Nothing

LEMMA PendingPlan ==
    ASSUME TypeOK, NEW p \in Opener, client[p].does = "put", client[p].store = "plan"
    PROVE  \E plan \in PlanRecords : client[p] = Put("plan", PlanId, plan)
BY DEF TypeOK, Pending, Put, Nothing, PlanRecords

LEMMA PendingFreeze ==
    ASSUME TypeOK, NEW p \in Opener, client[p].does = "freeze"
    PROVE  \E plan \in PlanContents : client[p] = Freeze(plan)
BY DEF TypeOK, Pending, Put, Nothing, Freeze

(* The transactions of the three stores.                                    *)
FamilyWritten ==
    \E p \in Opener, v \in Version, f \in FamilyContents :
        /\ client[p] = Put("family", v, f) /\ v \notin DOMAIN families
        /\ families' = With(families, v, f) /\ UNCHANGED <<sets, plans>>
        /\ returned' = returned \cup {<<"family", v, f>>}
SetWritten ==
    \E p \in Opener, v \in Version, s \in SetContents :
        /\ client[p] = Put("set", v, s) /\ v \notin DOMAIN sets
        /\ sets' = With(sets, v, s) /\ UNCHANGED <<families, plans>>
        /\ returned' = returned \cup {<<"set", v, s>>}
PlanWritten ==
    \E p \in Opener, plan \in PlanRecords :
        /\ client[p] = Put("plan", PlanId, plan) /\ PlanId \notin DOMAIN plans
        /\ plans' = With(plans, PlanId, plan) /\ UNCHANGED <<families, sets>>
        /\ returned' = returned \cup {<<"plan", PlanId, plan>>}
Confirmed ==
    \E s \in Stores : \E k \in DOMAIN Stored(s) :
        returned' = returned \cup {<<s, k, Stored(s)[k]>>}

LEMMA InsertFamilyWrites ==
    ASSUME TypeOK, NEW p \in Opener, InsertFamily(p)
    PROVE  FamilyWritten \/ UNCHANGED <<families, sets, plans, returned>>
<1>1. client[p].does = "put" /\ client[p].store = "family"
    BY DEF InsertFamily, InsertInto
<1>2. PICK v \in Version, f \in FamilyContents : client[p] = Put("family", v, f)
    BY <1>1, PendingFamily
<1>3. client[p].key = v /\ client[p].value = f
    BY <1>2 DEF Put
<1> QED
    BY <1>2, <1>3 DEF InsertFamily, InsertInto, Inserted, Stored, FamilyWritten

LEMMA InsertSetWrites ==
    ASSUME TypeOK, NEW p \in Opener, InsertSet(p)
    PROVE  SetWritten \/ UNCHANGED <<families, sets, plans, returned>>
<1>1. client[p].does = "put" /\ client[p].store = "set"
    BY DEF InsertSet, InsertInto
<1>2. PICK v \in Version, s \in SetContents : client[p] = Put("set", v, s)
    BY <1>1, PendingSet
<1>3. client[p].key = v /\ client[p].value = s
    BY <1>2 DEF Put
<1> QED
    BY <1>2, <1>3 DEF InsertSet, InsertInto, Inserted, Stored, SetWritten

LEMMA InsertPlanWrites ==
    ASSUME TypeOK, NEW p \in Opener, InsertPlan(p)
    PROVE  PlanWritten \/ UNCHANGED <<families, sets, plans, returned>>
<1>1. client[p].does = "put" /\ client[p].store = "plan"
    BY DEF InsertPlan, InsertInto
<1>2. PICK plan \in PlanRecords : client[p] = Put("plan", PlanId, plan)
    BY <1>1, PendingPlan
<1>3. client[p].key = PlanId /\ client[p].value = plan
    BY <1>2 DEF Put
<1> QED
    BY <1>2, <1>3 DEF InsertPlan, InsertInto, Inserted, Stored, PlanWritten

LEMMA LookUpConfirms ==
    ASSUME NEW p \in Opener, NEW s \in Stores, NEW k, NEW value, LookUp(p, s, k, value)
    PROVE  Confirmed \/ UNCHANGED returned
BY DEF LookUp, Confirmed

-----------------------------------------------------------------------------
(* What one step changes.                                                   *)

LEMMA StoresStep ==
    ASSUME TypeOK, [Next]_vars
    PROVE  \/ FamilyWritten \/ SetWritten \/ PlanWritten
           \/ UNCHANGED <<families, sets, plans>> /\ (Confirmed \/ UNCHANGED returned)
<1>1. ASSUME NEW p \in Opener, SubmitFamily(p)
      PROVE  UNCHANGED <<families, sets, plans>> /\ (Confirmed \/ UNCHANGED returned)
    <2>1. PICK v \in Version, f \in FamilyContents : LookUp(p, "family", v, f)
        BY <1>1 DEF SubmitFamily
    <2> QED
        BY <1>1, <2>1, LookUpConfirms DEF SubmitFamily, Stores
<1>2. ASSUME NEW p \in Opener, SubmitSet(p)
      PROVE  UNCHANGED <<families, sets, plans>> /\ (Confirmed \/ UNCHANGED returned)
    <2>1. PICK v \in Version, s \in SetContents : LookUp(p, "set", v, s)
        BY <1>2 DEF SubmitSet
    <2> QED
        BY <1>2, <2>1, LookUpConfirms DEF SubmitSet, Stores
<1>3. ASSUME NEW p \in Opener, SubmitPlan(p)
      PROVE  UNCHANGED <<families, sets, plans>> /\ (Confirmed \/ UNCHANGED returned)
    <2>1. \/ UNCHANGED returned
          \/ LookUp(p, "plan", PlanId, [frozen |-> clock, declared |-> client[p].value])
        BY <1>3 DEF SubmitPlan
    <2> QED
        BY <1>3, <2>1, LookUpConfirms DEF SubmitPlan, Stores
<1>4. ASSUME NEW p \in Opener, CheckPlan(p) \/ Audit(p) \/ Database(p)
      PROVE  UNCHANGED <<families, sets, plans, returned>>
    BY <1>4 DEF CheckPlan, Audit, Database
<1>5. ASSUME NEW r \in Run, NEW s, StartRun(r) \/ EndRun(r, s)
      PROVE  UNCHANGED <<families, sets, plans, returned>>
    BY <1>5 DEF StartRun, EndRun
<1>6. CASE Tick \/ UNCHANGED vars
    BY <1>6 DEF Tick, vars, storeVars
<1> QED
    BY <1>1, <1>2, <1>3, <1>4, <1>5, <1>6,
       InsertFamilyWrites, InsertSetWrites, InsertPlanWrites DEF Next

RunRecords == [status : {"none", "running", "completed", "failed"},
               started : 0..MaxTime, completed : 0..MaxTime]

LEMMA RunChanges ==
    ASSUME runs \in [Run -> RunRecords], NEW r \in Run, NEW record \in RunRecords,
           runs[r].status # "completed", runs' = [runs EXCEPT ![r] = record]
    PROVE  /\ runs' \in [Run -> RunRecords]
           /\ \A q \in Run : runs[q].status = "completed" => runs'[q] = runs[q]
<1> HIDE DEF RunRecords
<1> QED
    OBVIOUS

(* A run that has completed does not change, and the clock only advances.   *)
LEMMA RunsStep ==
    ASSUME TypeOK, [Next]_vars
    PROVE  /\ clock' \in 0..MaxTime /\ clock <= clock'
           /\ runs' \in [Run -> RunRecords]
           /\ \A r \in Run : runs[r].status = "completed" => runs'[r] = runs[r]
<1>1. /\ clock \in 0..MaxTime /\ MaxTime \in Nat /\ clock \in Int
      /\ runs \in [Run -> RunRecords]
    BY StoreAssumption DEF TypeOK, RunRecords
<1>2. CASE Tick
    BY <1>1, <1>2 DEF Tick
<1>3. ASSUME NEW r \in Run, StartRun(r)
      PROVE  /\ clock' = clock
             /\ runs' = [runs EXCEPT ![r].status = "running", ![r].started = clock]
             /\ runs[r].status = "none"
    BY <1>3 DEF StartRun
<1>4. ASSUME NEW r \in Run, NEW s \in {"completed", "failed"}, EndRun(r, s)
      PROVE  /\ clock' = clock
             /\ runs' = [runs EXCEPT ![r].status = s, ![r].completed = clock]
             /\ runs[r].status = "running"
    BY <1>4 DEF EndRun
<1>5. ASSUME NEW p \in Opener,
             \/ Database(p) \/ SubmitFamily(p) \/ SubmitSet(p) \/ CheckPlan(p) \/ SubmitPlan(p)
             \/ InsertFamily(p) \/ InsertSet(p) \/ InsertPlan(p) \/ Audit(p)
      PROVE  UNCHANGED <<clock, runs>>
    BY <1>5 DEF Database, SubmitFamily, SubmitSet, CheckPlan, SubmitPlan, InsertFamily,
                InsertSet, InsertPlan, InsertInto, Audit
<1>6. CASE UNCHANGED vars
    BY <1>1, <1>6 DEF vars, storeVars
<1>7. CASE \E r \in Run : StartRun(r)
    <2>1. PICK r \in Run : StartRun(r)
        BY <1>7
    <2>2. /\ clock' = clock /\ runs[r].status = "none"
          /\ runs' = [runs EXCEPT ![r] = [runs[r] EXCEPT !.status = "running", !.started = clock]]
        BY <1>1, <1>3, <2>1
    <2>3. [runs[r] EXCEPT !.status = "running", !.started = clock] \in RunRecords
        BY <1>1 DEF RunRecords
    <2>4. runs[r].status # "completed"
        BY <2>2
    <2> QED
        BY <1>1, <2>2, <2>3, <2>4, RunChanges
<1>8. CASE \E r \in Run, s \in {"completed", "failed"} : EndRun(r, s)
    <2>1. PICK r \in Run, s \in {"completed", "failed"} : EndRun(r, s)
        BY <1>8
    <2>2. /\ clock' = clock /\ runs[r].status = "running"
          /\ runs' = [runs EXCEPT ![r] = [runs[r] EXCEPT !.status = s, !.completed = clock]]
        BY <1>1, <1>4, <2>1
    <2>3. [runs[r] EXCEPT !.status = s, !.completed = clock] \in RunRecords
        BY <1>1 DEF RunRecords
    <2>4. runs[r].status # "completed"
        BY <2>2
    <2> QED
        BY <1>1, <2>2, <2>3, <2>4, RunChanges
<1> QED
    BY <1>1, <1>2, <1>5, <1>6, <1>7, <1>8 DEF Next

LEMMA LookUpPends ==
    ASSUME NEW p \in Opener, NEW s, NEW k, NEW value, LookUp(p, s, k, value)
    PROVE  \/ client' = [client EXCEPT ![p] = Nothing]
           \/ client' = [client EXCEPT ![p] = Put(s, k, value)]
BY DEF LookUp

(* What a process may have in mind after a step, and why.                   *)
LEMMA ClientStep ==
    ASSUME TypeOK, [Next]_vars
    PROVE  \/ UNCHANGED client
           \/ \E p \in Opener : client' = [client EXCEPT ![p] = Nothing]
           \/ \E p \in Opener, plan \in PlanContents :
                 /\ client' = [client EXCEPT ![p] = Freeze(plan)]
                 /\ plan.family \in DOMAIN families /\ families[plan.family].created <= clock
                 /\ UNCHANGED clock
           \/ \E p \in Opener, v \in Version, f \in FamilyContents :
                 client' = [client EXCEPT ![p] = Put("family", v, f)]
           \/ \E p \in Opener, v \in Version, s \in SetContents :
                 client' = [client EXCEPT ![p] = Put("set", v, s)] /\ ValidReferences(s)
           \/ \E p \in Opener, plan \in PlanRecords :
                 /\ client' = [client EXCEPT ![p] = Put("plan", PlanId, plan)]
                 /\ client[p] = Freeze(plan.declared)
                 /\ plan.frozen = clock
                 /\ clock <= plan.declared.checkpoints[1] - Guard \/ PlanId \in DOMAIN plans
<1>1. ASSUME NEW p \in Opener, SubmitFamily(p)
      PROVE  \/ client' = [client EXCEPT ![p] = Nothing]
             \/ \E v \in Version, f \in FamilyContents :
                   client' = [client EXCEPT ![p] = Put("family", v, f)]
    BY <1>1, LookUpPends DEF SubmitFamily
<1>2. ASSUME NEW p \in Opener, SubmitSet(p)
      PROVE  \/ client' = [client EXCEPT ![p] = Nothing]
             \/ \E v \in Version, s \in SetContents :
                   client' = [client EXCEPT ![p] = Put("set", v, s)] /\ ValidReferences(s)
    BY <1>2, LookUpPends DEF SubmitSet
<1>3. ASSUME NEW p \in Opener, CheckPlan(p)
      PROVE  \E plan \in PlanContents :
                 /\ client' = [client EXCEPT ![p] = Freeze(plan)]
                 /\ plan.family \in DOMAIN families /\ families[plan.family].created <= clock
                 /\ UNCHANGED clock
    BY <1>3 DEF CheckPlan, Freeze
<1>4. ASSUME NEW p \in Opener, SubmitPlan(p)
      PROVE  \/ client' = [client EXCEPT ![p] = Nothing]
             \/ \E plan \in PlanRecords :
                 /\ client' = [client EXCEPT ![p] = Put("plan", PlanId, plan)]
                 /\ client[p] = Freeze(plan.declared)
                 /\ plan.frozen = clock
                 /\ clock <= plan.declared.checkpoints[1] - Guard \/ PlanId \in DOMAIN plans
    <2>1. PICK c \in PlanContents : client[p] = Freeze(c)
        BY <1>4, PendingFreeze DEF SubmitPlan
    <2>2. client[p].value = c
        BY <2>1 DEF Freeze
    <2> DEFINE plan == [frozen |-> clock, declared |-> c]
    <2>3. plan \in PlanRecords /\ plan.frozen = clock /\ plan.declared = c
        BY DEF PlanRecords, TypeOK
    <2>4. \/ client' = [client EXCEPT ![p] = Nothing]
          \/ /\ LookUp(p, "plan", PlanId, plan)
             /\ PlanId \in DOMAIN plans \/ ~(clock > c.checkpoints[1] - Guard)
        BY <1>4, <2>2 DEF SubmitPlan
    <2>5. c.checkpoints[1] - Guard \in Int /\ clock \in Int
        BY StoreAssumption, ScheduleAssumption DEF TypeOK
    <2> QED
        BY <2>1, <2>3, <2>4, <2>5, LookUpPends
<1>5. ASSUME NEW p \in Opener,
             Database(p) \/ InsertFamily(p) \/ InsertSet(p) \/ InsertPlan(p)
      PROVE  client' = [client EXCEPT ![p] = Nothing]
    BY <1>5 DEF Database, InsertFamily, InsertSet, InsertPlan, InsertInto
<1>6. CASE Tick \/ (\E p \in Opener : Audit(p)) \/ UNCHANGED vars
    BY <1>6 DEF Tick, Audit, vars, storeVars
<1>7. CASE \E r \in Run : StartRun(r) \/ \E s \in {"completed", "failed"} : EndRun(r, s)
    BY <1>7 DEF StartRun, EndRun
<1> QED
    BY <1>1, <1>2, <1>3, <1>4, <1>5, <1>6, <1>7 DEF Next

LEMMA SchemaStep ==
    ASSUME TypeOK, [Next]_vars
    PROVE  SchemaTypeOK'
<1>1. \/ UNCHANGED schemaVars
      \/ \E p \in Opener : ReadVersion(p) \/ Migrate(p) \/ Leave(p)
    <2>1. ASSUME NEW p \in Opener,
                 \/ SubmitFamily(p) \/ SubmitSet(p) \/ CheckPlan(p) \/ SubmitPlan(p)
                 \/ InsertFamily(p) \/ InsertSet(p) \/ InsertPlan(p) \/ Audit(p)
          PROVE  UNCHANGED schemaVars
        BY <2>1 DEF SubmitFamily, SubmitSet, CheckPlan, SubmitPlan, InsertFamily,
                    InsertSet, InsertPlan, InsertInto, Audit
    <2>2. ASSUME NEW p \in Opener, Database(p)
          PROVE  ReadVersion(p) \/ Migrate(p) \/ Leave(p)
        BY <2>2 DEF Database
    <2>3. CASE \E r \in Run : StartRun(r) \/ \E s \in {"completed", "failed"} : EndRun(r, s)
        BY <2>3 DEF StartRun, EndRun
    <2>4. CASE Tick \/ UNCHANGED vars
        BY <2>4 DEF Tick, vars
    <2> QED
        BY <2>1, <2>2, <2>3, <2>4 DEF Next
<1>2. ASSUME UNCHANGED schemaVars
      PROVE  SchemaTypeOK'
    BY <1>2 DEF TypeOK, SchemaTypeOK, schemaVars
<1> QED
    BY <1>1, <1>2, StepTypes DEF TypeOK

LEMMA EntriesStep ==
    ASSUME TypeOK, [Next]_vars
    PROVE  /\ DOMAIN families' \subseteq Version /\ families' \in [DOMAIN families' -> FamilyContents]
           /\ DOMAIN sets' \subseteq Version /\ sets' \in [DOMAIN sets' -> SetContents]
           /\ DOMAIN plans' \subseteq {PlanId} /\ plans' \in [DOMAIN plans' -> PlanRecords]
           /\ Grows(families, families') /\ Grows(sets, sets') /\ Grows(plans, plans')
<1>1. /\ DOMAIN families \subseteq Version /\ families \in [DOMAIN families -> FamilyContents]
      /\ DOMAIN sets \subseteq Version /\ sets \in [DOMAIN sets -> SetContents]
      /\ DOMAIN plans \subseteq {PlanId} /\ plans \in [DOMAIN plans -> PlanRecords]
    BY DEF TypeOK, PlanRecords
<1>2. \A entries : Grows(entries, entries)
    BY DEF Grows
<1>3. CASE FamilyWritten
    <2>1. PICK v \in Version, f \in FamilyContents :
             v \notin DOMAIN families /\ families' = With(families, v, f)
        BY <1>3 DEF FamilyWritten
    <2>2. UNCHANGED <<sets, plans>>
        BY <1>3 DEF FamilyWritten
    <2>3. DOMAIN families' \subseteq Version /\ families' \in [DOMAIN families' -> FamilyContents]
        BY <1>1, <2>1, WithTypes
    <2> QED
        BY <1>1, <1>2, <2>1, <2>2, <2>3, WithGrows
<1>4. CASE SetWritten
    <2>1. PICK v \in Version, s \in SetContents :
             v \notin DOMAIN sets /\ sets' = With(sets, v, s)
        BY <1>4 DEF SetWritten
    <2>2. UNCHANGED <<families, plans>>
        BY <1>4 DEF SetWritten
    <2>3. DOMAIN sets' \subseteq Version /\ sets' \in [DOMAIN sets' -> SetContents]
        BY <1>1, <2>1, WithTypes
    <2> QED
        BY <1>1, <1>2, <2>1, <2>2, <2>3, WithGrows
<1>5. CASE PlanWritten
    <2>1. PICK plan \in PlanRecords :
             PlanId \notin DOMAIN plans /\ plans' = With(plans, PlanId, plan)
        BY <1>5 DEF PlanWritten
    <2>2. UNCHANGED <<families, sets>>
        BY <1>5 DEF PlanWritten
    <2>3. DOMAIN plans' \subseteq {PlanId} /\ plans' \in [DOMAIN plans' -> PlanRecords]
        BY <1>1, <2>1, WithTypes
    <2> QED
        BY <1>1, <1>2, <2>1, <2>2, <2>3, WithGrows
<1>6. CASE UNCHANGED <<families, sets, plans>>
    BY <1>1, <1>2, <1>6
<1> QED
    BY <1>3, <1>4, <1>5, <1>6, StoresStep

LEMMA PendingTypes ==
    /\ Nothing \in Pending
    /\ \A plan \in PlanContents : Freeze(plan) \in Pending
    /\ \A v \in Version, f \in FamilyContents : Put("family", v, f) \in Pending
    /\ \A v \in Version, s \in SetContents : Put("set", v, s) \in Pending
    /\ \A plan \in PlanRecords : Put("plan", PlanId, plan) \in Pending
BY DEF Pending, Freeze, PlanRecords

LEMMA TypesStep ==
    ASSUME TypeOK, [Next]_vars
    PROVE  TypeOK'
<1>1. client' \in [Opener -> Pending]
    <2>1. client \in [Opener -> Pending]
        BY DEF TypeOK
    <2>2. UNCHANGED client \/ \E p \in Opener, put \in Pending : client' = [client EXCEPT ![p] = put]
        BY ClientStep, PendingTypes
    <2> QED
        BY <2>1, <2>2
<1> QED
    BY <1>1, SchemaStep, EntriesStep, RunsStep DEF TypeOK, PlanRecords, RunRecords

LEMMA InitTypes ==
    ASSUME Init
    PROVE  TypeOK
<1>1. SchemaTypeOK
    BY VersionAssumption DEF Init, SchemaInit, SchemaTypeOK, SchemaVersion, Closed
<1>2. MaxTime \in Nat
    BY StoreAssumption
<1> QED
    BY <1>1, <1>2, PendingTypes DEF Init, TypeOK

(* The types of the entries, of the runs and of what each process is about  *)
(* to write.                                                                *)
THEOREM StoreTypesHold == Spec => []TypeOK
<1>1. TypeOK /\ [Next]_vars => TypeOK'
    BY TypesStep
<1> QED
    BY <1>1, InitTypes, PTL DEF Spec

-----------------------------------------------------------------------------
(* The stores as one.                                                       *)
Filed(store, entries) == {<< <<store, k>>, entries[k]>> : k \in DOMAIN entries}

LEMMA EntriesAre ==
    /\ Entries = Filed("family", families) \cup Filed("set", sets) \cup Filed("plan", plans)
    /\ Entries' = Filed("family", families') \cup Filed("set", sets') \cup Filed("plan", plans')
<1>1. /\ Stored("family") = families /\ Stored("set") = sets /\ Stored("plan") = plans
      /\ Stored("family")' = families' /\ Stored("set")' = sets' /\ Stored("plan")' = plans'
    BY DEF Stored
<1>2. Entries = UNION {Filed(store, Stored(store)) : store \in Stores}
    BY DEF Entries, Filed, Stores
<1>3. Entries' = UNION {Filed(store, Stored(store)') : store \in Stores}
    BY DEF Entries, Filed, Stores
<1> QED
    BY <1>1, <1>2, <1>3 DEF Stores

LEMMA FiledGrow ==
    ASSUME NEW store, NEW entries, NEW key, NEW value, key \notin DOMAIN entries
    PROVE  Filed(store, With(entries, key, value))
             = Filed(store, entries) \cup {<< <<store, key>>, value>>}
BY DEF Filed, With

LEMMA KeysAre ==
    ASSUME NEW e \in Entries
    PROVE  \/ \E k \in DOMAIN families : e[1] = <<"family", k>>
           \/ \E k \in DOMAIN sets : e[1] = <<"set", k>>
           \/ \E k \in DOMAIN plans : e[1] = <<"plan", k>>
BY EntriesAre DEF Filed

LEMMA SameSize == \A S : Abstract!Cardinality(S) = Cardinality(S)
BY DEF Abstract!Cardinality, Cardinality

LEMMA OneMoreIsAWrite ==
    ASSUME NEW key \in {"family", "set"} \X Version \cup {<<"plan", PlanId>>},
           NEW value \in FamilyContents \cup SetContents \cup PlanRecords,
           Entries' = Entries \cup {<<key, value>>},
           \A e \in Entries : e[1] # key
    PROVE  Abstract!Write
<1>1. <<key, value>> \notin Entries
    OBVIOUS
<1>2. Entries' \ Entries = {<<key, value>>}
    BY <1>1
<1>3. Cardinality(Entries' \ Entries) = 1
    BY <1>2, FS_Singleton
<1>4. \A e \in {<<key, value>>} : e[1] = key /\ e[2] = value
    OBVIOUS
<1>5. Abstract!KeysOf(Entries' \ Entries) = {key}
    BY <1>2, <1>4 DEF Abstract!KeysOf
<1>6. key \notin Abstract!KeysOf(Entries)
    BY DEF Abstract!KeysOf
<1> QED
    BY <1>2, <1>3, <1>4, <1>5, <1>6, SameSize DEF Abstract!Write, PlanRecords

LEMMA StepWritesOnce ==
    ASSUME TypeOK, [Next]_vars
    PROVE  Abstract!Write \/ UNCHANGED Entries
<1>1. CASE FamilyWritten
    <2>1. PICK v \in Version, f \in FamilyContents :
             /\ v \notin DOMAIN families
             /\ families' = With(families, v, f) /\ UNCHANGED <<sets, plans>>
        BY <1>1 DEF FamilyWritten
    <2>2. Entries' = Entries \cup {<< <<"family", v>>, f>>}
        BY <2>1, EntriesAre, FiledGrow
    <2>3. \A e \in Entries : e[1] # <<"family", v>>
        BY <2>1, KeysAre
    <2> QED
        BY <2>2, <2>3, OneMoreIsAWrite
<1>2. CASE SetWritten
    <2>1. PICK v \in Version, s \in SetContents :
             /\ v \notin DOMAIN sets
             /\ sets' = With(sets, v, s) /\ UNCHANGED <<families, plans>>
        BY <1>2 DEF SetWritten
    <2>2. Entries' = Entries \cup {<< <<"set", v>>, s>>}
        BY <2>1, EntriesAre, FiledGrow
    <2>3. \A e \in Entries : e[1] # <<"set", v>>
        BY <2>1, KeysAre
    <2> QED
        BY <2>2, <2>3, OneMoreIsAWrite
<1>3. CASE PlanWritten
    <2>1. PICK plan \in PlanRecords :
             /\ PlanId \notin DOMAIN plans
             /\ plans' = With(plans, PlanId, plan) /\ UNCHANGED <<families, sets>>
        BY <1>3 DEF PlanWritten
    <2>2. Entries' = Entries \cup {<< <<"plan", PlanId>>, plan>>}
        BY <2>1, EntriesAre, FiledGrow
    <2>3. \A e \in Entries : e[1] # <<"plan", PlanId>>
        BY <2>1, KeysAre
    <2> QED
        BY <2>2, <2>3, OneMoreIsAWrite
<1>4. CASE UNCHANGED <<families, sets, plans>>
    BY <1>4, EntriesAre
<1> QED
    BY <1>1, <1>2, <1>3, <1>4, StoresStep

(* The three stores implement one write-once store: whatever the processes  *)
(* do between their lookups and their insertions, a key is written once.    *)
THEOREM StoresWriteOnce == Spec => EntriesAreWrittenOnce
<1>1. Init => Abstract!Init
    BY EntriesAre DEF Init, Filed, Abstract!Init
<1>2. TypeOK /\ [Next]_vars => [Abstract!Write]_Entries
    BY StepWritesOnce
<1> QED
    BY <1>1, <1>2, StoreTypesHold, PTL DEF Spec, EntriesAreWrittenOnce, Abstract!Spec

-----------------------------------------------------------------------------
(* The references of a set stay valid: its family stays what it is and its  *)
(* runs are completed, so that their times stay what they are.              *)

LEMMA ReferencesStay ==
    ASSUME TypeOK, [Next]_vars, NEW set \in SetContents, ValidReferences(set)
    PROVE  ValidReferences(set)'
<1>1. \A i \in DOMAIN set.runs : set.runs[i] \in Run
    <2>1. set.runs \in RunLists
        BY DEF SetContents
    <2> QED
        BY <2>1 DEF RunLists
<1>2. set.family \in DOMAIN families' /\ families'[set.family] = families[set.family]
    BY EntriesStep DEF ValidReferences, Grows
<1>3. \A i \in DOMAIN set.runs : runs'[set.runs[i]] = runs[set.runs[i]]
    BY <1>1, RunsStep DEF ValidReferences
<1>4. Starts(set)' = Starts(set) /\ Completions(set)' = Completions(set)
    BY <1>3 DEF Starts, Completions
<1> QED
    BY <1>2, <1>3, <1>4 DEF ValidReferences

(* What readability rests on: a set that is about to be written has been    *)
(* validated, and what was returned is an entry of one of the stores.       *)
Validated ==
    /\ \A p \in Opener, v \in Version, set \in SetContents :
          client[p] = Put("set", v, set) => ValidReferences(set)
    /\ \A e \in returned : e[1] \in Stores

LEMMA PutsDiffer ==
    ASSUME NEW v \in Version, NEW set \in SetContents
    PROVE  /\ Put("set", v, set) # Nothing
           /\ \A plan : Put("set", v, set) # Freeze(plan)
           /\ \A w, f : Put("set", v, set) # Put("family", w, f)
           /\ \A w, plan : Put("set", v, set) # Put("plan", w, plan)
           /\ \A w, s : Put("set", v, set) = Put("set", w, s) => set = s
BY DEF Put, Nothing, Freeze

LEMMA ValidatedStep ==
    ASSUME TypeOK, Validated, [Next]_vars
    PROVE  Validated'
<1>1. ASSUME NEW p \in Opener, NEW v \in Version, NEW set \in SetContents,
             client'[p] = Put("set", v, set)
      PROVE  ValidReferences(set)'
    <2>1. client[p] = Put("set", v, set) \/ ValidReferences(set)
        <3>1. client \in [Opener -> Pending]
            BY DEF TypeOK
        <3> QED
            BY <1>1, <3>1, ClientStep, PutsDiffer
    <2>2. ValidReferences(set)
        BY <2>1 DEF Validated
    <2> QED
        BY <2>2, ReferencesStay
<1>2. \A e \in returned' : e[1] \in Stores
    BY StoresStep DEF Validated, FamilyWritten, SetWritten, PlanWritten, Confirmed, Stores
<1> QED
    BY <1>1, <1>2 DEF Validated

(* An entry stays where it is.                                              *)
LEMMA StoredStays ==
    ASSUME TypeOK, [Next]_vars, NEW s \in Stores, NEW k \in DOMAIN Stored(s)
    PROVE  k \in DOMAIN Stored(s)' /\ Stored(s)'[k] = Stored(s)[k]
BY EntriesStep DEF Stored, Stores, Grows

LEMMA ReadableStep ==
    ASSUME TypeOK, Validated, EntriesStayReadable, [Next]_vars
    PROVE  EntriesStayReadable'
<1>1. ASSUME NEW e \in returned
      PROVE  e[2] \in DOMAIN Stored(e[1])' /\ Stored(e[1])'[e[2]] = e[3]
    BY StoredStays DEF Validated, EntriesStayReadable
<1>2. ASSUME NEW e \in returned', e \notin returned
      PROVE  e[2] \in DOMAIN Stored(e[1])' /\ Stored(e[1])'[e[2]] = e[3]
    <2>1. CASE FamilyWritten
        <3>1. PICK v \in Version, f \in FamilyContents :
                 families' = With(families, v, f) /\ e = <<"family", v, f>>
            BY <1>2, <2>1 DEF FamilyWritten
        <3> QED
            BY <3>1 DEF Stored, With
    <2>2. CASE SetWritten
        <3>1. PICK v \in Version, s \in SetContents :
                 sets' = With(sets, v, s) /\ e = <<"set", v, s>>
            BY <1>2, <2>2 DEF SetWritten
        <3> QED
            BY <3>1 DEF Stored, With
    <2>3. CASE PlanWritten
        <3>1. PICK plan \in PlanRecords :
                 plans' = With(plans, PlanId, plan) /\ e = <<"plan", PlanId, plan>>
            BY <1>2, <2>3 DEF PlanWritten
        <3> QED
            BY <3>1 DEF Stored, With
    <2>4. CASE Confirmed
        <3>1. PICK s \in Stores : \E k \in DOMAIN Stored(s) : e = <<s, k, Stored(s)[k]>>
            BY <1>2, <2>4 DEF Confirmed
        <3> QED
            BY <3>1, StoredStays
    <2> QED
        BY <1>2, <2>1, <2>2, <2>3, <2>4, StoresStep
<1>3. ASSUME NEW v \in DOMAIN sets', NEW set \in SetContents, set = sets'[v]
      PROVE  ValidReferences(set)'
    <2>1. ValidReferences(set)
        <3>1. CASE v \in DOMAIN sets
            BY <1>3, <3>1, EntriesStep DEF Grows, EntriesStayReadable
        <3>2. CASE v \notin DOMAIN sets
            <4>1. SetWritten
                BY <3>2, StoresStep DEF FamilyWritten, PlanWritten
            <4>2. PICK p \in Opener, w \in Version, s \in SetContents :
                     client[p] = Put("set", w, s) /\ sets' = With(sets, w, s)
                BY <4>1 DEF SetWritten
            <4>3. v = w /\ set = s
                BY <1>3, <3>2, <4>2 DEF With
            <4> QED
                BY <4>2, <4>3 DEF Validated
        <3> QED
            BY <3>1, <3>2
    <2> QED
        BY <2>1, ReferencesStay
<1>4. (\A v \in DOMAIN sets : ValidReferences(sets[v]))'
    <2> SUFFICES ASSUME NEW v \in DOMAIN sets'
                 PROVE  ValidReferences(sets[v])'
        OBVIOUS
    <2>1. PICK set \in SetContents : set = sets'[v]
        BY EntriesStep
    <2>2. ValidReferences(set)'
        BY <1>3, <2>1
    <2> QED
        BY <2>1, <2>2 DEF ValidReferences, Starts, Completions
<1> QED
    BY <1>1, <1>2, <1>4 DEF EntriesStayReadable

(* What a caller was told is persisted is found unchanged for ever, and a   *)
(* set that is stored passes the validation of every later reading.         *)
THEOREM EntriesReadable == Spec => []EntriesStayReadable
<1>1. Init => Validated /\ EntriesStayReadable
    BY DEF Init, Validated, EntriesStayReadable, Put, Nothing
<1>2. TypeOK /\ Validated /\ [Next]_vars => Validated'
    BY ValidatedStep
<1>3. TypeOK /\ Validated /\ EntriesStayReadable /\ [Next]_vars => EntriesStayReadable'
    BY ReadableStep
<1> QED
    BY <1>1, <1>2, <1>3, StoreTypesHold, PTL DEF Spec

-----------------------------------------------------------------------------
(* A plan is timely when it was frozen before its checkpoints and after its *)
(* family was created; a report is grounded when its runs came after the    *)
(* stored plan.                                                             *)
Timely(plan) ==
    /\ plan.frozen <= plan.declared.checkpoints[1] - Guard
    /\ plan.declared.family \in DOMAIN families
    /\ families[plan.declared.family].created <= plan.frozen
Checked(plan) ==
    plan.family \in DOMAIN families /\ families[plan.family].created <= clock
Grounded(report) ==
    /\ PlanId \in DOMAIN plans /\ report.plan = plans[PlanId]
    /\ \A c \in DOMAIN report.manifest : \A i \in DOMAIN report.manifest[c] :
          LET r == report.manifest[c][i] IN
          r \in Run /\ runs[r].status = "completed" /\ runs[r].started >= report.plan.frozen

InTime ==
    /\ \A p \in Opener, plan \in PlanContents : client[p] = Freeze(plan) => Checked(plan)
    /\ \A p \in Opener, plan \in PlanRecords :
          client[p] = Put("plan", PlanId, plan) => Timely(plan) \/ PlanId \in DOMAIN plans
    /\ \A k \in DOMAIN plans : Timely(plans[k])
Evidenced == \A report \in reports : Grounded(report)

LEMMA ChecksStay ==
    ASSUME TypeOK, [Next]_vars
    PROVE  /\ \A plan \in PlanContents : Checked(plan) => Checked(plan)'
           /\ \A plan \in PlanRecords : Timely(plan) => Timely(plan)'
<1>1. /\ clock \in Int /\ clock' \in Int /\ clock <= clock'
      /\ \A k \in DOMAIN families : families[k].created \in Int
    BY RunsStep, StoreAssumption DEF TypeOK
<1>2. \A k \in DOMAIN families : k \in DOMAIN families' /\ families'[k] = families[k]
    BY EntriesStep DEF Grows
<1>3. \A plan : Timely(plan) => Timely(plan)'
    BY <1>2 DEF Timely
<1>4. ASSUME NEW plan, Checked(plan)
      PROVE  Checked(plan)'
    <2>1. families[plan.family].created <= clock'
        BY <1>1, <1>4 DEF Checked
    <2> QED
        BY <1>2, <1>4, <2>1 DEF Checked
<1> QED
    BY <1>3, <1>4

LEMMA IntentsDiffer ==
    /\ \A plan : Freeze(plan) # Nothing
    /\ \A plan, q : Freeze(plan) = Freeze(q) => plan = q
    /\ \A plan, s, k, v : Freeze(plan) # Put(s, k, v)
    /\ \A k, v : Put("plan", k, v) # Nothing
    /\ \A k, v, j, w : Put("plan", k, v) = Put("plan", j, w) => v = w
    /\ \A k, v, j, w : Put("plan", k, v) # Put("family", j, w) /\ Put("plan", k, v) # Put("set", j, w)
BY DEF Freeze, Nothing, Put

LEMMA InTimeStep ==
    ASSUME TypeOK, InTime, [Next]_vars
    PROVE  InTime'
<1>0. client \in [Opener -> Pending]
    BY DEF TypeOK
<1>1. ASSUME NEW p \in Opener, NEW plan \in PlanContents, client'[p] = Freeze(plan)
      PROVE  Checked(plan)'
    <2>1. client[p] = Freeze(plan) \/ Checked(plan)
        BY <1>0, <1>1, ClientStep, IntentsDiffer DEF Checked
    <2> QED
        BY <2>1, ChecksStay DEF InTime
<1>2. ASSUME NEW p \in Opener, NEW plan \in PlanRecords, client'[p] = Put("plan", PlanId, plan)
      PROVE  Timely(plan)' \/ PlanId \in DOMAIN plans'
    <2>1. \/ client[p] = Put("plan", PlanId, plan)
          \/ /\ client[p] = Freeze(plan.declared) /\ plan.frozen = clock
             /\ clock <= plan.declared.checkpoints[1] - Guard \/ PlanId \in DOMAIN plans
        BY <1>0, <1>2, ClientStep, IntentsDiffer
    <2>2. Timely(plan) \/ PlanId \in DOMAIN plans
        <3>1. plan.declared \in PlanContents
            BY DEF PlanRecords
        <3> QED
            BY <2>1, <3>1 DEF InTime, Timely, Checked
    <2> QED
        BY <2>2, ChecksStay, EntriesStep DEF Grows
<1>3. (\A k \in DOMAIN plans : Timely(plans[k]))'
    <2> SUFFICES ASSUME NEW k \in DOMAIN plans'
                 PROVE  Timely(plans[k])'
        OBVIOUS
    <2>1. PICK plan \in PlanRecords : plan = plans'[k]
        BY EntriesStep
    <2>2. Timely(plan)
        <3>1. CASE k \in DOMAIN plans
            BY <2>1, <3>1, EntriesStep DEF Grows, InTime
        <3>2. CASE k \notin DOMAIN plans
            <4>1. PlanWritten
                BY <3>2, StoresStep DEF FamilyWritten, SetWritten
            <4>2. PICK p \in Opener, q \in PlanRecords :
                     /\ client[p] = Put("plan", PlanId, q) /\ PlanId \notin DOMAIN plans
                     /\ plans' = With(plans, PlanId, q)
                BY <4>1 DEF PlanWritten
            <4>3. plan = q
                BY <2>1, <3>2, <4>2 DEF With
            <4> QED
                BY <4>2, <4>3 DEF InTime
        <3> QED
            BY <3>1, <3>2
    <2>3. Timely(plan)'
        BY <2>2, ChecksStay
    <2> QED
        BY <2>1, <2>3 DEF Timely
<1> QED
    BY <1>1, <1>2, <1>3 DEF InTime

LEMMA GroundsStay ==
    ASSUME TypeOK, [Next]_vars, NEW report, Grounded(report)
    PROVE  Grounded(report)'
<1>1. PlanId \in DOMAIN plans' /\ report.plan = plans'[PlanId]
    BY EntriesStep DEF Grows, Grounded
<1>2. \A r \in Run : runs[r].status = "completed" => runs'[r] = runs[r]
    BY RunsStep
<1> QED
    BY <1>1, <1>2 DEF Grounded

LEMMA AuditGrounds ==
    ASSUME TypeOK, NEW p \in Opener, Audit(p)
    PROVE  \E report : reports' = reports \cup {report} /\ Grounded(report)
<1>1. PICK plan \in PlanRecords : PlanId \in DOMAIN plans /\ plan = plans[PlanId]
    BY DEF Audit, TypeOK, PlanRecords
<1>2. PICK manifest \in Manifests :
         /\ DOMAIN manifest = DOMAIN plan.declared.checkpoints
         /\ \A c \in DOMAIN manifest :
               SearchCheckpoint(manifest[c], families[plan.declared.family],
                                plan.declared.checkpoints[c])
         /\ reports' = reports \cup {[plan |-> plan, manifest |-> manifest]}
    BY <1>1 DEF Audit, Declared
<1>3. plan.frozen <= plan.declared.checkpoints[1] - Guard
    BY <1>1 DEF Audit, PredeclaredPlan, Declared
<1>4. ASSUME NEW c \in DOMAIN manifest, NEW i \in DOMAIN manifest[c]
      PROVE  /\ manifest[c][i] \in Run /\ runs[manifest[c][i]].status = "completed"
             /\ runs[manifest[c][i]].started >= plan.frozen
    <2>1. manifest[c] \in RunLists
        BY DEF Manifests
    <2>2. PICK r \in Run : r = manifest[c][i]
        BY <2>1 DEF RunLists
    <2>3. /\ runs[r].status = "completed"
          /\ plan.declared.checkpoints[c] - runs[r].started <= MaxAge
        BY <1>2, <2>2 DEF SearchCheckpoint, FreshFor
    <2>4. /\ plan.declared.checkpoints[c] \in Nat /\ plan.declared.checkpoints[1] \in Nat
          /\ plan.declared.checkpoints[1] <= plan.declared.checkpoints[c]
        BY <1>2, StoreAssumption, ScheduleAssumption DEF PlanRecords
    <2>5. /\ runs[r].started \in Int /\ plan.frozen \in Int
          /\ MaxAge \in Int /\ Guard \in Int /\ MaxAge <= Guard
        BY StoreAssumption, ScheduleAssumption DEF TypeOK, PlanRecords
    <2> QED
        BY <1>3, <2>2, <2>3, <2>4, <2>5
<1> DEFINE report == [plan |-> plan, manifest |-> manifest]
<1>5. report.plan = plan /\ report.manifest = manifest
    OBVIOUS
<1>6. Grounded(report)
    <2> HIDE DEF report
    <2> QED
        BY <1>1, <1>4, <1>5 DEF Grounded
<1> QED
    BY <1>2, <1>6

LEMMA ReportsStep ==
    ASSUME TypeOK, [Next]_vars
    PROVE  UNCHANGED reports \/ \E p \in Opener : Audit(p)
<1>1. ASSUME NEW p \in Opener,
             \/ Database(p) \/ SubmitFamily(p) \/ SubmitSet(p) \/ CheckPlan(p) \/ SubmitPlan(p)
             \/ InsertFamily(p) \/ InsertSet(p) \/ InsertPlan(p)
      PROVE  UNCHANGED reports
    BY <1>1 DEF Database, SubmitFamily, SubmitSet, CheckPlan, SubmitPlan, InsertFamily,
                InsertSet, InsertPlan, InsertInto
<1>2. CASE \E r \in Run : StartRun(r) \/ \E s \in {"completed", "failed"} : EndRun(r, s)
    BY <1>2 DEF StartRun, EndRun
<1>3. CASE Tick \/ UNCHANGED vars
    BY <1>3 DEF Tick, vars, storeVars
<1> QED
    BY <1>1, <1>2, <1>3 DEF Next

LEMMA EvidencedStep ==
    ASSUME TypeOK, Evidenced, [Next]_vars
    PROVE  Evidenced'
<1>1. ASSUME NEW report \in reports'
      PROVE  Grounded(report)
    BY ReportsStep, AuditGrounds DEF Evidenced
<1>2. ASSUME NEW report \in reports'
      PROVE  Grounded(report)'
    BY <1>1, GroundsStay
<1> QED
    BY <1>2 DEF Evidenced

(* No plan is dated later than its first checkpoint allows or earlier than  *)
(* its family, however long a process waits between the freezer's look at   *)
(* the clock and the store's; and no report counts a run that had started   *)
(* when the plan was frozen, because MaxAge is no longer than Guard.        *)
THEOREM PlansComeFirst == Spec => []PlansPrecedeEvidence
<1>1. Init => InTime /\ Evidenced
    BY IntentsDiffer DEF Init, InTime, Evidenced
<1>2. TypeOK /\ InTime /\ [Next]_vars => InTime'
    BY InTimeStep
<1>3. TypeOK /\ Evidenced /\ [Next]_vars => Evidenced'
    BY EvidencedStep
<1>4. InTime /\ Evidenced => PlansPrecedeEvidence
    BY DEF InTime, Evidenced, Timely, Grounded, PlansPrecedeEvidence, Declared
<1> QED
    BY <1>1, <1>2, <1>3, <1>4, StoreTypesHold, PTL DEF Spec

---------------------------------------------------------------------------
(***************************************************************************)
(* The experiments: what the policies of feed depth, session profiles and  *)
(* collection cadence say of the samples they are applied to.              *)
(***************************************************************************)

(* Least and greatest elements.                                             *)

LEMMA LeastNaturalExists ==
    ASSUME NEW S \in SUBSET Nat, S # {}
    PROVE  \E x \in S : \A y \in S : x <= y
<1>1. PICK x \in S : \A y \in S : ~(<<y, x>> \in OpToRel(<, Nat))
    BY WFMin, NatLessThanWellFounded, Zenon
<1>2. \A y \in S : ~(y < x)
    BY <1>1, Zenon DEF OpToRel
<1>3. \A y \in S : x <= y
    BY <1>2
<1> QED
    BY <1>3

(* The greatest of finitely many numbers has the fewest above it.           *)
LEMMA MaxExists ==
    ASSUME NEW S \in SUBSET Int, IsFiniteSet(S), S # {}
    PROVE  Max(S) \in S /\ \A y \in S : Max(S) >= y
<1> DEFINE Higher(x) == {y \in S : y > x}
           Counts == {Cardinality(Higher(x)) : x \in S}
<1>1. \A x \in S : IsFiniteSet(Higher(x)) /\ Cardinality(Higher(x)) \in Nat
    BY FS_Subset, FS_CardinalityType
<1>2. PICK c \in Counts : \A d \in Counts : c <= d
    <2>1. Counts \in SUBSET Nat /\ Counts # {}
        BY <1>1
    <2> QED
        BY <2>1, LeastNaturalExists
<1>3. PICK x \in S : c = Cardinality(Higher(x))
    BY <1>2
<1>4. \A y \in S : x >= y
    <2> SUFFICES ASSUME NEW y \in S, y > x PROVE FALSE
        OBVIOUS
    <2>1. Higher(y) \in SUBSET Higher(x) /\ y \in Higher(x) /\ y \notin Higher(y)
        <3>1. \A z \in S : z \in Int
            OBVIOUS
        <3>2. \A z \in S : z > y => z > x
            BY <3>1
        <3>3. ~(y > y)
            BY <3>1
        <3>4. Higher(y) \subseteq Higher(x)
            BY <3>2
        <3> QED
            BY <3>3, <3>4
    <2>2. Cardinality(Higher(y)) < Cardinality(Higher(x))
        <3>1. Cardinality(Higher(y)) <= Cardinality(Higher(x))
              /\ (Cardinality(Higher(x)) = Cardinality(Higher(y)) => Higher(x) = Higher(y))
            BY <1>1, <2>1, FS_Subset
        <3> QED
            BY <1>1, <2>1, <3>1
    <2>3. Cardinality(Higher(x)) <= Cardinality(Higher(y))
        BY <1>2, <1>3
    <2> QED
        BY <1>1, <2>2, <2>3
<1> QED
    BY <1>4 DEF Max

LEMMA MinExists ==
    ASSUME NEW S \in SUBSET Nat, S # {}
    PROVE  Min(S) \in S /\ \A y \in S : Min(S) <= y
BY LeastNaturalExists DEF Min

---------------------------------------------------------------------------
(* The latest observation of a history.                                     *)

Dated(history) ==
    /\ IsFiniteSet(history)
    /\ \A o \in history : o.at \in Int /\ o.retrieved \in Int /\ o.id \in Int
    /\ \A o, p \in history :
          o.at = p.at /\ o.retrieved = p.retrieved /\ o.id = p.id => o = p

LEMMA DatedSubset ==
    ASSUME NEW H, Dated(H), NEW S \in SUBSET H
    PROVE  Dated(S)
BY FS_Subset DEF Dated

LEMMA LatestExists ==
    ASSUME NEW S, Dated(S), S # {}
    PROVE  Latest(S) \in S /\ \A o \in S : o = Latest(S) \/ Later(Latest(S), o)
<1> DEFINE After(o) == {p \in S : Later(p, o)}
           Counts == {Cardinality(After(o)) : o \in S}
<1>1. \A o \in S : IsFiniteSet(After(o)) /\ Cardinality(After(o)) \in Nat
    BY FS_Subset, FS_CardinalityType DEF Dated
<1>2. PICK c \in Counts : \A d \in Counts : c <= d
    <2>1. Counts \in SUBSET Nat /\ Counts # {}
        BY <1>1
    <2> QED
        BY <2>1, LeastNaturalExists
<1>3. PICK o \in S : c = Cardinality(After(o))
    BY <1>2
<1>4. ASSUME NEW p \in S, Later(p, o) PROVE FALSE
    <2>1. After(p) \in SUBSET After(o) /\ p \in After(o) /\ p \notin After(p)
        BY <1>4 DEF Dated, Later
    <2>2. Cardinality(After(p)) <= Cardinality(After(o))
          /\ (Cardinality(After(o)) = Cardinality(After(p)) => After(o) = After(p))
        BY <1>1, <2>1, FS_Subset
    <2>3. Cardinality(After(o)) <= Cardinality(After(p))
        BY <1>2, <1>3
    <2>4. Cardinality(After(o)) = Cardinality(After(p))
        BY <1>1, <2>2, <2>3
    <2> QED
        BY <2>1, <2>2, <2>4
<1>5. \A p \in S \ {o} : Later(o, p)
    BY <1>4 DEF Dated, Later
<1>6. Latest(S) \in S /\ \A p \in S \ {Latest(S)} : Later(Latest(S), p)
    BY <1>5, Zenon DEF Latest
<1> QED
    BY <1>6

---------------------------------------------------------------------------
(* Medians and quartiles.                                                   *)

Sample(values) ==
    /\ IsFiniteSet(DOMAIN values) /\ DOMAIN values # {}
    /\ \A m \in DOMAIN values : values[m] \in Int

Under(values, v) == {m \in DOMAIN values : values[m] < v}
UpTo(values, v) == {m \in DOMAIN values : values[m] <= v}
Over(values, v) == {m \in DOMAIN values : values[m] > v}
AtLeast(values, v) == {m \in DOMAIN values : values[m] >= v}

(* The members on both sides of a value are all members.                    *)
LEMMA SidesAdd ==
    ASSUME NEW f, Sample(f), NEW v \in Int
    PROVE  /\ Size(f) \in Nat \ {0}
           /\ Cardinality(Under(f, v)) \in Nat /\ Cardinality(UpTo(f, v)) \in Nat
           /\ Cardinality(Over(f, v)) = Size(f) - Cardinality(UpTo(f, v))
           /\ Cardinality(AtLeast(f, v)) = Size(f) - Cardinality(Under(f, v))
<1> DEFINE D == DOMAIN f
<1>1. IsFiniteSet(D) /\ D # {}
    BY DEF Sample
<1>2. Size(f) \in Nat \ {0}
    BY <1>1, FS_CardinalityType, FS_EmptySet DEF Size
<1>3. Under(f, v) \in SUBSET D /\ UpTo(f, v) \in SUBSET D
    BY DEF Under, UpTo
<1>4. Cardinality(Under(f, v)) \in Nat /\ Cardinality(UpTo(f, v)) \in Nat
    BY <1>1, <1>3, FS_Subset, FS_CardinalityType
<1>5. D \cap UpTo(f, v) = UpTo(f, v) /\ D \cap Under(f, v) = Under(f, v)
    BY <1>3
<1>6. Over(f, v) = D \ UpTo(f, v) /\ AtLeast(f, v) = D \ Under(f, v)
    BY DEF Over, UpTo, AtLeast, Under, Sample
<1> QED
    BY <1>1, <1>2, <1>4, <1>5, <1>6, FS_Difference DEF Size

LEMMA SidesGrow ==
    ASSUME NEW f, Sample(f), NEW u \in Int, NEW v \in Int, u <= v
    PROVE  /\ Cardinality(Under(f, u)) <= Cardinality(Under(f, v))
           /\ Cardinality(UpTo(f, u)) <= Cardinality(UpTo(f, v))
<1>1. Under(f, u) \in SUBSET Under(f, v) /\ UpTo(f, u) \in SUBSET UpTo(f, v)
    BY DEF Under, UpTo, Sample
<1>2. Under(f, v) \in SUBSET DOMAIN f /\ UpTo(f, v) \in SUBSET DOMAIN f
    BY DEF Under, UpTo
<1>3. IsFiniteSet(Under(f, v)) /\ IsFiniteSet(UpTo(f, v))
    BY <1>2, FS_Subset DEF Sample
<1> QED
    BY <1>1, <1>3, FS_Subset

(* The value at place k: fewer than k members are under it, k are up to it. *)
IsPlace(values, k, v) ==
    /\ v \in Int /\ v \in Range(values)
    /\ Cardinality(Under(values, v)) < k
    /\ Cardinality(UpTo(values, v)) >= k

LEMMA SmallestIsPlace ==
    ASSUME NEW f, Sample(f), NEW k \in 1..Size(f)
    PROVE  IsPlace(f, k, Smallest(f, k))
<1> DEFINE Values == Range(f)
           Reached == {v \in Values : Cardinality(UpTo(f, v)) >= k}
           Counts == {Cardinality(UpTo(f, v)) : v \in Reached}
<1>1. Values \in SUBSET Int /\ Values # {} /\ \A m \in DOMAIN f : f[m] \in Values
    BY DEF Sample, Range
<1>2. \A v \in Values : Cardinality(UpTo(f, v)) \in Nat /\ Cardinality(Under(f, v)) \in Nat
    BY <1>1, SidesAdd
<1>3. IsFiniteSet(Values)
    <2>1. [m \in DOMAIN f |-> f[m]] \in Surjection(DOMAIN f, Values)
        BY DEF Surjection, Range
    <2> QED
        BY <2>1, FS_Surjection DEF Sample
<1>4. Reached # {}
    <2>1. Max(Values) \in Values /\ \A y \in Values : Max(Values) >= y
        BY <1>1, <1>3, MaxExists
    <2>2. UpTo(f, Max(Values)) = DOMAIN f
        BY <1>1, <2>1 DEF UpTo
    <2> QED
        BY <2>1, <2>2 DEF Size
<1>5. PICK c \in Counts : \A d \in Counts : c <= d
    <2>1. Counts \in SUBSET Nat /\ Counts # {}
        BY <1>2, <1>4
    <2> QED
        BY <2>1, LeastNaturalExists
<1>6. PICK v \in Reached : c = Cardinality(UpTo(f, v))
    BY <1>5
<1>7. Cardinality(Under(f, v)) < k
    <2> SUFFICES ASSUME Cardinality(Under(f, v)) >= k PROVE FALSE
        BY <1>2, <1>6
    <2> DEFINE Lower == {w \in Values : w < v}
    <2>1. Lower # {}
        <3>1. Under(f, v) # {}
            BY FS_EmptySet
        <3> QED
            BY <1>1, <3>1 DEF Under
    <2>2. Lower \in SUBSET Int /\ IsFiniteSet(Lower)
        BY <1>1, <1>3, FS_Subset
    <2> DEFINE u == Max(Lower)
    <2>3. u \in Lower /\ \A y \in Lower : u >= y
        BY <2>1, <2>2, MaxExists
    <2>4. UpTo(f, u) = Under(f, v)
        BY <1>1, <1>6, <2>3 DEF UpTo, Under
    <2>5. u \in Reached
        BY <2>3, <2>4
    <2>6. Cardinality(UpTo(f, v)) <= Cardinality(Under(f, v))
        BY <1>5, <1>6, <2>4, <2>5
    <2>7. Under(f, v) \in SUBSET UpTo(f, v) /\ UpTo(f, v) \in SUBSET DOMAIN f
        BY <1>1, <1>6 DEF UpTo, Under
    <2>8. IsFiniteSet(UpTo(f, v))
        BY <2>7, FS_Subset DEF Sample
    <2>9. Under(f, v) = UpTo(f, v)
        <3>1. Cardinality(Under(f, v)) <= Cardinality(UpTo(f, v))
              /\ (Cardinality(UpTo(f, v)) = Cardinality(Under(f, v)) => UpTo(f, v) = Under(f, v))
            BY <2>7, <2>8, FS_Subset
        <3>2. Cardinality(UpTo(f, v)) = Cardinality(Under(f, v))
            BY <1>2, <1>6, <2>6, <3>1
        <3> QED
            BY <3>1, <3>2
    <2>10. PICK m \in DOMAIN f : f[m] = v
        BY <1>6 DEF Range
    <2> QED
        BY <1>1, <1>6, <2>9, <2>10 DEF Under, UpTo
<1>8. \E w \in Range(f) : Cardinality(Under(f, w)) < k /\ Cardinality(UpTo(f, w)) >= k
    BY <1>6, <1>7
<1>9. /\ Smallest(f, k) \in Range(f)
      /\ Cardinality(Under(f, Smallest(f, k))) < k /\ Cardinality(UpTo(f, Smallest(f, k))) >= k
    BY <1>8, Zenon DEF Smallest, Under, UpTo
<1> QED
    BY <1>1, <1>9 DEF IsPlace

(* The places a median and a quartile are taken at.                         *)
LEMMA PlacesOfStatistics ==
    ASSUME NEW n \in Nat \ {0}, NEW q \in {1, 3}
    PROVE  /\ n % 2 = 1 => (n + 1) \div 2 \in 1..n
           /\ n % 2 # 1 => n \div 2 \in 1..n /\ n \div 2 + 1 \in 1..n /\ n = 2 * (n \div 2)
           /\ ((n - 1) * q) \div 4 \in Int /\ ((n - 1) * q) \div 4 + 1 \in 1..n
           /\ Min({((n - 1) * q) \div 4 + 1, n - 1}) + 1 \in 1..n
           /\ ((n - 1) * q) % 4 \in 0..3
           /\ Min({((n - 1) * q) \div 4 + 1, n - 1}) >= ((n - 1) * q) \div 4
           /\ Min({((n - 1) * q) \div 4 + 1, n - 1}) <= ((n - 1) * q) \div 4 + 1
           /\ Min({((n - 1) * q) \div 4 + 1, n - 1}) \in Int
<1> DEFINE l == ((n - 1) * q) \div 4
<1>1. l \in 0..(n - 1)
    BY SMT
<1>2. Min({l + 1, n - 1}) = IF l + 1 <= n - 1 THEN l + 1 ELSE n - 1
    BY <1>1 DEF Min
<1> QED
    BY <1>1, <1>2

(* What lies between two values is not beyond both.                         *)
LEMMA Interpolated ==
    ASSUME NEW x \in Int, NEW y \in Int, NEW part \in 0..3, NEW t \in Int
    PROVE  /\ (x * (4 - part) + y * part) \div 4 \in Int
           /\ (x * (4 - part) + y * part) \div 4 >= t => x >= t \/ (part # 0 /\ y >= t)
           /\ (x * (4 - part) + y * part) \div 4 <= t => x <= t \/ (part # 0 /\ y <= t)
           /\ x = y => (x * (4 - part) + y * part) \div 4 = x
<1>1. CASE part = 0
    BY <1>1
<1>2. CASE part = 1
    BY <1>2
<1>3. CASE part = 2
    BY <1>3
<1>4. CASE part = 3
    BY <1>4
<1> QED
    BY <1>1, <1>2, <1>3, <1>4

LEMMA MedianIsANumber ==
    ASSUME NEW f, Sample(f)
    PROVE  Median(f) \in Int
<1> DEFINE n == Size(f)
<1>1. n \in Nat \ {0}
    BY SidesAdd
<1>2. \A k \in 1..n : Smallest(f, k) \in Int
    BY SmallestIsPlace DEF IsPlace
<1> QED
    BY <1>1, <1>2, PlacesOfStatistics DEF Median

LEMMA QuartileIsANumber ==
    ASSUME NEW f, Sample(f), NEW q \in {1, 3}
    PROVE  Quartile(f, q) \in Int
<1> DEFINE n == Size(f)
           l == ((n - 1) * q) \div 4
           u == Min({l + 1, n - 1})
           part == ((n - 1) * q) % 4
<1>1. n \in Nat \ {0}
    BY SidesAdd
<1>2. l + 1 \in 1..n /\ u + 1 \in 1..n /\ part \in 0..3
    BY <1>1, PlacesOfStatistics
<1>3. Smallest(f, l + 1) \in Int /\ Smallest(f, u + 1) \in Int
    BY <1>2, SmallestIsPlace DEF IsPlace
<1>4. Quartile(f, q) = (Smallest(f, l + 1) * (4 - part) + Smallest(f, u + 1) * part) \div 4
    BY DEF Quartile
<1> HIDE DEF l, u, part
<1> QED
    BY <1>2, <1>3, <1>4, Interpolated

(* The statistics of equal values.                                          *)
LEMMA EqualValues ==
    ASSUME NEW f, Sample(f), NEW v \in Int, \A m \in DOMAIN f : f[m] = v
    PROVE  Median(f) = v /\ Quartile(f, 1) = v
<1> DEFINE n == Size(f)
           l == ((n - 1) * 1) \div 4
           u == Min({l + 1, n - 1})
           part == ((n - 1) * 1) % 4
<1>1. n \in Nat \ {0}
    BY SidesAdd
<1>2. \A k \in 1..n : Smallest(f, k) = v
    BY SmallestIsPlace DEF IsPlace, Range
<1>3. Median(f) = v
    BY <1>1, <1>2, PlacesOfStatistics DEF Median
<1>4. l + 1 \in 1..n /\ u + 1 \in 1..n /\ part \in 0..3
    BY <1>1, PlacesOfStatistics
<1>5. Quartile(f, 1) = (v * (4 - part) + v * part) \div 4
    BY <1>2, <1>4 DEF Quartile
<1> HIDE DEF l, u, part
<1> QED
    BY <1>3, <1>4, <1>5, Interpolated

(* Half of the members are at least the median.                             *)
LEMMA HalfReachTheMedian ==
    ASSUME NEW f, Sample(f), NEW t \in Int, Median(f) >= t
    PROVE  2 * Cardinality(AtLeast(f, t)) >= Size(f)
<1> DEFINE n == Size(f)
<1>1. n \in Nat \ {0} /\ Cardinality(Under(f, t)) \in Nat
      /\ Cardinality(AtLeast(f, t)) = n - Cardinality(Under(f, t))
    BY SidesAdd
<1>2. ASSUME NEW k \in 1..n, Smallest(f, k) >= t PROVE Cardinality(Under(f, t)) < k
    <2>1. IsPlace(f, k, Smallest(f, k))
        BY SmallestIsPlace
    <2>2. Smallest(f, k) \in Int /\ Cardinality(Under(f, Smallest(f, k))) < k
        BY <2>1 DEF IsPlace
    <2>3. Cardinality(Under(f, t)) <= Cardinality(Under(f, Smallest(f, k)))
        BY <1>2, <2>2, SidesGrow
    <2>4. Cardinality(Under(f, Smallest(f, k))) \in Nat
        BY <2>2, SidesAdd
    <2> QED
        BY <1>1, <2>2, <2>3, <2>4
<1>3. \A k \in 1..n : Smallest(f, k) \in Int
    BY SmallestIsPlace DEF IsPlace
<1>4. CASE n % 2 = 1
    <2>1. (n + 1) \div 2 \in 1..n /\ Smallest(f, (n + 1) \div 2) >= t
        BY <1>1, <1>4, PlacesOfStatistics DEF Median
    <2> QED
        BY <1>1, <1>2, <2>1
<1>5. CASE n % 2 # 1
    <2>1. n \div 2 \in 1..n /\ n \div 2 + 1 \in 1..n /\ n = 2 * (n \div 2)
        BY <1>1, <1>5, PlacesOfStatistics
    <2>2. (Smallest(f, n \div 2) + Smallest(f, n \div 2 + 1)) \div 2 >= t
        BY <1>5 DEF Median
    <2>3. Smallest(f, n \div 2) >= t \/ Smallest(f, n \div 2 + 1) >= t
        BY <1>3, <2>1, <2>2
    <2>4. Cardinality(Under(f, t)) < n \div 2 + 1
        BY <1>1, <1>2, <2>1, <2>3
    <2> QED
        BY <1>1, <2>1, <2>4
<1> QED
    BY <1>4, <1>5

(* A first quartile of at least t leaves few members under t.               *)
LEMMA FewUnderTheFirstQuartile ==
    ASSUME NEW f, Sample(f), NEW t \in Int, Quartile(f, 1) >= t
    PROVE  Cardinality(Under(f, t)) <= Few(Size(f))
<1> DEFINE n == Size(f)
           l == ((n - 1) * 1) \div 4
           u == Min({l + 1, n - 1})
           part == ((n - 1) * 1) % 4
<1>1. n \in Nat \ {0} /\ Cardinality(Under(f, t)) \in Nat
    BY SidesAdd
<1>2. /\ l \in Int /\ l + 1 \in 1..n /\ u \in Int /\ u + 1 \in 1..n
      /\ part \in 0..3
    BY <1>1, PlacesOfStatistics
<1>3. ASSUME NEW k \in 1..n, Smallest(f, k) >= t PROVE Cardinality(Under(f, t)) < k
    <2>1. IsPlace(f, k, Smallest(f, k))
        BY SmallestIsPlace
    <2>2. Smallest(f, k) \in Int /\ Cardinality(Under(f, Smallest(f, k))) < k
        BY <2>1 DEF IsPlace
    <2>3. Cardinality(Under(f, t)) <= Cardinality(Under(f, Smallest(f, k)))
        BY <1>3, <2>2, SidesGrow
    <2>4. Cardinality(Under(f, Smallest(f, k))) \in Nat
        BY <2>2, SidesAdd
    <2> QED
        BY <1>1, <2>2, <2>3, <2>4
<1>4. \A k \in 1..n : Smallest(f, k) \in Int
    BY SmallestIsPlace DEF IsPlace
<1> DEFINE a == Smallest(f, l + 1)
           b == Smallest(f, u + 1)
<1>5. a \in Int /\ b \in Int
    BY <1>2, <1>4
<1>6. a >= t \/ (part # 0 /\ b >= t)
    <2>1. (a * (4 - part) + b * part) \div 4 >= t
        BY DEF Quartile
    <2> HIDE DEF a, b, part
    <2> QED
        BY <1>2, <1>5, <2>1, Interpolated
<1>7. CASE a >= t
    <2>1. Cardinality(Under(f, t)) < l + 1
        BY <1>2, <1>3, <1>7
    <2> QED
        BY <1>1, <1>2, <2>1 DEF Few
<1>8. CASE part # 0 /\ b >= t
    <2>1. u <= l + 1
        BY <1>1, PlacesOfStatistics
    <2>2. Cardinality(Under(f, t)) < u + 1
        BY <1>2, <1>3, <1>8
    <2>3. Cardinality(Under(f, t)) <= l + 1
        <3> HIDE DEF l, u
        <3> QED
            BY <1>1, <1>2, <2>1, <2>2
    <2> QED
        BY <1>1, <1>2, <1>8, <2>3 DEF Few
<1> QED
    BY <1>6, <1>7, <1>8

(* A third quartile of at most t leaves few members above t.                *)
LEMMA FewOverTheThirdQuartile ==
    ASSUME NEW f, Sample(f), NEW t \in Int, Quartile(f, 3) <= t
    PROVE  Cardinality(Over(f, t)) <= Few(Size(f))
<1> DEFINE n == Size(f)
           l == ((n - 1) * 3) \div 4
           u == Min({l + 1, n - 1})
           part == ((n - 1) * 3) % 4
<1>1. n \in Nat \ {0} /\ Cardinality(UpTo(f, t)) \in Nat
      /\ Cardinality(Over(f, t)) = n - Cardinality(UpTo(f, t))
    BY SidesAdd
<1>2. /\ l \in Int /\ l + 1 \in 1..n /\ u \in Int /\ u + 1 \in 1..n
      /\ part \in 0..3
    BY <1>1, PlacesOfStatistics
<1>3. ASSUME NEW k \in 1..n, Smallest(f, k) <= t PROVE Cardinality(UpTo(f, t)) >= k
    <2>1. IsPlace(f, k, Smallest(f, k))
        BY SmallestIsPlace
    <2>2. Smallest(f, k) \in Int /\ Cardinality(UpTo(f, Smallest(f, k))) >= k
        BY <2>1 DEF IsPlace
    <2>3. Cardinality(UpTo(f, Smallest(f, k))) <= Cardinality(UpTo(f, t))
        BY <1>3, <2>2, SidesGrow
    <2>4. Cardinality(UpTo(f, Smallest(f, k))) \in Nat
        BY <2>2, SidesAdd
    <2> QED
        BY <1>1, <2>2, <2>3, <2>4
<1>4. \A k \in 1..n : Smallest(f, k) \in Int
    BY SmallestIsPlace DEF IsPlace
<1> DEFINE a == Smallest(f, l + 1)
           b == Smallest(f, u + 1)
<1>5. a \in Int /\ b \in Int
    BY <1>2, <1>4
<1>6. a <= t \/ (part # 0 /\ b <= t)
    <2>1. (a * (4 - part) + b * part) \div 4 <= t
        BY DEF Quartile
    <2> HIDE DEF a, b, part
    <2> QED
        BY <1>2, <1>5, <2>1, Interpolated
<1>7. CASE a <= t
    <2>1. Cardinality(UpTo(f, t)) >= l + 1
        BY <1>2, <1>3, <1>7
    <2> QED
        BY <1>1, <1>2, <2>1 DEF Few
<1>8. CASE part # 0 /\ b <= t
    <2>1. u >= l
        BY <1>1, PlacesOfStatistics
    <2>2. Cardinality(UpTo(f, t)) >= u + 1
        BY <1>2, <1>3, <1>8
    <2>3. Cardinality(UpTo(f, t)) >= l + 1
        <3> HIDE DEF l, u
        <3> QED
            BY <1>1, <1>2, <2>1, <2>2
    <2> QED
        BY <1>1, <1>2, <2>3 DEF Few
<1> QED
    BY <1>6, <1>7, <1>8

---------------------------------------------------------------------------
(* What is analysed was fresh and stays so, and what is cited is as late.   *)

AuditFields == {"stage", "manifest", "left", "points", "rankings", "cadence", "ranks", "cited"}
AuditStages == {"state", "search", "evaluate", "cite", "reported",
                "no evidence", "not an identity"}

HistoriesAreDated ==
    \E stored \in Histories :
        /\ DOMAIN histories = Series
        /\ \A s \in Series :
              /\ Dated(histories[s])
              /\ histories[s] \subseteq stored[s] \cup Backfilled(s)

AuditTypes ==
    /\ DOMAIN audit = AuditFields /\ audit.stage \in AuditStages
    /\ audit.manifest \in AuditManifests
    /\ audit.left \subseteq Series /\ DOMAIN audit.points \subseteq Series
    /\ \A s \in DOMAIN audit.points :
          audit.points[s] = [i \in DOMAIN Checkpoints |-> audit.points[s][i]]
    /\ audit.stage = "cite" => audit.left \subseteq DOMAIN audit.points
    /\ audit.stage \in {"state", "search", "evaluate"} => DOMAIN audit.cited = {}

PointsStayFresh ==
    \A s \in DOMAIN audit.points : \A i \in DOMAIN Checkpoints :
        audit.points[s][i] \in FreshAt(histories[s], Checkpoints[i])

CitationsAreAsLate ==
    /\ DOMAIN audit.cited \subseteq DOMAIN audit.points
    /\ \A s \in DOMAIN audit.cited : \A i \in DOMAIN Checkpoints :
          /\ Fresh(audit.cited[s][i], Checkpoints[i])
          /\ \/ audit.cited[s][i] = audit.points[s][i]
             \/ Later(audit.cited[s][i], audit.points[s][i])

AuditIsFresh ==
    /\ HistoriesAreDated
    /\ audit = Idle \/ (AuditTypes /\ PointsStayFresh /\ CitationsAreAsLate)

LEMMA IdleIsNoAudit == Idle.stage = "idle" /\ Idle.stage \notin AuditStages
BY DEF Idle, AuditStages

LEMMA BackfillsAreDated ==
    ASSUME HistoriesAreDated, NEW b \in Backfills, Backfill(b[1], b[2])
    PROVE  /\ HistoriesAreDated'
           /\ \A s \in Series : histories[s] \subseteq histories'[s]
<1> DEFINE series == b[1]
<1>1. PICK stored \in Histories :
          /\ DOMAIN histories = Series
          /\ \A s \in Series :
                /\ Dated(histories[s])
                /\ histories[s] \subseteq stored[s] \cup Backfilled(s)
    BY DEF HistoriesAreDated
<1>2. series \in Series /\ b[2] \in Backfilled(series)
    BY HistoriesAssumption DEF Backfilled
<1>3. /\ DOMAIN histories' = Series
      /\ \A s \in Series : histories'[s] = IF s = series THEN histories[s] \cup {b[2]}
                                          ELSE histories[s]
    BY <1>1, <1>2 DEF Backfill
<1>4. \A s \in Series : histories'[s] \subseteq stored[s] \cup Backfilled(s)
    BY <1>1, <1>2, <1>3
<1>5. \A s \in Series : IsFiniteSet(histories'[s])
    <2>1. \A s \in Series : IsFiniteSet(histories[s]) /\ IsFiniteSet(histories[s] \cup {b[2]})
        BY <1>1, FS_AddElement, Zenon DEF Dated
    <2> QED
        BY <1>3, <2>1
<1>6. \A s \in Series : Dated(histories'[s])
    <2> SUFFICES ASSUME NEW s \in Series PROVE Dated(histories'[s])
        OBVIOUS
    <2> DEFINE ever == stored[s] \cup Backfilled(s)
    <2>1. /\ \A o \in ever : o.at \in Int /\ o.retrieved \in Int /\ o.id \in Int
          /\ \A o, p \in ever :
                o.at = p.at /\ o.retrieved = p.retrieved /\ o.id = p.id => o = p
        BY <1>1, HistoriesAssumption, Zenon
    <2> QED
        BY <1>4, <1>5, <2>1, Zenon DEF Dated
<1> QED
    BY <1>1, <1>3, <1>4, <1>6 DEF HistoriesAreDated

LEMMA FreshStaysFresh ==
    ASSUME NEW h, NEW later, h \subseteq later, NEW c
    PROVE  FreshAt(h, c) \subseteq FreshAt(later, c)
BY DEF FreshAt

(* The points of a readable history are its latest fresh observations.      *)
LEMMA PointsAreTheLatest ==
    ASSUME NEW h, Dated(h), Readable(h), NEW i \in DOMAIN Checkpoints
    PROVE  /\ Points(h)[i] \in FreshAt(h, Checkpoints[i])
           /\ \A o \in FreshAt(h, Checkpoints[i]) :
                 o = Points(h)[i] \/ Later(Points(h)[i], o)
<1> DEFINE S == FreshAt(h, Checkpoints[i])
<1>1. S \in SUBSET h /\ S # {}
    BY DEF FreshAt, Readable
<1>2. Latest(S) \in S /\ \A o \in S : o = Latest(S) \/ Later(Latest(S), o)
    BY <1>1, DatedSubset, LatestExists
<1>3. Points(h)[i] = Latest(S)
    BY DEF Points
<1> QED
    BY <1>2, <1>3

LEMMA FreshInit == ExperimentInit => AuditIsFresh
<1> SUFFICES ASSUME ExperimentInit PROVE AuditIsFresh
    OBVIOUS
<1>1. histories \in Histories /\ audit = Idle
    BY DEF ExperimentInit, CadenceInit
<1>2. DOMAIN histories = Series /\ \A s \in Series : Dated(histories[s])
    BY <1>1, HistoriesAssumption DEF Dated
<1> QED
    BY <1>1, <1>2 DEF AuditIsFresh, HistoriesAreDated

LEMMA FreshBackfill ==
    ASSUME AuditIsFresh, NEW b \in Backfills, Backfill(b[1], b[2])
    PROVE  AuditIsFresh'
<1>1. HistoriesAreDated' /\ \A s \in Series : histories[s] \subseteq histories'[s]
    BY BackfillsAreDated DEF AuditIsFresh
<1>2. audit' = audit
    BY DEF Backfill
<1>3. CASE audit = Idle
    BY <1>1, <1>2, <1>3 DEF AuditIsFresh
<1>4. CASE AuditTypes /\ PointsStayFresh /\ CitationsAreAsLate
    <2>1. AuditTypes' /\ CitationsAreAsLate'
        BY <1>2, <1>4 DEF AuditTypes, CitationsAreAsLate, Checkpoints
    <2>2. PointsStayFresh'
        BY <1>1, <1>2, <1>4, FreshStaysFresh DEF AuditTypes, PointsStayFresh, Checkpoints
    <2> QED
        BY <1>1, <2>1, <2>2 DEF AuditIsFresh
<1> QED
    BY <1>3, <1>4 DEF AuditIsFresh

LEMMA FreshStart ==
    ASSUME AuditIsFresh, NEW manifest \in AuditManifests, StartAudit(manifest)
    PROVE  AuditIsFresh'
<1>1. HistoriesAreDated'
    BY DEF AuditIsFresh, StartAudit, HistoriesAreDated
<1>2. AuditTypes' /\ PointsStayFresh' /\ CitationsAreAsLate'
    BY DEF StartAudit, AuditTypes, PointsStayFresh, CitationsAreAsLate, AuditFields,
           AuditStages, Checkpoints
<1> QED
    BY <1>1, <1>2 DEF AuditIsFresh

(* A stage of an audit that is in hand.                                     *)
LEMMA AuditInHand ==
    ASSUME AuditIsFresh, audit.stage \in AuditStages
    PROVE  HistoriesAreDated /\ AuditTypes /\ PointsStayFresh /\ CitationsAreAsLate
BY IdleIsNoAudit DEF AuditIsFresh

LEMMA FreshLoadSeries ==
    ASSUME AuditIsFresh, LoadSeries
    PROVE  AuditIsFresh'
<1> DEFINE series == NextOf(audit.left)
           history == histories[series]
<1>1. audit.stage = "state" /\ audit.left # {} /\ histories' = histories
    BY DEF LoadSeries
<1>2. HistoriesAreDated /\ AuditTypes /\ PointsStayFresh /\ CitationsAreAsLate
    BY <1>1, AuditInHand DEF AuditStages
<1>3. audit' = [audit EXCEPT
           !.left = @ \ {series},
           !.points = IF EligibleSeries(history) THEN Extended(@, series, Points(history)) ELSE @]
    BY DEF LoadSeries
<1>4. series \in Series
    BY <1>1, <1>2 DEF AuditTypes, NextOf
<1>5. /\ DOMAIN audit' = AuditFields /\ audit'.stage = audit.stage
      /\ audit'.manifest = audit.manifest /\ audit'.cited = audit.cited
      /\ audit'.left = audit.left \ {series}
      /\ audit'.points = IF EligibleSeries(history)
                         THEN Extended(audit.points, series, Points(history)) ELSE audit.points
    BY <1>2, <1>3 DEF AuditTypes, AuditFields
<1>6. Checkpoints' = Checkpoints
    BY <1>5 DEF Checkpoints
<1>7. HistoriesAreDated' /\ Dated(history)
    BY <1>1, <1>2, <1>4 DEF HistoriesAreDated
<1>8. ASSUME EligibleSeries(history)
      PROVE  \A i \in DOMAIN Checkpoints : Points(history)[i] \in FreshAt(history, Checkpoints[i])
    BY <1>7, <1>8, PointsAreTheLatest DEF EligibleSeries
<1>9. Points(history) = [i \in DOMAIN Checkpoints |-> Points(history)[i]]
    BY DEF Points
<1>10. AuditTypes'
    <2>1. \A s \in DOMAIN audit'.points :
              audit'.points[s] = [i \in DOMAIN Checkpoints |-> audit'.points[s][i]]
        <3> SUFFICES ASSUME NEW s \in DOMAIN audit'.points
                     PROVE  audit'.points[s] = [i \in DOMAIN Checkpoints |-> audit'.points[s][i]]
            OBVIOUS
        <3>1. audit'.points[s] = Points(history) \/ (s \in DOMAIN audit.points
                                                  /\ audit'.points[s] = audit.points[s])
            BY <1>5 DEF Extended
        <3> QED
            BY <1>2, <1>9, <3>1 DEF AuditTypes
    <2>2. DOMAIN audit'.points \subseteq Series
        BY <1>2, <1>4, <1>5 DEF AuditTypes, Extended
    <2> QED
        BY <1>1, <1>2, <1>5, <1>6, <2>1, <2>2 DEF AuditTypes
<1>11. PointsStayFresh'
    BY <1>1, <1>2, <1>5, <1>6, <1>8 DEF PointsStayFresh, Extended
<1>12. DOMAIN audit'.cited = {}
    BY <1>1, <1>2, <1>5 DEF AuditTypes
<1>13. CitationsAreAsLate'
    BY <1>12 DEF CitationsAreAsLate
<1> QED
    BY <1>7, <1>10, <1>11, <1>13 DEF AuditIsFresh

(* A step to another stage that reads no observation.                       *)
LEMMA FreshElsewhere ==
    ASSUME AuditIsFresh, audit.stage \in AuditStages, histories' = histories,
           DOMAIN audit' = AuditFields, audit'.stage \in AuditStages,
           audit'.manifest = audit.manifest, audit'.points = audit.points,
           audit'.cited = audit.cited,
           audit'.left \in {audit.left, DOMAIN audit.points},
           audit'.stage = "cite" => audit'.left = DOMAIN audit.points,
           audit'.stage \in {"state", "search", "evaluate"}
               => audit.stage \in {"state", "search", "evaluate"}
    PROVE  AuditIsFresh'
<1>1. HistoriesAreDated /\ AuditTypes /\ PointsStayFresh /\ CitationsAreAsLate
    BY AuditInHand
<1>2. Checkpoints' = Checkpoints
    BY DEF Checkpoints
<1>3. AuditTypes'
    BY <1>1, <1>2 DEF AuditTypes
<1>4. HistoriesAreDated' /\ PointsStayFresh' /\ CitationsAreAsLate'
    BY <1>1, <1>2 DEF HistoriesAreDated, PointsStayFresh, CitationsAreAsLate
<1> QED
    BY <1>3, <1>4 DEF AuditIsFresh

LEMMA FreshLoadFeed ==
    ASSUME AuditIsFresh, LoadFeed
    PROVE  AuditIsFresh'
<1>1. audit.stage = "state" /\ audit.stage \in AuditStages
    BY DEF LoadFeed, AuditStages
<1>2. DOMAIN audit = AuditFields
    BY <1>1, AuditInHand DEF AuditTypes
<1>3. /\ DOMAIN audit' = AuditFields /\ audit'.stage = "search" /\ histories' = histories
      /\ audit'.manifest = audit.manifest /\ audit'.points = audit.points
      /\ audit'.cited = audit.cited /\ audit'.left = audit.left
    BY <1>2 DEF LoadFeed, AuditFields
<1> QED
    BY <1>1, <1>3, FreshElsewhere DEF AuditStages

LEMMA FreshLoadSearch ==
    ASSUME AuditIsFresh, LoadSearch
    PROVE  AuditIsFresh'
<1>1. audit.stage = "search" /\ audit.stage \in AuditStages
    BY DEF LoadSearch, AuditStages
<1>2. DOMAIN audit = AuditFields
    BY <1>1, AuditInHand DEF AuditTypes
<1>3. /\ DOMAIN audit' = AuditFields /\ audit'.stage = "evaluate" /\ histories' = histories
      /\ audit'.manifest = audit.manifest /\ audit'.points = audit.points
      /\ audit'.cited = audit.cited /\ audit'.left = audit.left
    BY <1>2 DEF LoadSearch, AuditFields
<1> QED
    BY <1>1, <1>3, FreshElsewhere DEF AuditStages

LEMMA FreshEvaluate ==
    ASSUME AuditIsFresh, Evaluate
    PROVE  AuditIsFresh'
<1>1. audit.stage = "evaluate" /\ audit.stage \in AuditStages
    BY DEF Evaluate, AuditStages
<1>2. DOMAIN audit = AuditFields
    BY <1>1, AuditInHand DEF AuditTypes
<1>3. /\ DOMAIN audit' = AuditFields /\ histories' = histories
      /\ audit'.stage \in {"no evidence", "not an identity", "cite"}
      /\ audit'.manifest = audit.manifest /\ audit'.points = audit.points
      /\ audit'.cited = audit.cited
      /\ audit'.left = IF audit'.stage = "cite" THEN DOMAIN audit.points ELSE audit.left
    BY <1>2 DEF Evaluate, AuditFields
<1> QED
    BY <1>1, <1>3, FreshElsewhere DEF AuditStages

LEMMA FreshPublish ==
    ASSUME AuditIsFresh, Publish
    PROVE  AuditIsFresh'
<1>1. audit.stage = "cite" /\ audit.stage \in AuditStages
    BY DEF Publish, AuditStages
<1>2. DOMAIN audit = AuditFields
    BY <1>1, AuditInHand DEF AuditTypes
<1>3. /\ DOMAIN audit' = AuditFields /\ audit'.stage = "reported" /\ histories' = histories
      /\ audit'.manifest = audit.manifest /\ audit'.points = audit.points
      /\ audit'.cited = audit.cited /\ audit'.left = audit.left
    BY <1>2 DEF Publish, AuditFields
<1> QED
    BY <1>1, <1>3, FreshElsewhere DEF AuditStages

(* The second reading finds what the first found, or something later.       *)
LEMMA FreshCite ==
    ASSUME AuditIsFresh, Cite
    PROVE  AuditIsFresh'
<1> DEFINE series == NextOf(audit.left)
           history == histories[series]
<1>1. audit.stage = "cite" /\ audit.left # {} /\ histories' = histories
    BY DEF Cite
<1>2. HistoriesAreDated /\ AuditTypes /\ PointsStayFresh /\ CitationsAreAsLate
    BY <1>1, AuditInHand DEF AuditStages
<1>3. series \in audit.left
    BY <1>1 DEF NextOf
<1>4. series \in DOMAIN audit.points /\ series \in Series
    BY <1>1, <1>2, <1>3 DEF AuditTypes
<1>5. Dated(history)
    BY <1>2, <1>4 DEF HistoriesAreDated
<1>6. \A i \in DOMAIN Checkpoints : audit.points[series][i] \in FreshAt(history, Checkpoints[i])
    BY <1>2, <1>4 DEF PointsStayFresh
<1>7. Readable(history)
    BY <1>6 DEF Readable
<1>8. audit' = [audit EXCEPT !.left = @ \ {series},
                             !.cited = Extended(@, series, Cited(history))]
    BY <1>7 DEF Cite
<1>9. /\ DOMAIN audit' = AuditFields /\ audit'.stage = "cite"
      /\ audit'.manifest = audit.manifest /\ audit'.points = audit.points
      /\ audit'.left = audit.left \ {series}
      /\ audit'.cited = Extended(audit.cited, series, Points(history))
    BY <1>1, <1>2, <1>8 DEF AuditTypes, AuditFields, Cited
<1>10. Checkpoints' = Checkpoints
    BY <1>9 DEF Checkpoints
<1>11. HistoriesAreDated' /\ PointsStayFresh'
    BY <1>1, <1>2, <1>9, <1>10 DEF HistoriesAreDated, PointsStayFresh
<1>12. AuditTypes'
    BY <1>1, <1>2, <1>9, <1>10 DEF AuditTypes, AuditStages
<1>13. CitationsAreAsLate'
    <2>1. DOMAIN audit'.cited \subseteq DOMAIN audit'.points
        BY <1>2, <1>4, <1>9 DEF CitationsAreAsLate, Extended
    <2>2. ASSUME NEW s \in DOMAIN audit'.cited, NEW i \in DOMAIN Checkpoints
          PROVE  /\ Fresh(audit'.cited[s][i], Checkpoints[i])
                 /\ \/ audit'.cited[s][i] = audit.points[s][i]
                    \/ Later(audit'.cited[s][i], audit.points[s][i])
        <3>1. CASE s = series
            <4>1. audit'.cited[s][i] = Points(history)[i]
                BY <1>9, <3>1 DEF Extended
            <4>2. Points(history)[i] \in FreshAt(history, Checkpoints[i])
                BY <1>5, <1>7, PointsAreTheLatest
            <4>3. \/ audit.points[s][i] = Points(history)[i]
                  \/ Later(Points(history)[i], audit.points[s][i])
                BY <1>5, <1>6, <1>7, <3>1, PointsAreTheLatest
            <4> QED
                BY <4>1, <4>2, <4>3 DEF FreshAt
        <3>2. CASE s # series
            <4>1. s \in DOMAIN audit.cited /\ audit'.cited[s] = audit.cited[s]
                BY <1>9, <3>2 DEF Extended
            <4> QED
                BY <1>2, <4>1 DEF CitationsAreAsLate
        <3> QED
            BY <3>1, <3>2
    <2> QED
        BY <1>9, <1>10, <2>1, <2>2 DEF CitationsAreAsLate
<1> QED
    BY <1>11, <1>12, <1>13 DEF AuditIsFresh

LEMMA FreshUnchanged ==
    ASSUME AuditIsFresh, UNCHANGED cadenceVars
    PROVE  AuditIsFresh'
<1>1. histories' = histories /\ audit' = audit
    BY DEF cadenceVars
<1> QED
    BY <1>1 DEF AuditIsFresh, HistoriesAreDated, AuditTypes, PointsStayFresh,
                CitationsAreAsLate, Checkpoints

LEMMA FreshStep == AuditIsFresh /\ [ExperimentNext]_experimentVars => AuditIsFresh'
<1> SUFFICES ASSUME AuditIsFresh, [ExperimentNext]_experimentVars PROVE AuditIsFresh'
    OBVIOUS
<1>1. CASE UNCHANGED cadenceVars
    BY <1>1, FreshUnchanged
<1>2. CASE CadenceNext
    <2>1. CASE \E b \in Backfills : Backfill(b[1], b[2])
        BY <2>1, FreshBackfill
    <2>2. CASE \E manifest \in AuditManifests : StartAudit(manifest)
        BY <2>2, FreshStart
    <2>3. CASE LoadSeries
        BY <2>3, FreshLoadSeries
    <2>4. CASE LoadFeed
        BY <2>4, FreshLoadFeed
    <2>5. CASE LoadSearch
        BY <2>5, FreshLoadSearch
    <2>6. CASE Evaluate
        BY <2>6, FreshEvaluate
    <2>7. CASE Cite
        BY <2>7, FreshCite
    <2>8. CASE Publish
        BY <2>8, FreshPublish
    <2> QED
        BY <1>2, <2>1, <2>2, <2>3, <2>4, <2>5, <2>6, <2>7, <2>8 DEF CadenceNext
<1> QED
    BY <1>1, <1>2 DEF ExperimentNext, experimentVars

LEMMA FreshIsEnough == AuditIsFresh => CitationsHold
<1> SUFFICES ASSUME AuditIsFresh PROVE CitationsHold
    OBVIOUS
<1>1. CASE audit = Idle
    BY <1>1 DEF Idle, CitationsHold
<1>2. CASE AuditTypes /\ CitationsAreAsLate
    BY <1>2 DEF AuditTypes, AuditStages, CitationsAreAsLate, CitationsHold
<1> QED
    BY <1>1, <1>2 DEF AuditIsFresh

(* The second reading of the histories finds evidence for whatever the      *)
(* first accepted, and never anything older or out of time, however many    *)
(* observations are persisted between them, for any listings, checkpoints   *)
(* and histories.                                                           *)
THEOREM CitationsAlwaysHold == ExperimentSpec => []CitationsHold
<1>1. ExperimentSpec => []AuditIsFresh
    BY FreshInit, FreshStep, PTL DEF ExperimentSpec
<1> QED
    BY <1>1, FreshIsEnough, PTL

---------------------------------------------------------------------------
(* A cadence that passes is one that every required signal bears.           *)

LEMMA RatiosAreASample ==
    ASSUME AuditTypes, NEW signal \in Signal, NEW interval \in Nat \ {0}
    PROVE  /\ DOMAIN Ratios(signal, interval) = Of(signal)
           /\ \A s \in Of(signal) :
                 Ratios(signal, interval)[s] = MatchRatio(audit.points[s], interval)
           /\ Size(Ratios(signal, interval)) = Cardinality(Of(signal))
           /\ Sufficient(signal) => Sample(Ratios(signal, interval))
<1>1. /\ DOMAIN Ratios(signal, interval) = Of(signal)
      /\ \A s \in Of(signal) :
            Ratios(signal, interval)[s] = MatchRatio(audit.points[s], interval)
    BY DEF Ratios
<1>2. IsFiniteSet(Of(signal))
    <2>1. Signal = {"yandex_games_rating"} \cup {"rating_count"} \cup {"media_manifest"}
                   \cup {"game_page_update"}
        BY DEF Signal
    <2>2. IsFiniteSet(Signal)
        BY <2>1, FS_Singleton, FS_Union
    <2>3. IsFiniteSet(Series)
        BY <2>2, ListingsAssumption, FS_Product DEF Series
    <2>4. Of(signal) \in SUBSET Series
        BY DEF Of, AuditTypes
    <2> QED
        BY <2>3, <2>4, FS_Subset
<1>3. ASSUME NEW s \in Of(signal) PROVE MatchRatio(audit.points[s], interval) \in Int
    <2> DEFINE points == audit.points[s]
               n == Len(Checkpoints)
               kept == {i \in DOMAIN points :
                           points[Retained(i, interval)].value = points[i].value}
    <2>1. Checkpoints \in Seq(Int) /\ Checkpoints # << >>
        BY ManifestsAssumption DEF AuditTypes, Checkpoints
    <2>2. n \in Nat \ {0} /\ DOMAIN Checkpoints = 1..n
        BY <2>1
    <2>3. points = [i \in 1..n |-> points[i]]
        BY <2>2 DEF AuditTypes, Of
    <2>4. DOMAIN points = 1..n /\ Len(points) = n
        BY <2>2, <2>3
    <2>5. IsFiniteSet(1..n) /\ kept \in SUBSET (1..n)
        BY <2>2, <2>4, FS_Interval
    <2>6. Cardinality(kept) \in Nat
        BY <2>5, FS_Subset, FS_CardinalityType
    <2>7. MatchRatio(points, interval) = Share(Cardinality(kept), n)
        BY <2>4 DEF MatchRatio
    <2> HIDE DEF kept, n, points
    <2> QED
        BY SMT, <2>2, <2>6, <2>7 DEF Share, Unit, points
<1>4. Sufficient(signal) => Of(signal) # {}
    BY ListingsAssumption, FS_EmptySet DEF Sufficient
<1> QED
    BY <1>1, <1>2, <1>3, <1>4 DEF Sample, Size

LEMMA PassingBearsMost ==
    ASSUME AuditTypes, NEW signal \in Signal, NEW interval \in Nat \ {0},
           SignalPasses(signal, interval)
    PROVE  LET n == Cardinality(Of(signal))
               Kept(s) == MatchRatio(audit.points[s], interval) IN
           /\ Cardinality({s \in Of(signal) : Kept(s) < Hundredths(80)}) <= Few(n)
           /\ 2 * Cardinality({s \in Of(signal) : Kept(s) >= Hundredths(90)}) >= n
<1> DEFINE f == Ratios(signal, interval)
           Kept(s) == MatchRatio(audit.points[s], interval)
<1>1. /\ DOMAIN f = Of(signal) /\ \A s \in Of(signal) : f[s] = Kept(s)
      /\ Size(f) = Cardinality(Of(signal)) /\ Sample(f)
    BY RatiosAreASample DEF SignalPasses
<1>2. Hundredths(80) \in Int /\ Hundredths(90) \in Int
    BY SMT DEF Hundredths, Unit
<1>3. Median(f) >= Hundredths(90) /\ Quartile(f, 1) >= Hundredths(80)
    BY DEF SignalPasses
<1>4. 2 * Cardinality(AtLeast(f, Hundredths(90))) >= Size(f)
    BY <1>1, <1>2, <1>3, HalfReachTheMedian
<1>5. Cardinality(Under(f, Hundredths(80))) <= Few(Size(f))
    BY <1>1, <1>2, <1>3, FewUnderTheFirstQuartile
<1>6. /\ AtLeast(f, Hundredths(90)) = {s \in Of(signal) : Kept(s) >= Hundredths(90)}
      /\ Under(f, Hundredths(80)) = {s \in Of(signal) : Kept(s) < Hundredths(80)}
    BY <1>1 DEF AtLeast, Under
<1> QED
    BY <1>1, <1>4, <1>5, <1>6

LEMMA DailyPasses ==
    ASSUME AuditTypes, DailyIdentity, NEW signal \in Signal, Sufficient(signal)
    PROVE  SignalPasses(signal, 1)
<1> DEFINE f == Ratios(signal, 1)
<1>1. Sample(f) /\ DOMAIN f = Of(signal)
    BY RatiosAreASample
<1>2. \A s \in DOMAIN f : f[s] = Unit
    BY <1>1 DEF DailyIdentity
<1>3. Unit \in Int /\ Unit >= Hundredths(90) /\ Unit >= Hundredths(80)
    BY SMT DEF Unit, Hundredths
<1>4. Median(f) = Unit /\ Quartile(f, 1) = Unit
    BY <1>1, <1>2, <1>3, EqualValues
<1> QED
    BY <1>3, <1>4 DEF SignalPasses

Capabilities == {"catalogue_metadata", "game_page"}

CadenceFits(capability, recommended) ==
    LET Kept(s) == MatchRatio(audit.points[s], recommended) IN
    /\ recommended = 0 <=> \E signal \in Required(capability) : ~Sufficient(signal)
    /\ recommended # 0 => \A signal \in Required(capability) :
          LET n == Cardinality(Of(signal)) IN
          /\ Cardinality({s \in Of(signal) : Kept(s) < Hundredths(80)}) <= Few(n)
          /\ 2 * Cardinality({s \in Of(signal) : Kept(s) >= Hundredths(90)}) >= n

LEMMA EvaluatedCadenceFits ==
    ASSUME AuditTypes, DailyIdentity, NEW capability \in Capabilities
    PROVE  CadenceFits(capability, CapabilityCadence(capability))
<1> DEFINE rec == CapabilityCadence(capability)
           passing == {n \in Intervals : \A s \in Participating(capability) : SignalPasses(s, n)}
<1>1. /\ Required(capability) \subseteq Participating(capability)
      /\ Participating(capability) \subseteq Signal
    BY DEF Required, Participating, Signal
<1>2. CASE \E signal \in Required(capability) : ~Sufficient(signal)
    <2>1. rec = 0
        BY <1>2 DEF CapabilityCadence
    <2> QED
        BY <1>2, <2>1 DEF CadenceFits
<1>3. CASE \A signal \in Required(capability) : Sufficient(signal)
    <2>1. rec = Slowest(passing)
        BY <1>3 DEF CapabilityCadence
    <2>2. \A s \in Participating(capability) : Sufficient(s)
        BY <1>3 DEF Participating
    <2>3. 1 \in passing
        BY <1>1, <2>2, DailyPasses, IntervalsAssumption
    <2>4. passing \in SUBSET Intervals /\ IsFiniteSet(Intervals) /\ Intervals \subseteq Int
        BY IntervalsAssumption
    <2>5. passing \in SUBSET Int /\ IsFiniteSet(passing) /\ passing # {}
        BY <2>3, <2>4, FS_Subset
    <2>6. rec \in passing
        BY <2>1, <2>5, MaxExists DEF Slowest
    <2>7. rec \in Nat \ {0} /\ \A s \in Required(capability) : SignalPasses(s, rec)
        BY <1>1, <2>6, IntervalsAssumption
    <2> HIDE DEF rec
    <2>8. ASSUME NEW signal \in Required(capability)
          PROVE  LET n == Cardinality(Of(signal))
                     Kept(s) == MatchRatio(audit.points[s], rec) IN
                 /\ Cardinality({s \in Of(signal) : Kept(s) < Hundredths(80)}) <= Few(n)
                 /\ 2 * Cardinality({s \in Of(signal) : Kept(s) >= Hundredths(90)}) >= n
        BY <1>1, <2>7, PassingBearsMost
    <2>9. CadenceFits(capability, rec)
        BY <1>3, <2>7, <2>8 DEF CadenceFits
    <2> QED
        BY <2>9 DEF rec
<1> QED
    BY <1>2, <1>3

AuditFits == AuditIsFresh /\ CadenceFitsEverySignal

LEMMA FitsAreOfTheCadence ==
    CadenceFitsEverySignal <=>
        (audit.stage \in {"cite", "reported"} =>
            \A capability \in Capabilities : CadenceFits(capability, audit.cadence[capability]))
BY Zenon DEF CadenceFitsEverySignal, CadenceFits, Capabilities

LEMMA FitsElsewhere ==
    ASSUME CadenceFitsEverySignal,
           audit'.stage \in {"cite", "reported"} => audit.stage \in {"cite", "reported"},
           audit'.points = audit.points, audit'.cadence = audit.cadence
    PROVE  CadenceFitsEverySignal'
BY DEF CadenceFitsEverySignal, Of, Sufficient

LEMMA FitsStep ==
    ASSUME AuditFits, [ExperimentNext]_experimentVars
    PROVE  CadenceFitsEverySignal'
<1>1. CASE UNCHANGED cadenceVars
    <2>1. audit' = audit
        BY <1>1 DEF cadenceVars
    <2> QED
        BY <2>1, FitsElsewhere DEF AuditFits
<1>2. CASE \E b \in Backfills : Backfill(b[1], b[2])
    <2>1. audit' = audit
        BY <1>2 DEF Backfill
    <2> QED
        BY <2>1, FitsElsewhere DEF AuditFits
<1>3. ASSUME audit'.stage \notin {"cite", "reported"} PROVE CadenceFitsEverySignal'
    BY <1>3 DEF CadenceFitsEverySignal
<1>4. ASSUME audit.stage \in AuditStages PROVE DOMAIN audit = AuditFields /\ AuditTypes
    BY <1>4, AuditInHand DEF AuditFits, AuditTypes
<1>5. CASE \E manifest \in AuditManifests : StartAudit(manifest)
    <2>1. audit'.stage = "state"
        BY <1>5 DEF StartAudit
    <2> QED
        BY <1>3, <2>1
<1>6. CASE LoadSeries
    <2>1. audit'.stage = "state"
        BY <1>4, <1>6 DEF LoadSeries, AuditStages, AuditFields
    <2> QED
        BY <1>3, <2>1
<1>7. CASE LoadFeed
    <2>1. audit'.stage = "search"
        BY <1>4, <1>7 DEF LoadFeed, AuditStages, AuditFields
    <2> QED
        BY <1>3, <2>1
<1>8. CASE LoadSearch
    <2>1. audit'.stage = "evaluate"
        BY <1>4, <1>8 DEF LoadSearch, AuditStages, AuditFields
    <2> QED
        BY <1>3, <2>1
<1>9. CASE Evaluate
    <2>1. DOMAIN audit = AuditFields /\ AuditTypes
        BY <1>4, <1>9 DEF Evaluate, AuditStages
    <2>2. CASE audit'.stage \notin {"cite", "reported"}
        BY <1>3, <2>2
    <2>3. CASE audit'.stage \in {"cite", "reported"}
        <3>1. DailyIdentity
            BY <1>9, <2>1, <2>3 DEF Evaluate, AuditFields
        <3>2. /\ audit'.points = audit.points
              /\ audit'.cadence = [c \in {"catalogue_metadata", "game_page"} |->
                                      CapabilityCadence(c)]
            BY <1>9, <2>1, <2>3 DEF Evaluate, AuditFields
        <3>3. \A c \in Capabilities : CadenceFits(c, audit'.cadence[c])
            BY <2>1, <3>1, <3>2, EvaluatedCadenceFits DEF Capabilities
        <3>4. \A c \in Capabilities : CadenceFits(c, audit.cadence[c])'
            BY <3>2, <3>3 DEF CadenceFits, Of, Sufficient
        <3> QED
            BY <3>4, Zenon DEF CadenceFitsEverySignal, CadenceFits, Capabilities
    <2> QED
        BY <2>2, <2>3
<1>10. CASE Cite
    <2>1. /\ audit.stage = "cite" /\ audit'.points = audit.points
          /\ audit'.cadence = audit.cadence
        BY <1>4, <1>10 DEF Cite, AuditStages, AuditFields
    <2> QED
        BY <2>1, FitsElsewhere DEF AuditFits
<1>11. CASE Publish
    <2>1. /\ audit.stage = "cite" /\ audit'.points = audit.points
          /\ audit'.cadence = audit.cadence
        BY <1>4, <1>11 DEF Publish, AuditStages, AuditFields
    <2> QED
        BY <2>1, FitsElsewhere DEF AuditFits
<1> QED
    BY <1>1, <1>2, <1>5, <1>6, <1>7, <1>8, <1>9, <1>10, <1>11
    DEF ExperimentNext, CadenceNext, experimentVars

(* Whatever cadence is recommended for a kind of evidence, each signal it   *)
(* stands for would be kept right by it nearly everywhere, none is          *)
(* recommended only where a sample is too small, and media never decide     *)
(* that, for any listings, intervals, checkpoints and histories.            *)
THEOREM CadencesAlwaysFit == ExperimentSpec => []CadenceFitsEverySignal
<1>1. ExperimentInit => AuditFits
    <2>1. ExperimentInit => CadenceFitsEverySignal
        BY DEF ExperimentInit, CadenceInit, Idle, CadenceFitsEverySignal
    <2> QED
        BY <2>1, FreshInit DEF AuditFits
<1>2. AuditFits /\ [ExperimentNext]_experimentVars => AuditFits'
    BY FreshStep, FitsStep DEF AuditFits
<1>3. AuditFits => CadenceFitsEverySignal
    BY DEF AuditFits
<1> QED
    BY <1>1, <1>2, <1>3, PTL DEF ExperimentSpec

---------------------------------------------------------------------------
(* Sums and powers, which are defined by recursion on a finite domain.      *)

IsSum(sum, terms, n) ==
    sum = [k \in 0..n |-> IF k = 0 THEN 0 ELSE sum[k - 1] + terms[k]]

LEMMA SumExists ==
    ASSUME NEW terms, NEW n \in Nat
    PROVE  \E sum : IsSum(sum, terms, n)
<1> DEFINE Missing == {m \in Nat : ~\E sum : IsSum(sum, terms, m)}
<1> SUFFICES ASSUME Missing # {} PROVE FALSE
    OBVIOUS
<1>1. PICK m \in Missing : \A j \in Missing : m <= j
    BY LeastNaturalExists
<1>2. CASE m = 0
    <2>1. IsSum([k \in 0..0 |-> 0], terms, 0)
        BY DEF IsSum
    <2> QED
        BY <1>1, <1>2, <2>1
<1>3. CASE m # 0
    <2>1. m \in Nat /\ m - 1 \in Nat /\ m - 1 \notin Missing
        BY <1>1, <1>3
    <2>2. PICK sum : IsSum(sum, terms, m - 1)
        BY <2>1
    <2> DEFINE next == [k \in 0..m |-> IF k = m THEN sum[m - 1] + terms[m] ELSE sum[k]]
    <2>3. \A k \in 0..(m - 1) : sum[k] = IF k = 0 THEN 0 ELSE sum[k - 1] + terms[k]
        BY <2>2, Zenon DEF IsSum
    <2>4. \A k \in 0..m : next[k] = IF k = 0 THEN 0 ELSE next[k - 1] + terms[k]
        BY <1>3, <2>1, <2>3
    <2>5. IsSum(next, terms, m)
        BY <2>4 DEF IsSum
    <2> QED
        BY <1>1, <2>5
<1> QED
    BY <1>2, <1>3

LEMMA TotalIsANumber ==
    ASSUME NEW terms, NEW n \in Nat, Len(terms) = n, \A k \in 1..n : terms[k] \in Int
    PROVE  Total(terms) \in Int
<1> DEFINE sum == CHOOSE sum : IsSum(sum, terms, n)
<1>1. Total(terms) = sum[n]
    BY DEF Total, IsSum
<1>2. IsSum(sum, terms, n)
    BY SumExists
<1>3. \A k \in 0..n : sum[k] = IF k = 0 THEN 0 ELSE sum[k - 1] + terms[k]
    BY <1>2, Zenon DEF IsSum
<1> HIDE DEF sum
<1> DEFINE Wrong == {m \in 0..n : sum[m] \notin Int}
<1>4. Wrong = {}
    <2> SUFFICES ASSUME Wrong # {} PROVE FALSE
        OBVIOUS
    <2>1. PICK m \in Wrong : \A j \in Wrong : m <= j
        <3>1. Wrong \in SUBSET Nat
            OBVIOUS
        <3> QED
            BY <3>1, LeastNaturalExists
    <2>2. m # 0
        BY <1>3, <2>1
    <2>3. m \in 1..n /\ m - 1 \in 0..n /\ m - 1 \notin Wrong
        BY <2>1, <2>2
    <2>4. sum[m - 1] \in Int
        BY <2>3
    <2> QED
        BY <1>3, <2>1, <2>3, <2>4
<1> QED
    BY <1>1, <1>4

IsPower(power, n) ==
    power = [k \in 0..n |-> IF k = 0 THEN Unit ELSE (power[k - 1] * 9) \div 10]

LEMMA PowerExists ==
    ASSUME NEW n \in Nat
    PROVE  \E power : IsPower(power, n)
<1> DEFINE Missing == {m \in Nat : ~\E power : IsPower(power, m)}
<1> SUFFICES ASSUME Missing # {} PROVE FALSE
    OBVIOUS
<1>1. PICK m \in Missing : \A j \in Missing : m <= j
    BY LeastNaturalExists
<1>2. CASE m = 0
    <2>1. IsPower([k \in 0..0 |-> Unit], 0)
        BY DEF IsPower
    <2> QED
        BY <1>1, <1>2, <2>1
<1>3. CASE m # 0
    <2>1. m \in Nat /\ m - 1 \in Nat /\ m - 1 \notin Missing
        BY <1>1, <1>3
    <2>2. PICK power : IsPower(power, m - 1)
        BY <2>1
    <2> DEFINE next == [k \in 0..m |-> IF k = m THEN (power[m - 1] * 9) \div 10 ELSE power[k]]
    <2>3. \A k \in 0..(m - 1) : power[k] = IF k = 0 THEN Unit ELSE (power[k - 1] * 9) \div 10
        BY <2>2, Zenon DEF IsPower
    <2>4. \A k \in 0..m : next[k] = IF k = 0 THEN Unit ELSE (next[k - 1] * 9) \div 10
        BY <1>3, <2>1, <2>3
    <2>5. IsPower(next, m)
        BY <2>4 DEF IsPower
    <2> QED
        BY <1>1, <2>5
<1> QED
    BY <1>2, <1>3

LEMMA PersistenceIsANumber ==
    ASSUME NEW n \in Nat
    PROVE  Persistence(n) \in Int
<1> DEFINE power == CHOOSE power : IsPower(power, n)
<1>1. Persistence(n) = power[n]
    BY DEF Persistence, IsPower
<1>2. IsPower(power, n)
    BY PowerExists
<1>3. \A k \in 0..n : power[k] = IF k = 0 THEN Unit ELSE (power[k - 1] * 9) \div 10
    BY <1>2, Zenon DEF IsPower
<1> HIDE DEF power
<1> DEFINE Wrong == {m \in 0..n : power[m] \notin Int}
<1>4. Wrong = {}
    <2> SUFFICES ASSUME Wrong # {} PROVE FALSE
        OBVIOUS
    <2>1. PICK m \in Wrong : \A j \in Wrong : m <= j
        <3>1. Wrong \in SUBSET Nat
            OBVIOUS
        <3> QED
            BY <3>1, LeastNaturalExists
    <2>2. m # 0
        BY SMT, <1>3, <2>1 DEF Unit
    <2>3. m \in 1..n /\ m - 1 \in 0..n /\ m - 1 \notin Wrong
        BY <2>1, <2>2
    <2>4. power[m - 1] \in Int
        BY <2>3
    <2> QED
        BY <1>3, <2>1, <2>3, <2>4
<1> QED
    BY <1>1, <1>4

---------------------------------------------------------------------------
(* The similarity of two rankings is a number and the same either way.      *)

IsList(list) == list \in Seq(Range(list))

LEMMA TopIsFinite ==
    ASSUME NEW list, IsList(list), NEW depth \in Nat
    PROVE  IsFiniteSet(Top(list, depth)) /\ IsFiniteSet(ToSet(list))
<1> DEFINE n == Len(list)
           m == Min({depth, n})
           first == SubSeq(list, 1, m)
<1>1. n \in Nat /\ DOMAIN list = 1..n
    BY DEF IsList
<1>2. m \in Nat /\ m <= n
    BY <1>1 DEF Min
<1>3. DOMAIN first = 1..m
    <2> HIDE DEF m
    <2> QED
        BY <1>1, <1>2 DEF IsList
<1>4. IsFiniteSet(1..m) /\ IsFiniteSet(1..n)
    <2> HIDE DEF m, n
    <2> QED
        BY <1>1, <1>2, FS_Interval
<1>5. \A f : DOMAIN f \in {1..m, 1..n} => IsFiniteSet(ToSet(f))
    <2> SUFFICES ASSUME NEW f, DOMAIN f \in {1..m, 1..n} PROVE IsFiniteSet(ToSet(f))
        OBVIOUS
    <2>1. [i \in DOMAIN f |-> f[i]] \in Surjection(DOMAIN f, ToSet(f))
        BY DEF Surjection, ToSet
    <2>2. IsFiniteSet(DOMAIN f)
        BY <1>4
    <2> QED
        BY <2>1, <2>2, FS_Surjection
<1>6. Top(list, depth) = ToSet(first)
    BY DEF Top
<1> HIDE DEF first, m, n
<1> QED
    BY <1>1, <1>3, <1>5, <1>6

LEMMA JaccardIsANumber ==
    ASSUME NEW a, NEW b, IsList(a), IsList(b)
    PROVE  Jaccard(a, b) \in Int
<1> DEFINE union == ToSet(a) \cup ToSet(b)
           common == ToSet(a) \cap ToSet(b)
<1>1. IsFiniteSet(union) /\ IsFiniteSet(common)
    BY TopIsFinite, FS_Union, FS_Intersection
<1>2. Cardinality(union) \in Nat /\ Cardinality(common) \in Nat
      /\ (Cardinality(union) = 0 <=> union = {})
    BY <1>1, FS_CardinalityType, FS_EmptySet
<1>3. Jaccard(a, b) = IF union = {} THEN Unit ELSE Share(Cardinality(common), Cardinality(union))
    BY DEF Jaccard
<1> HIDE DEF union, common
<1> QED
    BY SMT, <1>2, <1>3 DEF Share, Unit

LEMMA RankedOverlapIsANumber ==
    ASSUME NEW a, NEW b, IsList(a), IsList(b)
    PROVE  RankedOverlap(a, b) \in Int
<1> DEFINE limit == Max({Len(a), Len(b)})
           Overlap(depth) == Cardinality(Top(a, depth) \cap Top(b, depth))
           Weight(depth) == Persistence(depth - 1) \div 10
           terms == [depth \in 1..limit |-> (Weight(depth) * Overlap(depth)) \div depth]
<1>1. limit \in Nat
    <2>1. Len(a) \in Nat /\ Len(b) \in Nat
        BY DEF IsList
    <2> QED
        BY <2>1 DEF Max
<1>2. \A depth \in Nat : Overlap(depth) \in Nat
    BY TopIsFinite, FS_Intersection, FS_CardinalityType
<1>3. Unit \in Int
    BY SMT DEF Unit
<1> HIDE DEF limit, Overlap
<1>4. ASSUME NEW depth \in 1..limit PROVE terms[depth] \in Int
    <2>1. depth - 1 \in Nat /\ depth \in Nat \ {0}
        BY <1>1
    <2>2. Persistence(depth - 1) \in Int /\ Overlap(depth) \in Int
        BY <1>2, <2>1, PersistenceIsANumber
    <2>3. terms[depth] = ((Persistence(depth - 1) \div 10) * Overlap(depth)) \div depth
        OBVIOUS
    <2> HIDE DEF terms, Weight
    <2> QED
        BY <2>1, <2>2, <2>3
<1>5. Total(terms) \in Int
    <2>1. Len(terms) = limit
        BY <1>1
    <2> HIDE DEF terms
    <2> QED
        BY <1>1, <1>4, <2>1, TotalIsANumber
<1>6. RankedOverlap(a, b) = IF limit = 0 THEN Unit
                            ELSE Total(terms) + (Persistence(limit) * Overlap(limit)) \div limit
    BY DEF RankedOverlap, limit, Overlap
<1> HIDE DEF terms, Weight
<1>7. Persistence(limit) \in Int /\ Overlap(limit) \in Int
    BY <1>1, <1>2, PersistenceIsANumber
<1> QED
    BY <1>1, <1>3, <1>5, <1>6, <1>7

LEMMA SimilarityIsANumber ==
    ASSUME NEW a, NEW b, IsList(a), IsList(b), NEW measure
    PROVE  Similarity(measure, a, b) \in Int
BY JaccardIsANumber, RankedOverlapIsANumber DEF Similarity

LEMMA RankedOverlapIsSymmetric ==
    ASSUME NEW a, NEW b
    PROVE  RankedOverlap(a, b) = RankedOverlap(b, a)
<1>1. {Len(a), Len(b)} = {Len(b), Len(a)}
    OBVIOUS
<1>2. \A depth : Top(a, depth) \cap Top(b, depth) = Top(b, depth) \cap Top(a, depth)
    OBVIOUS
<1> QED
    BY <1>1, <1>2 DEF RankedOverlap

LEMMA SimilarityIsSymmetric ==
    ASSUME NEW a, NEW b, NEW measure
    PROVE  Similarity(measure, a, b) = Similarity(measure, b, a)
<1>1. /\ ToSet(a) \cup ToSet(b) = ToSet(b) \cup ToSet(a)
      /\ ToSet(a) \cap ToSet(b) = ToSet(b) \cap ToSet(a)
    OBVIOUS
<1> QED
    BY <1>1, RankedOverlapIsSymmetric DEF Similarity, Jaccard

---------------------------------------------------------------------------
(* The rankings of stored runs are finite lists.                            *)

LEMMA RankingIsAList ==
    ASSUME NEW run, run.pages \in Seq(StoredPage), NEW depth \in Nat
    PROVE  IsList(Ranking(run, depth))
<1> DEFINE m == Min({depth, Len(run.pages)})
           Page(i) == {i} \X DOMAIN run.pages[i].games
           Pages == {Page(i) : i \in 1..m}
           ranked == Ranked(run, depth)
           n == Cardinality(ranked)
<1>1. m \in Nat /\ m <= Len(run.pages)
    BY DEF Min
<1>2. ASSUME NEW i \in 1..m PROVE IsFiniteSet(Page(i))
    <2>1. run.pages[i] \in StoredPage
        BY <1>1
    <2>2. run.pages[i].games \in Seq(StoredGame)
        BY <2>1 DEF StoredPage
    <2>3. /\ DOMAIN run.pages[i].games = 1..Len(run.pages[i].games)
          /\ Len(run.pages[i].games) \in Nat
        BY <2>2
    <2>4. IsFiniteSet(DOMAIN run.pages[i].games)
        <3>1. \A k \in Nat : IsFiniteSet(1..k)
            BY FS_Interval
        <3> QED
            BY <2>3, <3>1
    <2> QED
        BY <2>4, FS_Singleton, FS_Product
<1>3. IsFiniteSet(Pages)
    <2> HIDE DEF m, Page
    <2>1. [i \in 1..m |-> Page(i)] \in Surjection(1..m, Pages)
        BY DEF Surjection
    <2>2. IsFiniteSet(1..m)
        BY <1>1, FS_Interval
    <2> QED
        BY <2>1, <2>2, FS_Surjection
<1>4. IsFiniteSet(UNION Pages)
    BY <1>2, <1>3, FS_UNION
<1>5. ranked \in SUBSET UNION Pages
    <2>1. Places(run, depth) = UNION Pages
        BY DEF Places
    <2> QED
        BY <2>1 DEF Ranked
<1>6. n \in Nat
    BY <1>4, <1>5, FS_Subset, FS_CardinalityType
<1> DEFINE Place(k) == CHOOSE at \in ranked : Cardinality({b \in ranked : Above(b, at)}) = k - 1
           list == [k \in 1..n |-> Shown(run, Place(k)).app]
<1>7. Ranking(run, depth) = list
    BY DEF Ranking
<1> HIDE DEF n, Place
<1>8. list \in Seq(Range(list))
    BY <1>6 DEF Range
<1> QED
    BY <1>7, <1>8 DEF IsList

---------------------------------------------------------------------------
(* What a verdict says of the sample it was reached on.                     *)

IsObservation(seen) ==
    seen.started \in Int /\ \A d \in Candidates : IsList(seen.rankings[d])
IsTrial(seen) == IsObservation(seen) /\ seen.rankings[Limit] # << >>
IsBlock(seen) ==
    /\ DOMAIN seen = {"runs", "started", "order", "session", "clean", "persistent"}
    /\ seen.started \in Int
    /\ \A pair \in {seen.clean, seen.persistent} : \A i \in {1, 2} : IsObservation(pair[i])

AreTrials(trials) == IsList(trials) /\ \A i \in DOMAIN trials : IsTrial(trials[i])
AreBlocks(blocks) == IsList(blocks) /\ \A i \in DOMAIN blocks : IsBlock(blocks[i])

LEMMA DepthsAreNumbers ==
    Candidates \subseteq Nat \ {0} /\ Limit \in Candidates
BY DepthsAssumption DEF Candidates, Limit, Last, ToSet

LEMMA ListsAreSamples ==
    ASSUME NEW list, IsList(list), list # << >>, NEW f, DOMAIN f = DOMAIN list,
           \A i \in DOMAIN f : f[i] \in Int
    PROVE  Sample(f) /\ Size(f) = Len(list) /\ DOMAIN f = 1..Len(list) /\ Len(list) \in Nat
<1>1. Len(list) \in Nat /\ DOMAIN list = 1..Len(list) /\ Len(list) # 0
    BY DEF IsList
<1>2. IsFiniteSet(1..Len(list)) /\ Cardinality(1..Len(list)) = Len(list)
    BY <1>1, FS_Interval
<1> QED
    BY <1>1, <1>2 DEF Sample, Size

LEMMA WholeShare ==
    ASSUME NEW n \in Nat \ {0}
    PROVE  Share(n, n) = Unit
<1>1. \A u \in Nat : (n * u) \div n = u
    BY SMTT(20)
<1>2. Unit \in Nat
    BY SMT DEF Unit
<1> QED
    BY SMT, <1>1, <1>2 DEF Share

LEMMA DepthVerdictHolds ==
    ASSUME NEW trials, AreTrials(trials), trials # << >>,
           NEW verdict, verdict = DepthVerdict(trials), verdict # 0
    PROVE  /\ Cardinality({i \in 1..Len(trials) :
                              Coverage(trials[i], verdict) < Hundredths(85)}) <= Few(Len(trials))
           /\ \A d \in Candidates : d < verdict => ~DepthPasses(trials, d)
<1> DEFINE n == Len(trials)
           passing == {d \in Candidates \ {Limit} : DepthPasses(trials, d)}
           f == Coverages(trials, verdict)
<1>1. verdict = Min(passing \cup {Limit})
    BY DEF DepthVerdict, RecommendedDepth
<1>2. verdict \in passing \cup {Limit} /\ \A d \in passing \cup {Limit} : verdict <= d
    <2>1. passing \cup {Limit} \in SUBSET Nat
        BY DepthsAreNumbers
    <2> QED
        BY <1>1, <2>1, MinExists
<1>3. verdict \in Candidates /\ verdict \in Nat
    BY <1>2, DepthsAreNumbers
<1>4. ASSUME NEW d \in Candidates, d < verdict PROVE ~DepthPasses(trials, d)
    <2>1. d # Limit
        BY <1>2, <1>3, <1>4, DepthsAreNumbers
    <2> QED
        BY <1>2, <1>3, <1>4, <2>1, DepthsAreNumbers
<1>5. ASSUME NEW i \in DOMAIN trials PROVE Coverage(trials[i], verdict) \in Int
    <2>1. IsList(trials[i].rankings[verdict]) /\ IsList(trials[i].rankings[Limit])
          /\ trials[i].rankings[Limit] # << >>
        BY <1>3, DepthsAreNumbers DEF AreTrials, IsTrial, IsObservation
    <2>2. Len(trials[i].rankings[verdict]) \in Nat /\ Len(trials[i].rankings[Limit]) \in Nat \ {0}
        BY <2>1 DEF IsList
    <2> QED
        BY SMT, <2>2 DEF Coverage, Share, Unit
<1>6. /\ Sample(f) /\ Size(f) = n /\ DOMAIN trials = 1..n
      /\ \A i \in 1..n : f[i] = Coverage(trials[i], verdict)
    <2>1. DOMAIN f = DOMAIN trials /\ \A i \in DOMAIN f : f[i] = Coverage(trials[i], verdict)
        BY DEF Coverages
    <2> HIDE DEF f
    <2> QED
        BY <1>5, <2>1, ListsAreSamples DEF AreTrials
<1>7. Hundredths(85) \in Int
    BY SMT DEF Hundredths, Unit
<1>8. {i \in 1..n : Coverage(trials[i], verdict) < Hundredths(85)} = Under(f, Hundredths(85))
    BY <1>6 DEF Under, Coverages
<1>9. CASE verdict \in passing
    <2>1. Quartile(f, 1) >= Hundredths(85)
        BY <1>9 DEF DepthPasses
    <2> QED
        BY <1>4, <1>6, <1>7, <1>8, <2>1, FewUnderTheFirstQuartile
<1>10. CASE verdict = Limit
    <2>1. \A i \in 1..n : Coverage(trials[i], verdict) = Unit
        <3> SUFFICES ASSUME NEW i \in 1..n PROVE Coverage(trials[i], verdict) = Unit
            OBVIOUS
        <3>1. IsList(trials[i].rankings[Limit]) /\ trials[i].rankings[Limit] # << >>
            BY <1>6, DepthsAreNumbers DEF AreTrials, IsTrial, IsObservation
        <3>2. Len(trials[i].rankings[Limit]) \in Nat \ {0}
            BY <3>1 DEF IsList
        <3> QED
            BY <1>10, <3>2, WholeShare DEF Coverage
    <2>2. Under(f, Hundredths(85)) = {}
        <3>1. ~(Unit < Hundredths(85))
            BY SMT DEF Hundredths, Unit
        <3>2. DOMAIN f = 1..n
            BY <1>6 DEF Coverages
        <3>3. \A i \in 1..n : f[i] = Unit
            BY <1>6, <2>1
        <3> HIDE DEF f
        <3> QED
            BY <3>1, <3>2, <3>3 DEF Under
    <2>3. Few(n) >= 0
        BY <1>6, SidesAdd DEF Few
    <2> QED
        BY <1>4, <1>8, <2>2, <2>3, FS_EmptySet
<1> QED
    BY <1>2, <1>9, <1>10

LEMMA PairIsFinite == \A x, y : IsFiniteSet({x, y})
<1> SUFFICES ASSUME NEW x, NEW y PROVE IsFiniteSet({x, y})
    OBVIOUS
<1>1. IsFiniteSet({x})
    BY FS_Singleton
<1>2. IsFiniteSet({x} \cup {y})
    BY <1>1, FS_AddElement, Zenon
<1>3. {x} \cup {y} = {x, y}
    OBVIOUS
<1> QED
    BY <1>2, <1>3

LEMMA GapIsANumber ==
    ASSUME NEW block, IsBlock(block), NEW measure, NEW d \in Candidates
    PROVE  Gap(block, measure, d) \in Int
<1> DEFINE Near(pair) == Similarity(measure, pair[1].rankings[d], pair[2].rankings[d])
           crossing == [p \in {1, 2} \X {1, 2} |->
               Similarity(measure, block.clean[p[1]].rankings[d], block.persistent[p[2]].rankings[d])]
<1>1. \A pair \in {block.clean, block.persistent} : \A i \in {1, 2} : IsList(pair[i].rankings[d])
    BY DEF IsBlock, IsObservation
<1>2. Near(block.clean) \in Int /\ Near(block.persistent) \in Int
    BY <1>1, SimilarityIsANumber
<1>3. Baseline(block, measure, d) \in Int
    <2>1. Baseline(block, measure, d) = Min({Near(block.clean), Near(block.persistent)})
        <3>1. {Near(pair) : pair \in {block.clean, block.persistent}}
                = {Near(block.clean), Near(block.persistent)}
            OBVIOUS
        <3> QED
            BY <3>1 DEF Baseline, SameProfile
    <2> HIDE DEF Near
    <2> QED
        BY <1>2, <2>1 DEF Min
<1>4. Cross(block, measure, d) \in Int
    <2>1. \A p \in {1, 2} \X {1, 2} : crossing[p] \in Int
        BY <1>1, SimilarityIsANumber
    <2>2. IsFiniteSet({1, 2} \X {1, 2}) /\ <<1, 1>> \in {1, 2} \X {1, 2}
        BY PairIsFinite, FS_Product
    <2>3. Sample(crossing)
        BY <2>1, <2>2 DEF Sample
    <2> QED
        BY <2>3, MedianIsANumber DEF Cross
<1>5. Gap(block, measure, d) = Max({0, Baseline(block, measure, d) - Cross(block, measure, d)})
    BY DEF Gap
<1>6. \A x \in Int : Max({0, x}) \in Int
    BY DEF Max
<1> QED
    BY <1>3, <1>4, <1>5, <1>6

LEMMA ProfileVerdictHolds ==
    ASSUME NEW blocks, AreBlocks(blocks), blocks # << >>,
           NEW d \in Candidates, NEW measure \in Measures, ProfileVerdict(blocks)[d] = "stable"
    PROVE  Cardinality({i \in 1..Len(blocks) : Gap(blocks[i], measure, d) > Hundredths(15)})
               <= Few(Len(blocks))
<1> DEFINE n == Len(blocks)
           f == [i \in DOMAIN blocks |-> Gap(blocks[i], measure, d)]
<1>1. Classification(blocks, d) = "stable"
    BY DEF ProfileVerdict
<1>2. Quartile(f, 3) <= Hundredths(15)
    BY <1>1 DEF Classification, Tolerable
<1>3. \A i \in DOMAIN blocks : Gap(blocks[i], measure, d) \in Int
    BY GapIsANumber DEF AreBlocks
<1>4. /\ DOMAIN f = DOMAIN blocks
      /\ \A i \in DOMAIN blocks : f[i] = Gap(blocks[i], measure, d) /\ f[i] \in Int
    BY <1>3
<1> HIDE DEF f
<1>5. Sample(f) /\ Size(f) = n /\ DOMAIN f = 1..n
    BY <1>4, ListsAreSamples DEF AreBlocks
<1>6. Hundredths(15) \in Int
    BY SMT DEF Hundredths, Unit
<1>7. Cardinality(Over(f, Hundredths(15))) <= Few(n)
    BY <1>2, <1>5, <1>6, FewOverTheThirdQuartile
<1>8. Over(f, Hundredths(15)) = {i \in 1..n : Gap(blocks[i], measure, d) > Hundredths(15)}
    BY <1>4, <1>5 DEF Over
<1> QED
    BY <1>7, <1>8

---------------------------------------------------------------------------
(* The order of a sample makes no difference to its statistics.             *)

(* One sample is the other with its members renamed.                        *)
Renames(rename, f, g) ==
    /\ rename \in Bijection(DOMAIN f, DOMAIN g)
    /\ \A m \in DOMAIN f : f[m] = g[rename[m]]

LEMMA RenamedParts ==
    ASSUME NEW f, NEW g, NEW rename, Renames(rename, f, g), IsFiniteSet(DOMAIN f),
           NEW part \in SUBSET DOMAIN f, NEW other \in SUBSET DOMAIN g,
           \A m \in DOMAIN f : m \in part <=> rename[m] \in other
    PROVE  Cardinality(part) = Cardinality(other)
<1> DEFINE h == [m \in part |-> rename[m]]
<1>1. /\ \A m \in DOMAIN f : rename[m] \in DOMAIN g
      /\ \A m, k \in DOMAIN f : rename[m] = rename[k] => m = k
      /\ \A p \in DOMAIN g : \E m \in DOMAIN f : rename[m] = p
    BY Zenon DEF Renames, Bijection, Injection, Surjection, IsInjective
<1>2. h \in Bijection(part, other)
    <2>1. h \in [part -> other]
        BY <1>1
    <2>2. \A a, b \in part : h[a] = h[b] => a = b
        BY <1>1
    <2>3. \A p \in other : \E m \in part : h[m] = p
        BY <1>1
    <2> HIDE DEF h
    <2> QED
        BY <2>1, <2>2, <2>3 DEF Bijection, Injection, Surjection, IsInjective
<1>3. IsFiniteSet(part)
    BY FS_Subset
<1> QED
    BY <1>2, <1>3, FS_Bijection DEF ExistsBijection

LEMMA RenamedStatistics ==
    ASSUME NEW f, NEW g, NEW rename, Renames(rename, f, g), IsFiniteSet(DOMAIN f)
    PROVE  /\ Size(f) = Size(g) /\ IsFiniteSet(DOMAIN g)
           /\ \A k : Smallest(f, k) = Smallest(g, k)
           /\ Median(f) = Median(g)
           /\ \A q : Quartile(f, q) = Quartile(g, q)
<1>1. /\ \A m \in DOMAIN f : rename[m] \in DOMAIN g
      /\ \A p \in DOMAIN g : \E m \in DOMAIN f : rename[m] = p
      /\ \A m \in DOMAIN f : f[m] = g[rename[m]]
    BY Zenon DEF Renames, Bijection, Injection, Surjection
<1>2. Size(f) = Size(g) /\ IsFiniteSet(DOMAIN g)
    BY FS_Bijection DEF Renames, Size, ExistsBijection
<1>3. Range(f) = Range(g)
    BY <1>1 DEF Range
<1>4. ASSUME NEW v
      PROVE  /\ Cardinality({m \in DOMAIN f : f[m] < v}) = Cardinality({m \in DOMAIN g : g[m] < v})
             /\ Cardinality({m \in DOMAIN f : f[m] <= v}) = Cardinality({m \in DOMAIN g : g[m] <= v})
    <2> DEFINE part == {m \in DOMAIN f : f[m] < v}
               other == {m \in DOMAIN g : g[m] < v}
               part2 == {m \in DOMAIN f : f[m] <= v}
               other2 == {m \in DOMAIN g : g[m] <= v}
    <2>1. part \in SUBSET DOMAIN f /\ other \in SUBSET DOMAIN g
          /\ \A m \in DOMAIN f : m \in part <=> rename[m] \in other
        BY <1>1
    <2>2. part2 \in SUBSET DOMAIN f /\ other2 \in SUBSET DOMAIN g
          /\ \A m \in DOMAIN f : m \in part2 <=> rename[m] \in other2
        BY <1>1
    <2> HIDE DEF part, other, part2, other2
    <2>3. Cardinality(part) = Cardinality(other) /\ Cardinality(part2) = Cardinality(other2)
        BY <2>1, <2>2, RenamedParts
    <2> QED
        BY <2>3 DEF part, other, part2, other2
<1>5. \A k : Smallest(f, k) = Smallest(g, k)
    BY <1>3, <1>4, Zenon DEF Smallest
<1> QED
    BY <1>2, <1>5, Zenon DEF Median, Quartile

LEMMA OrdersAreRenamings ==
    ASSUME NEW a, NEW b, IsList(a), IsList(b), IsInjective(a), IsInjective(b),
           ToSet(a) = ToSet(b)
    PROVE  /\ IsFiniteSet(DOMAIN a) /\ Len(a) = Len(b) /\ (a = << >> <=> b = << >>)
           /\ \E rename : Renames(rename, a, b)
<1> DEFINE rename == [m \in DOMAIN a |-> CHOOSE k \in DOMAIN b : b[k] = a[m]]
<1>1. \A m \in DOMAIN a : \E k \in DOMAIN b : b[k] = a[m]
    BY DEF ToSet
<1>2. \A m \in DOMAIN a : rename[m] \in DOMAIN b /\ b[rename[m]] = a[m]
    BY <1>1
<1>3. \A k \in DOMAIN b : \E m \in DOMAIN a : rename[m] = k
    <2> SUFFICES ASSUME NEW k \in DOMAIN b PROVE \E m \in DOMAIN a : rename[m] = k
        OBVIOUS
    <2>1. PICK m \in DOMAIN a : a[m] = b[k]
        BY DEF ToSet
    <2>2. rename[m] \in DOMAIN b /\ b[rename[m]] = b[k]
        BY <1>2, <2>1
    <2>3. rename[m] = k
        BY <2>2, Zenon DEF IsInjective
    <2> QED
        BY <2>3
<1>4. \A m, k \in DOMAIN a : rename[m] = rename[k] => m = k
    <2> SUFFICES ASSUME NEW m \in DOMAIN a, NEW k \in DOMAIN a, rename[m] = rename[k]
                 PROVE  m = k
        OBVIOUS
    <2>1. a[m] = a[k]
        BY <1>2
    <2> QED
        BY <2>1, Zenon DEF IsInjective
<1>5. DOMAIN rename = DOMAIN a /\ rename \in [DOMAIN a -> DOMAIN b]
    BY <1>2
<1> HIDE DEF rename
<1>6. Renames(rename, a, b)
    BY <1>2, <1>3, <1>4, <1>5 DEF Renames, Bijection, Injection, Surjection, IsInjective
<1>7. /\ Len(a) \in Nat /\ DOMAIN a = 1..Len(a)
      /\ Len(b) \in Nat /\ DOMAIN b = 1..Len(b)
    BY DEF IsList
<1>8. \A n \in Nat : IsFiniteSet(1..n) /\ Cardinality(1..n) = n
    BY FS_Interval
<1>9. Cardinality(DOMAIN b) = Cardinality(DOMAIN a)
    BY <1>6, <1>7, <1>8, FS_Bijection DEF Renames, ExistsBijection
<1>10. Len(a) = Len(b)
    BY <1>7, <1>8, <1>9
<1>11. a = << >> <=> b = << >>
    BY <1>7, <1>10 DEF IsList
<1> QED
    BY <1>6, <1>7, <1>8, <1>10, <1>11

(* The values of a reordered list are a renamed sample.                     *)
LEMMA RenamedValues ==
    ASSUME NEW a, NEW b, NEW rename, Renames(rename, a, b), IsFiniteSet(DOMAIN a),
           NEW f, NEW g, DOMAIN f = DOMAIN a, DOMAIN g = DOMAIN b,
           \A m \in DOMAIN a : f[m] = g[rename[m]]
    PROVE  Median(f) = Median(g) /\ \A q : Quartile(f, q) = Quartile(g, q)
<1>1. Renames(rename, f, g)
    BY DEF Renames
<1> QED
    BY <1>1, RenamedStatistics

LEMMA RenamedPairs ==
    ASSUME NEW a, NEW b, NEW rename, Renames(rename, a, b), IsList(a), IsList(b),
           NEW d
    PROVE  RankStability(a, d) = RankStability(b, d)
<1> DEFINE f == [p \in Pairs(a) |-> RankedOverlap(a[p[1]].rankings[d], a[p[2]].rankings[d])]
           g == [p \in Pairs(b) |-> RankedOverlap(b[p[1]].rankings[d], b[p[2]].rankings[d])]
           Ordered(m, k) == IF m < k THEN <<m, k>> ELSE <<k, m>>
           pair == [p \in Pairs(a) |-> Ordered(rename[p[1]], rename[p[2]])]
<1>1. /\ DOMAIN a \subseteq Nat /\ DOMAIN b \subseteq Nat /\ DOMAIN a = 1..Len(a) /\ Len(a) \in Nat
    BY DEF IsList
<1>2. /\ \A m \in DOMAIN a : rename[m] \in DOMAIN b /\ a[m] = b[rename[m]]
      /\ \A m, k \in DOMAIN a : rename[m] = rename[k] => m = k
      /\ \A k \in DOMAIN b : \E m \in DOMAIN a : rename[m] = k
    BY Zenon DEF Renames, Bijection, Injection, Surjection, IsInjective
<1>3. \A p \in Pairs(a) : p[1] \in DOMAIN a /\ p[2] \in DOMAIN a /\ p[1] < p[2]
                          /\ p = <<p[1], p[2]>>
    BY DEF Pairs
<1>4. \A p \in Pairs(a) : pair[p] \in Pairs(b)
    <2> SUFFICES ASSUME NEW p \in Pairs(a) PROVE pair[p] \in Pairs(b)
        OBVIOUS
    <2>1. /\ p[1] \in DOMAIN a /\ p[2] \in DOMAIN a
          /\ p[1] \in Nat /\ p[2] \in Nat /\ p[1] < p[2]
        BY <1>1, <1>3, Zenon
    <2>2. p[1] # p[2]
        BY <2>1
    <2>3. rename[p[1]] \in DOMAIN b /\ rename[p[2]] \in DOMAIN b /\ rename[p[1]] # rename[p[2]]
        BY <1>2, <2>1, <2>2
    <2> QED
        BY <1>1, <2>3 DEF Pairs
<1>5. \A q \in Pairs(b) : \E p \in Pairs(a) : pair[p] = q
    <2> SUFFICES ASSUME NEW q \in Pairs(b) PROVE \E p \in Pairs(a) : pair[p] = q
        OBVIOUS
    <2>1. q[1] \in DOMAIN b /\ q[2] \in DOMAIN b /\ q[1] < q[2] /\ q = <<q[1], q[2]>>
        BY DEF Pairs
    <2>2. PICK m \in DOMAIN a : rename[m] = q[1]
        BY <1>2, <2>1
    <2>3. PICK k \in DOMAIN a : rename[k] = q[2]
        BY <1>2, <2>1
    <2>4. m # k
        BY <1>1, <2>1, <2>2, <2>3
    <2>5. CASE m < k
        <3>1. <<m, k>> \in Pairs(a)
            BY <2>5 DEF Pairs
        <3>2. pair[<<m, k>>] = q
            BY <2>1, <2>2, <2>3, <3>1
        <3> QED
            BY <3>1, <3>2
    <2>6. CASE k < m
        <3>1. <<k, m>> \in Pairs(a)
            BY <2>6 DEF Pairs
        <3>2. ~(q[2] < q[1])
            BY <1>1, <2>1
        <3>3. pair[<<k, m>>] = q
            BY <2>1, <2>2, <2>3, <3>1, <3>2
        <3> QED
            BY <3>1, <3>3
    <2> QED
        BY <1>1, <2>4, <2>5, <2>6
<1>6. \A p, q \in Pairs(a) : pair[p] = pair[q] => p = q
    <2> SUFFICES ASSUME NEW p \in Pairs(a), NEW q \in Pairs(a), pair[p] = pair[q] PROVE p = q
        OBVIOUS
    <2>1. \/ rename[p[1]] = rename[q[1]] /\ rename[p[2]] = rename[q[2]]
          \/ rename[p[1]] = rename[q[2]] /\ rename[p[2]] = rename[q[1]]
        OBVIOUS
    <2>2. \/ p[1] = q[1] /\ p[2] = q[2]
          \/ p[1] = q[2] /\ p[2] = q[1]
        BY <1>2, <1>3, <2>1
    <2> QED
        BY <1>1, <1>3, <2>2
<1>7. \A p \in Pairs(a) : f[p] = g[pair[p]]
    <2> SUFFICES ASSUME NEW p \in Pairs(a) PROVE f[p] = g[pair[p]]
        OBVIOUS
    <2>1. /\ a[p[1]] = b[rename[p[1]]] /\ a[p[2]] = b[rename[p[2]]]
        BY <1>2, <1>3
    <2>2. pair[p] \in {<<rename[p[1]], rename[p[2]]>>, <<rename[p[2]], rename[p[1]]>>}
        OBVIOUS
    <2> QED
        BY <1>4, <2>1, <2>2, RankedOverlapIsSymmetric
<1>8. IsFiniteSet(Pairs(a))
    <2>1. \A n \in Nat : IsFiniteSet(1..n)
        BY FS_Interval
    <2>2. IsFiniteSet((DOMAIN a) \X (DOMAIN a))
        BY <1>1, <2>1, FS_Product
    <2>3. Pairs(a) \in SUBSET ((DOMAIN a) \X (DOMAIN a))
        BY DEF Pairs
    <2> QED
        BY <2>2, <2>3, FS_Subset
<1>9. DOMAIN f = Pairs(a) /\ DOMAIN g = Pairs(b) /\ DOMAIN pair = Pairs(a)
      /\ pair \in [Pairs(a) -> Pairs(b)]
    BY <1>4
<1>10. RankStability(a, d) = Median(f) /\ RankStability(b, d) = Median(g)
    BY DEF RankStability
<1> HIDE DEF f, g, pair
<1>11. Renames(pair, f, g)
    BY <1>4, <1>5, <1>6, <1>7, <1>9 DEF Renames, Bijection, Injection, Surjection, IsInjective
<1> QED
    BY <1>8, <1>9, <1>10, <1>11, RenamedStatistics

LEMMA StartsAreOfTheSet ==
    ASSUME NEW a, NEW b, ToSet(a) = ToSet(b)
    PROVE  StartTimes(a) = StartTimes(b)
<1>1. \A list : StartTimes(list) = {seen.started : seen \in ToSet(list)}
    BY DEF StartTimes, ToSet
<1> QED
    BY <1>1

LEMMA DepthVerdictIsOfTheSet ==
    ASSUME NEW a, NEW b, IsList(a), IsList(b), IsInjective(a), IsInjective(b),
           ToSet(a) = ToSet(b)
    PROVE  DepthVerdict(a) = DepthVerdict(b)
<1>1. /\ IsFiniteSet(DOMAIN a) /\ Len(a) = Len(b)
      /\ \E rename : Renames(rename, a, b)
    BY OrdersAreRenamings
<1>2. PICK rename : Renames(rename, a, b)
    BY <1>1
<1>3. \A m \in DOMAIN a : a[m] = b[rename[m]] /\ rename[m] \in DOMAIN b
    BY <1>2, Zenon DEF Renames, Bijection, Injection
<1>4. SufficientTrials(a) <=> SufficientTrials(b)
    BY <1>1, StartsAreOfTheSet DEF SufficientTrials, SpansTime
<1>5. ASSUME NEW d PROVE DepthPasses(a, d) <=> DepthPasses(b, d)
    <2>1. /\ DOMAIN Coverages(a, d) = DOMAIN a /\ DOMAIN Coverages(b, d) = DOMAIN b
          /\ \A m \in DOMAIN a : Coverages(a, d)[m] = Coverages(b, d)[rename[m]]
        BY <1>3 DEF Coverages
    <2>2. /\ DOMAIN MarginalGains(a, d) = DOMAIN a /\ DOMAIN MarginalGains(b, d) = DOMAIN b
          /\ \A m \in DOMAIN a : MarginalGains(a, d)[m] = MarginalGains(b, d)[rename[m]]
        BY <1>3 DEF MarginalGains
    <2>3. /\ Median(Coverages(a, d)) = Median(Coverages(b, d))
          /\ Quartile(Coverages(a, d), 1) = Quartile(Coverages(b, d), 1)
        BY <1>1, <1>2, <2>1, RenamedValues
    <2>4. /\ Median(MarginalGains(a, d)) = Median(MarginalGains(b, d))
          /\ Quartile(MarginalGains(a, d), 1) = Quartile(MarginalGains(b, d), 1)
        BY <1>1, <1>2, <2>2, RenamedValues
    <2>5. RankStability(a, d) = RankStability(b, d) /\ RankStability(a, Limit) = RankStability(b, Limit)
        BY <1>2, RenamedPairs
    <2> QED
        BY <2>3, <2>4, <2>5, Zenon DEF DepthPasses
<1>6. {d \in Candidates \ {Limit} : DepthPasses(a, d)} = {d \in Candidates \ {Limit} : DepthPasses(b, d)}
    BY <1>5
<1> QED
    BY <1>4, <1>6 DEF DepthVerdict, RecommendedDepth

LEMMA ProfileVerdictIsOfTheSet ==
    ASSUME NEW a, NEW b, IsList(a), IsList(b), IsInjective(a), IsInjective(b),
           ToSet(a) = ToSet(b)
    PROVE  ProfileVerdict(a) = ProfileVerdict(b)
<1>1. /\ IsFiniteSet(DOMAIN a) /\ Len(a) = Len(b)
      /\ \E rename : Renames(rename, a, b)
    BY OrdersAreRenamings
<1>2. PICK rename : Renames(rename, a, b)
    BY <1>1
<1>3. \A m \in DOMAIN a : a[m] = b[rename[m]] /\ rename[m] \in DOMAIN b
    BY <1>2, Zenon DEF Renames, Bijection, Injection
<1>4. ASSUME NEW order
      PROVE  Cardinality({i \in DOMAIN a : a[i].order = order})
                 = Cardinality({i \in DOMAIN b : b[i].order = order})
    <2> DEFINE part == {i \in DOMAIN a : a[i].order = order}
               other == {i \in DOMAIN b : b[i].order = order}
    <2>1. part \in SUBSET DOMAIN a /\ other \in SUBSET DOMAIN b
          /\ \A m \in DOMAIN a : m \in part <=> rename[m] \in other
        BY <1>3
    <2> HIDE DEF part, other
    <2>2. Cardinality(part) = Cardinality(other)
        BY <1>1, <1>2, <2>1, RenamedParts
    <2> QED
        BY <2>2 DEF part, other
<1>5. SufficientBlocks(a) <=> SufficientBlocks(b)
    <2>1. SpansTime(a) <=> SpansTime(b)
        BY StartsAreOfTheSet DEF SpansTime
    <2> QED
        BY <1>1, <1>4, <2>1 DEF SufficientBlocks
<1>6. ASSUME NEW d, NEW measure
      PROVE  /\ Repeatable(a, measure, d) <=> Repeatable(b, measure, d)
             /\ Tolerable(a, measure, d) <=> Tolerable(b, measure, d)
    <2> DEFINE baseA == [i \in DOMAIN a |-> Baseline(a[i], measure, d)]
               baseB == [i \in DOMAIN b |-> Baseline(b[i], measure, d)]
               gapA == [i \in DOMAIN a |-> Gap(a[i], measure, d)]
               gapB == [i \in DOMAIN b |-> Gap(b[i], measure, d)]
    <2>1. /\ DOMAIN baseA = DOMAIN a /\ DOMAIN baseB = DOMAIN b
          /\ DOMAIN gapA = DOMAIN a /\ DOMAIN gapB = DOMAIN b
          /\ \A m \in DOMAIN a : baseA[m] = baseB[rename[m]] /\ gapA[m] = gapB[rename[m]]
        BY <1>3
    <2>2. /\ Repeatable(a, measure, d) <=> Median(baseA) >= Hundredths(50)
          /\ Repeatable(b, measure, d) <=> Median(baseB) >= Hundredths(50)
          /\ Tolerable(a, measure, d) <=>
                Median(gapA) <= Hundredths(10) /\ Quartile(gapA, 3) <= Hundredths(15)
          /\ Tolerable(b, measure, d) <=>
                Median(gapB) <= Hundredths(10) /\ Quartile(gapB, 3) <= Hundredths(15)
        BY DEF Repeatable, Tolerable
    <2> HIDE DEF baseA, baseB, gapA, gapB
    <2>3. Renames(rename, baseA, baseB) /\ Renames(rename, gapA, gapB)
        BY <1>2, <2>1 DEF Renames
    <2>4. Median(baseA) = Median(baseB) /\ Quartile(baseA, 3) = Quartile(baseB, 3)
        BY <1>1, <2>1, <2>3, RenamedStatistics
    <2>5. Median(gapA) = Median(gapB) /\ Quartile(gapA, 3) = Quartile(gapB, 3)
        BY <1>1, <2>1, <2>3, RenamedStatistics
    <2> QED
        BY <2>2, <2>4, <2>5
<1>7. \A d : Classification(a, d) = Classification(b, d)
    BY <1>6, Zenon DEF Classification
<1> QED
    BY <1>5, <1>7 DEF ProfileVerdict

(* Which of the profiles is called clean makes no difference either.        *)
LEMMA ExchangedBlock ==
    ASSUME NEW block, IsBlock(block), NEW other, other = Turned(block), NEW measure, NEW d
    PROVE  /\ other.started = block.started /\ other.order = block.order
           /\ Baseline(other, measure, d) = Baseline(block, measure, d)
           /\ Gap(other, measure, d) = Gap(block, measure, d)
<1>1. /\ other.started = block.started /\ other.order = block.order
      /\ other.clean = block.persistent /\ other.persistent = block.clean
    BY DEF IsBlock, Turned
<1>2. Baseline(other, measure, d) = Baseline(block, measure, d)
    <2>1. SameProfile(other) = SameProfile(block)
        BY <1>1 DEF SameProfile
    <2> QED
        BY <2>1 DEF Baseline
<1> DEFINE Four == {1, 2} \X {1, 2}
           f == [p \in Four |->
               Similarity(measure, block.clean[p[1]].rankings[d], block.persistent[p[2]].rankings[d])]
           g == [p \in Four |->
               Similarity(measure, other.clean[p[1]].rankings[d], other.persistent[p[2]].rankings[d])]
           turn == [p \in Four |-> <<p[2], p[1]>>]
<1>3. \A p \in Four : turn[p] \in Four /\ turn[turn[p]] = p
    OBVIOUS
<1>4. \A p \in Four : f[p] = g[turn[p]]
    BY <1>1, SimilarityIsSymmetric
<1>5. IsFiniteSet(Four)
    BY PairIsFinite, FS_Product
<1>6. /\ DOMAIN f = Four /\ DOMAIN g = Four /\ turn \in [Four -> Four]
      /\ Cross(block, measure, d) = Median(f) /\ Cross(other, measure, d) = Median(g)
    BY <1>3 DEF Cross
<1> HIDE DEF f, g, turn, Four
<1>7. Renames(turn, f, g)
    BY <1>3, <1>4, <1>6 DEF Renames, Bijection, Injection, Surjection, IsInjective
<1>8. Median(f) = Median(g) /\ Quartile(f, 1) = Quartile(g, 1)
    BY <1>5, <1>6, <1>7, RenamedStatistics
<1> QED
    BY <1>1, <1>2, <1>6, <1>8 DEF Gap

LEMMA LengthOfAList ==
    ASSUME NEW n \in Nat, NEW list, list = [i \in 1..n |-> list[i]]
    PROVE  Len(list) = n
OBVIOUS

LEMMA ProfileVerdictIsSymmetric ==
    ASSUME NEW blocks, AreBlocks(blocks)
    PROVE  ProfileVerdict(Exchanged(blocks)) = ProfileVerdict(blocks)
<1> DEFINE others == Exchanged(blocks)
<1>1. /\ DOMAIN others = DOMAIN blocks
      /\ \A i \in DOMAIN blocks : others[i] = Turned(blocks[i])
    BY DEF Exchanged
<1>2. Len(others) = Len(blocks)
    <2>1. Len(blocks) \in Nat /\ DOMAIN blocks = 1..Len(blocks)
        BY DEF AreBlocks, IsList
    <2>2. others = [i \in 1..Len(blocks) |-> others[i]]
        BY <2>1 DEF Exchanged
    <2> HIDE DEF others
    <2> QED
        BY <2>1, <2>2, LengthOfAList
<1> HIDE DEF others
<1>3. ASSUME NEW i \in DOMAIN blocks, NEW measure, NEW d
      PROVE  /\ others[i].started = blocks[i].started /\ others[i].order = blocks[i].order
             /\ Baseline(others[i], measure, d) = Baseline(blocks[i], measure, d)
             /\ Gap(others[i], measure, d) = Gap(blocks[i], measure, d)
    <2>1. IsBlock(blocks[i])
        BY DEF AreBlocks
    <2> QED
        BY <1>1, <2>1, ExchangedBlock
<1>4. StartTimes(others) = StartTimes(blocks)
    BY <1>1, <1>3 DEF StartTimes
<1>5. SufficientBlocks(others) <=> SufficientBlocks(blocks)
    <2>1. \A order : {i \in DOMAIN others : others[i].order = order}
                        = {i \in DOMAIN blocks : blocks[i].order = order}
        BY <1>1, <1>3
    <2>2. SpansTime(others) <=> SpansTime(blocks)
        BY <1>4 DEF SpansTime
    <2> QED
        BY <1>2, <2>1, <2>2 DEF SufficientBlocks
<1>6. ASSUME NEW d, NEW measure
      PROVE  /\ [i \in DOMAIN others |-> Baseline(others[i], measure, d)]
                    = [i \in DOMAIN blocks |-> Baseline(blocks[i], measure, d)]
             /\ [i \in DOMAIN others |-> Gap(others[i], measure, d)]
                    = [i \in DOMAIN blocks |-> Gap(blocks[i], measure, d)]
    <2>1. \A i \in DOMAIN blocks : Baseline(others[i], measure, d) = Baseline(blocks[i], measure, d)
        BY <1>3
    <2>2. \A i \in DOMAIN blocks : Gap(others[i], measure, d) = Gap(blocks[i], measure, d)
        BY <1>3
    <2> QED
        BY <1>1, <2>1, <2>2
<1>7. \A d, measure : /\ Repeatable(others, measure, d) <=> Repeatable(blocks, measure, d)
                      /\ Tolerable(others, measure, d) <=> Tolerable(blocks, measure, d)
    BY <1>6, Zenon DEF Repeatable, Tolerable
<1>8. \A d : Classification(others, d) = Classification(blocks, d)
    BY <1>7, Zenon DEF Classification
<1>9. ProfileVerdict(others) = ProfileVerdict(blocks)
    BY <1>5, <1>8 DEF ProfileVerdict
<1> QED
    BY <1>9 DEF others

---------------------------------------------------------------------------
(* The submission in hand and the reports written.                          *)

RunsAreStored ==
    \E stored \in Archives :
        /\ DOMAIN archive = DOMAIN stored
        /\ \A r \in DOMAIN archive :
              /\ DOMAIN archive[r] = RunFields /\ archive[r].started \in Int
              /\ archive[r].pages \in Seq(StoredPage)

(* A run is replayed once: none that is replayed is left.                   *)
TrialsInHand(left, trials, known) ==
    /\ left \in Seq(known) /\ AreTrials(trials)
    /\ \A i, j \in DOMAIN trials : trials[i].run = trials[j].run => i = j
    /\ \A i \in DOMAIN left, j \in DOMAIN trials : left[i] # trials[j].run
    /\ \A i, j \in DOMAIN left : left[i] = left[j] => i = j

BlocksInHand(left, blocks, known) ==
    /\ left \in Seq([1..4 -> known]) /\ AreBlocks(blocks)
    /\ \A i, j \in DOMAIN blocks : blocks[i].runs[1] = blocks[j].runs[1] => i = j
    /\ \A i \in DOMAIN left, j \in DOMAIN blocks : blocks[j].runs[1] \notin ToSet(left[i])
    /\ \A i, j \in DOMAIN left : i # j => ToSet(left[i]) \cap ToSet(left[j]) = {}

DepthInHand ==
    feedRequest.kind = "depth" /\ TrialsInHand(feedRequest.left, replayed, DOMAIN archive)
ProfileInHand ==
    feedRequest.kind = "profile" /\ BlocksInHand(feedRequest.left, replayed, DOMAIN archive)

RequestInHand ==
    \/ feedRequest = NoRequest
    \/ /\ DOMAIN feedRequest = {"kind", "submitted", "left"}
       /\ DepthInHand \/ ProfileInHand

DepthReport(report) ==
    /\ report.kind = "depth" /\ AreTrials(report.replayed) /\ IsInjective(report.replayed)
    /\ report.verdict = IF report.replayed = << >> THEN 0 ELSE DepthVerdict(report.replayed)

ProfileReport(report) ==
    /\ report.kind = "profile" /\ AreBlocks(report.replayed) /\ IsInjective(report.replayed)
    /\ report.verdict = IF report.replayed = << >> THEN [d \in Candidates |-> "none"]
                        ELSE ProfileVerdict(report.replayed)

ReportsAreSound == \A report \in feedReports : DepthReport(report) \/ ProfileReport(report)

FeedIsSound == RunsAreStored /\ RequestInHand /\ ReportsAreSound

LEMMA StoredRequests ==
    ASSUME RunsAreStored
    PROVE  /\ TrialRequests \subseteq Seq(DOMAIN archive)
           /\ BlockRequests \subseteq Seq([1..4 -> DOMAIN archive])
BY RequestsAssumption DEF RunsAreStored

LEMMA AppendIsAList ==
    ASSUME NEW list, IsList(list), NEW x
    PROVE  /\ IsList(Append(list, x))
           /\ DOMAIN list = 1..Len(list) /\ Len(list) \in Nat
           /\ DOMAIN Append(list, x) = 1..(Len(list) + 1)
           /\ Append(list, x)[Len(list) + 1] = x
           /\ \A i \in 1..Len(list) : Append(list, x)[i] = list[i]
<1> DEFINE n == Len(list)
           more == Append(list, x)
<1>1. n \in Nat /\ DOMAIN list = 1..n
    BY DEF IsList
<1>2. list \in Seq(Range(list) \cup {x})
    BY DEF IsList
<1>3. /\ DOMAIN more = 1..(n + 1) /\ more[n + 1] = x
      /\ \A i \in 1..n : more[i] = list[i]
    BY <1>1, <1>2
<1>4. more = [i \in 1..(n + 1) |-> more[i]]
    <2>1. more \in Seq(Range(list) \cup {x})
        BY <1>2
    <2>2. \A S : \A s \in Seq(S) : s = [i \in DOMAIN s |-> s[i]]
        OBVIOUS
    <2> HIDE DEF more, n
    <2> QED
        BY <1>3, <2>1, <2>2
<1> HIDE DEF more, n
<1>5. more \in Seq(Range(more))
    BY <1>1, <1>3, <1>4 DEF Range
<1> QED
    BY <1>1, <1>3, <1>5 DEF more, n, IsList

LEMMA TailOfASequence ==
    ASSUME NEW S, NEW list \in Seq(S), list # << >>
    PROVE  /\ Tail(list) \in Seq(S) /\ Head(list) = list[1] /\ Head(list) \in S
           /\ 1 \in DOMAIN list
           /\ \A i \in DOMAIN Tail(list) :
                 /\ i + 1 \in DOMAIN list /\ i + 1 # 1 /\ Tail(list)[i] = list[i + 1]
                 /\ i \in Nat
OBVIOUS

LEMMA ObservationIsTyped ==
    ASSUME RunsAreStored, NEW r \in DOMAIN archive
    PROVE  /\ IsObservation(Observation(r)) /\ Observation(r).run = r
           /\ \A d \in Candidates : Observation(r).rankings[d] = Ranking(archive[r], d)
<1>1. archive[r].started \in Int /\ archive[r].pages \in Seq(StoredPage)
    BY DEF RunsAreStored
<1>2. /\ Observation(r).started = archive[r].started /\ Observation(r).run = r
      /\ \A d \in Candidates : Observation(r).rankings[d] = Ranking(archive[r], d)
    BY DEF Observation, Rankings
<1>3. \A d \in Candidates : IsList(Ranking(archive[r], d))
    BY <1>1, RankingIsAList, DepthsAreNumbers
<1> QED
    BY <1>1, <1>2, <1>3 DEF IsObservation

LEMMA TrialIsTyped ==
    ASSUME RunsAreStored, NEW r \in DOMAIN archive, EligibleTrial(archive[r])
    PROVE  IsTrial(Observation(r)) /\ Observation(r).run = r
BY ObservationIsTyped, DepthsAreNumbers DEF IsTrial, EligibleTrial

LEMMA BlockIsTyped ==
    ASSUME RunsAreStored, NEW four \in [1..4 -> DOMAIN archive], EligibleBlock(four)
    PROVE  IsBlock(BlockObservation(four)) /\ BlockObservation(four).runs[1] \in ToSet(four)
<1> DEFINE block == Chronological(four)
           At(profile) == {i \in 1..4 : archive[block[i]].profile = profile}
           Two(profile) == <<Observation(block[Min(At(profile))]), Observation(block[Max(At(profile))])>>
           seen == BlockObservation(four)
<1>1. block \in Chronologies(four)
    BY DEF EligibleBlock, Chronological
<1>2. block \in [1..4 -> ToSet(four)] /\ ToSet(four) \subseteq DOMAIN archive
    BY <1>1 DEF Chronologies, ToSet
<1>3. \A i \in 1..4 : block[i] \in DOMAIN archive
    BY <1>2
<1>4. Profiles(block) \in {<<"clean", "persistent", "persistent", "clean">>,
                           <<"persistent", "clean", "clean", "persistent">>}
    BY DEF EligibleBlock
<1>5. \A i \in 1..4 : Profiles(block)[i] = archive[block[i]].profile
    BY <1>2 DEF Profiles
<1>6. \/ archive[block[1]].profile = "clean" /\ archive[block[2]].profile = "persistent"
      \/ archive[block[1]].profile = "persistent" /\ archive[block[2]].profile = "clean"
    BY <1>4, <1>5
<1> HIDE DEF block
<1>7. ASSUME NEW profile \in {"clean", "persistent"}
      PROVE  /\ Two(profile)[1] = Observation(block[Min(At(profile))])
             /\ Two(profile)[2] = Observation(block[Max(At(profile))])
             /\ Min(At(profile)) \in 1..4 /\ Max(At(profile)) \in 1..4
    <2>1. At(profile) # {}
        BY <1>6
    <2>2. At(profile) \in SUBSET (1..4)
        OBVIOUS
    <2>3. \A k \in Nat : IsFiniteSet(1..k)
        BY FS_Interval
    <2> HIDE DEF At
    <2>4. IsFiniteSet(At(profile)) /\ At(profile) \in SUBSET Nat /\ At(profile) \in SUBSET Int
        BY <2>2, <2>3, FS_Subset
    <2>5. Min(At(profile)) \in At(profile) /\ Max(At(profile)) \in At(profile)
        BY <2>1, <2>4, MinExists, MaxExists
    <2> QED
        BY <2>2, <2>5
<1>8. \A profile \in {"clean", "persistent"} : \A i \in {1, 2} : IsObservation(Two(profile)[i])
    BY <1>3, <1>7, ObservationIsTyped
<1>9. /\ DOMAIN seen = {"runs", "started", "order", "session", "clean", "persistent"}
      /\ seen.runs = block /\ seen.started = archive[block[1]].started
      /\ seen.clean = Two("clean") /\ seen.persistent = Two("persistent")
    BY DEF BlockObservation, block
<1>10. archive[block[1]].started \in Int
    BY <1>3 DEF RunsAreStored
<1> HIDE DEF Two, seen
<1>11. IsBlock(seen)
    BY <1>8, <1>9, <1>10 DEF IsBlock
<1> QED
    BY <1>2, <1>9, <1>11 DEF seen

LEMMA FeedInitIsSound == ExperimentInit => FeedIsSound
<1> SUFFICES ASSUME ExperimentInit PROVE FeedIsSound
    OBVIOUS
<1>1. archive \in Archives /\ feedRequest = NoRequest /\ feedReports = {}
    BY DEF ExperimentInit, FeedInit
<1>2. RunsAreStored
    BY <1>1, ArchivesAssumption DEF RunsAreStored
<1> QED
    BY <1>1, <1>2 DEF FeedIsSound, RequestInHand, ReportsAreSound

LEMMA CollectIsSound ==
    ASSUME FeedIsSound, NEW r \in DOMAIN archive, CompleteFeedRun(r)
    PROVE  FeedIsSound'
<1>1. archive' = [archive EXCEPT ![r].status = "completed"]
      /\ UNCHANGED <<feedRequest, replayed, rejected, feedReports>>
    BY DEF CompleteFeedRun
<1>2. PICK stored \in Archives :
        /\ DOMAIN archive = DOMAIN stored
        /\ \A s \in DOMAIN archive :
              /\ DOMAIN archive[s] = RunFields /\ archive[s].started \in Int
              /\ archive[s].pages \in Seq(StoredPage)
    BY DEF FeedIsSound, RunsAreStored
<1>3. DOMAIN archive' = DOMAIN archive
    BY <1>1
<1>4. ASSUME NEW s \in DOMAIN archive
      PROVE  /\ DOMAIN archive'[s] = RunFields /\ archive'[s].started \in Int
             /\ archive'[s].pages \in Seq(StoredPage)
    <2>1. archive'[s] = archive[s] \/ archive'[s] = [archive[s] EXCEPT !.status = "completed"]
        BY <1>1
    <2>2. DOMAIN archive'[s] = RunFields /\ archive'[s].started = archive[s].started
          /\ archive'[s].pages = archive[s].pages
        BY <1>2, <2>1 DEF RunFields
    <2> QED
        BY <1>2, <2>2
<1>5. RunsAreStored'
    BY <1>2, <1>3, <1>4 DEF RunsAreStored
<1>6. RequestInHand'
    BY <1>1, <1>3 DEF FeedIsSound, RequestInHand, DepthInHand, ProfileInHand
<1>7. ReportsAreSound'
    BY <1>1 DEF FeedIsSound, ReportsAreSound
<1> QED
    BY <1>5, <1>6, <1>7 DEF FeedIsSound

LEMMA NothingIsReplayed == AreTrials(<< >>) /\ AreBlocks(<< >>)
BY DEF AreTrials, AreBlocks, IsList, Range

LEMMA SubmitTrialsIsSound ==
    ASSUME FeedIsSound, NEW list \in TrialRequests, SubmitTrials(list)
    PROVE  FeedIsSound'
<1>1. /\ feedRequest' = [kind |-> "depth", submitted |-> list, left |-> list]
      /\ replayed' = << >> /\ archive' = archive /\ feedReports' = feedReports
      /\ IsInjective(list)
    BY DEF SubmitTrials, Submit, Distinct
<1>2. list \in Seq(DOMAIN archive)
    BY StoredRequests DEF FeedIsSound
<1>3. DepthInHand'
    BY <1>1, <1>2, NothingIsReplayed DEF DepthInHand, TrialsInHand, IsInjective
<1>4. RequestInHand'
    BY <1>1, <1>3 DEF RequestInHand
<1>5. RunsAreStored' /\ ReportsAreSound'
    BY <1>1 DEF FeedIsSound, RunsAreStored, ReportsAreSound
<1> QED
    BY <1>4, <1>5 DEF FeedIsSound

LEMMA SubmitBlocksIsSound ==
    ASSUME FeedIsSound, NEW list \in BlockRequests, SubmitBlocks(list)
    PROVE  FeedIsSound'
<1>1. /\ feedRequest' = [kind |-> "profile", submitted |-> list, left |-> list]
      /\ replayed' = << >> /\ archive' = archive /\ feedReports' = feedReports
      /\ \A i, j \in DOMAIN list : i # j => ToSet(list[i]) \cap ToSet(list[j]) = {}
    BY DEF SubmitBlocks, Submit
<1>2. list \in Seq([1..4 -> DOMAIN archive])
    BY StoredRequests DEF FeedIsSound
<1>3. ProfileInHand'
    BY <1>1, <1>2, NothingIsReplayed DEF ProfileInHand, BlocksInHand
<1>4. RequestInHand'
    BY <1>1, <1>3 DEF RequestInHand
<1>5. RunsAreStored' /\ ReportsAreSound'
    BY <1>1 DEF FeedIsSound, RunsAreStored, ReportsAreSound
<1> QED
    BY <1>4, <1>5 DEF FeedIsSound

(* One member more is replayed, or rejected.                                *)
LEMMA LoadTrialIsSound ==
    ASSUME FeedIsSound, LoadTrial
    PROVE  FeedIsSound'
<1> DEFINE left == feedRequest.left
           more == Append(replayed, Observation(Submitted))
<1>1. /\ feedRequest.kind = "depth" /\ left # << >>
      /\ feedRequest' = [feedRequest EXCEPT !.left = Tail(@)]
      /\ archive' = archive /\ feedReports' = feedReports
      /\ IF EligibleTrial(archive[Submitted]) THEN replayed' = more ELSE replayed' = replayed
    BY DEF LoadTrial, Load
<1>2. DOMAIN feedRequest = {"kind", "submitted", "left"} /\ DepthInHand
    BY <1>1 DEF FeedIsSound, RequestInHand, ProfileInHand, NoRequest
<1>3. /\ DOMAIN feedRequest' = {"kind", "submitted", "left"} /\ feedRequest'.kind = "depth"
      /\ feedRequest'.left = Tail(left)
    BY <1>1, <1>2
<1>4. left \in Seq(DOMAIN archive)
    BY <1>2 DEF DepthInHand, TrialsInHand
<1>5. /\ Tail(left) \in Seq(DOMAIN archive) /\ Submitted = left[1] /\ Submitted \in DOMAIN archive
      /\ 1 \in DOMAIN left
      /\ \A i \in DOMAIN Tail(left) :
            i + 1 \in DOMAIN left /\ i + 1 # 1 /\ Tail(left)[i] = left[i + 1] /\ i \in Nat
    BY <1>1, <1>4, TailOfASequence DEF Submitted
<1>6. /\ AreTrials(replayed)
      /\ \A i, j \in DOMAIN replayed : replayed[i].run = replayed[j].run => i = j
      /\ \A i \in DOMAIN left, j \in DOMAIN replayed : left[i] # replayed[j].run
      /\ \A i, j \in DOMAIN left : left[i] = left[j] => i = j
    BY <1>2 DEF DepthInHand, TrialsInHand
<1> HIDE DEF left
<1>7. \A i, j \in DOMAIN Tail(left) : Tail(left)[i] = Tail(left)[j] => i = j
    BY <1>5, <1>6
<1>8. CASE replayed' = replayed
    <2>1. \A i \in DOMAIN Tail(left), j \in DOMAIN replayed : Tail(left)[i] # replayed[j].run
        BY <1>5, <1>6
    <2>2. TrialsInHand(Tail(left), replayed, DOMAIN archive)
        BY <1>5, <1>6, <1>7, <2>1 DEF TrialsInHand
    <2>3. DepthInHand'
        BY <1>1, <1>3, <1>8, <2>2 DEF DepthInHand
    <2>4. RequestInHand'
        BY <1>3, <2>3 DEF RequestInHand
    <2>5. RunsAreStored' /\ ReportsAreSound'
        BY <1>1 DEF FeedIsSound, RunsAreStored, ReportsAreSound
    <2> QED
        BY <2>4, <2>5 DEF FeedIsSound
<1>9. CASE EligibleTrial(archive[Submitted]) /\ replayed' = more
    <2>1. IsTrial(Observation(Submitted)) /\ Observation(Submitted).run = left[1]
        BY <1>5, <1>9, TrialIsTyped DEF FeedIsSound
    <2> DEFINE n == Len(replayed)
    <2>2. /\ IsList(more) /\ DOMAIN replayed = 1..n /\ n \in Nat /\ DOMAIN more = 1..(n + 1)
          /\ more[n + 1] = Observation(Submitted) /\ \A i \in 1..n : more[i] = replayed[i]
        BY <1>6, AppendIsAList DEF AreTrials
    <2> HIDE DEF more, n
    <2>3. \A i \in DOMAIN more : (i \in DOMAIN replayed /\ more[i] = replayed[i])
                                 \/ (i = n + 1 /\ more[i] = Observation(Submitted))
        BY <2>2
    <2>4. AreTrials(more)
        BY <1>6, <2>1, <2>2, <2>3 DEF AreTrials
    <2>5. \A i, j \in DOMAIN more : more[i].run = more[j].run => i = j
        BY <1>5, <1>6, <2>1, <2>3
    <2>6. \A i \in DOMAIN Tail(left), j \in DOMAIN more : Tail(left)[i] # more[j].run
        BY <1>5, <1>6, <2>1, <2>3
    <2>7. TrialsInHand(Tail(left), more, DOMAIN archive)
        BY <1>5, <1>7, <2>4, <2>5, <2>6 DEF TrialsInHand
    <2>8. DepthInHand'
        BY <1>1, <1>3, <1>9, <2>7 DEF DepthInHand
    <2>9. RequestInHand'
        BY <1>3, <2>8 DEF RequestInHand
    <2>10. RunsAreStored' /\ ReportsAreSound'
        BY <1>1 DEF FeedIsSound, RunsAreStored, ReportsAreSound
    <2> QED
        BY <2>9, <2>10 DEF FeedIsSound
<1> QED
    BY <1>1, <1>8, <1>9

LEMMA LoadBlockIsSound ==
    ASSUME FeedIsSound, LoadBlock
    PROVE  FeedIsSound'
<1> DEFINE left == feedRequest.left
           seen == BlockObservation(Submitted)
           more == Append(replayed, seen)
<1>1. /\ feedRequest.kind = "profile" /\ left # << >>
      /\ feedRequest' = [feedRequest EXCEPT !.left = Tail(@)]
      /\ archive' = archive /\ feedReports' = feedReports
      /\ IF EligibleBlock(Submitted) THEN replayed' = more ELSE replayed' = replayed
    BY DEF LoadBlock, Load
<1>2. DOMAIN feedRequest = {"kind", "submitted", "left"} /\ ProfileInHand
    BY <1>1 DEF FeedIsSound, RequestInHand, DepthInHand, NoRequest
<1>3. /\ DOMAIN feedRequest' = {"kind", "submitted", "left"} /\ feedRequest'.kind = "profile"
      /\ feedRequest'.left = Tail(left)
    BY <1>1, <1>2
<1>4. left \in Seq([1..4 -> DOMAIN archive])
    BY <1>2 DEF ProfileInHand, BlocksInHand
<1>5. /\ Tail(left) \in Seq([1..4 -> DOMAIN archive])
      /\ Submitted = left[1] /\ Submitted \in [1..4 -> DOMAIN archive]
      /\ 1 \in DOMAIN left
      /\ \A i \in DOMAIN Tail(left) :
            i + 1 \in DOMAIN left /\ i + 1 # 1 /\ Tail(left)[i] = left[i + 1] /\ i \in Nat
    BY <1>1, <1>4, TailOfASequence DEF Submitted
<1>6. /\ AreBlocks(replayed)
      /\ \A i, j \in DOMAIN replayed : replayed[i].runs[1] = replayed[j].runs[1] => i = j
      /\ \A i \in DOMAIN left, j \in DOMAIN replayed : replayed[j].runs[1] \notin ToSet(left[i])
      /\ \A i, j \in DOMAIN left : i # j => ToSet(left[i]) \cap ToSet(left[j]) = {}
    BY <1>2 DEF ProfileInHand, BlocksInHand
<1> HIDE DEF left, seen
<1>7. \A i, j \in DOMAIN Tail(left) :
          i # j => ToSet(Tail(left)[i]) \cap ToSet(Tail(left)[j]) = {}
    BY <1>5, <1>6
<1>8. CASE replayed' = replayed
    <2>1. \A i \in DOMAIN Tail(left), j \in DOMAIN replayed :
              replayed[j].runs[1] \notin ToSet(Tail(left)[i])
        BY <1>5, <1>6
    <2>2. BlocksInHand(Tail(left), replayed, DOMAIN archive)
        BY <1>5, <1>6, <1>7, <2>1 DEF BlocksInHand
    <2>3. ProfileInHand'
        BY <1>1, <1>3, <1>8, <2>2 DEF ProfileInHand
    <2>4. RequestInHand'
        BY <1>3, <2>3 DEF RequestInHand
    <2>5. RunsAreStored' /\ ReportsAreSound'
        BY <1>1 DEF FeedIsSound, RunsAreStored, ReportsAreSound
    <2> QED
        BY <2>4, <2>5 DEF FeedIsSound
<1>9. CASE EligibleBlock(Submitted) /\ replayed' = more
    <2>1. IsBlock(seen) /\ seen.runs[1] \in ToSet(left[1])
        BY <1>5, <1>9, BlockIsTyped DEF FeedIsSound, seen
    <2> DEFINE n == Len(replayed)
    <2>2. /\ IsList(more) /\ DOMAIN replayed = 1..n /\ n \in Nat /\ DOMAIN more = 1..(n + 1)
          /\ more[n + 1] = seen /\ \A i \in 1..n : more[i] = replayed[i]
        BY <1>6, AppendIsAList DEF AreBlocks
    <2> HIDE DEF more, n
    <2>3. \A i \in DOMAIN more : (i \in DOMAIN replayed /\ more[i] = replayed[i])
                                 \/ (i = n + 1 /\ more[i] = seen)
        BY <2>2
    <2>4. AreBlocks(more)
        BY <1>6, <2>1, <2>2, <2>3 DEF AreBlocks
    <2>5. \A i, j \in DOMAIN more : more[i].runs[1] = more[j].runs[1] => i = j
        BY <1>5, <1>6, <2>1, <2>3
    <2>6. \A i \in DOMAIN Tail(left), j \in DOMAIN more : more[j].runs[1] \notin ToSet(Tail(left)[i])
        <3>1. \A i \in DOMAIN Tail(left) : ToSet(left[1]) \cap ToSet(Tail(left)[i]) = {}
            BY <1>5, <1>6
        <3> QED
            BY <1>5, <1>6, <2>1, <2>3, <3>1
    <2>7. BlocksInHand(Tail(left), more, DOMAIN archive)
        BY <1>5, <1>7, <2>4, <2>5, <2>6 DEF BlocksInHand
    <2>8. ProfileInHand'
        BY <1>1, <1>3, <1>9, <2>7 DEF ProfileInHand
    <2>9. RequestInHand'
        BY <1>3, <2>8 DEF RequestInHand
    <2>10. RunsAreStored' /\ ReportsAreSound'
        BY <1>1 DEF FeedIsSound, RunsAreStored, ReportsAreSound
    <2> QED
        BY <2>9, <2>10 DEF FeedIsSound
<1> QED
    BY <1>1, <1>8, <1>9

(* What is replayed holds no run twice.                                     *)
LEMMA ReplayedOnce ==
    ASSUME DepthInHand \/ ProfileInHand
    PROVE  IsInjective(replayed)
<1>1. CASE DepthInHand
    <2>1. \A i, j \in DOMAIN replayed : replayed[i].run = replayed[j].run => i = j
        BY <1>1 DEF DepthInHand, TrialsInHand
    <2> QED
        BY <2>1 DEF IsInjective
<1>2. CASE ProfileInHand
    <2>1. \A i, j \in DOMAIN replayed : replayed[i].runs[1] = replayed[j].runs[1] => i = j
        BY <1>2 DEF ProfileInHand, BlocksInHand
    <2> QED
        BY <2>1 DEF IsInjective
<1> QED
    BY <1>1, <1>2

LEMMA ReportDepthIsSound ==
    ASSUME FeedIsSound, ReportDepth
    PROVE  FeedIsSound'
<1> DEFINE report == [kind |-> feedRequest.kind, submitted |-> feedRequest.submitted,
                      replayed |-> replayed, rejected |-> rejected,
                      verdict |-> IF replayed = << >> THEN 0 ELSE DepthVerdict(replayed)]
<1>1. /\ feedRequest.kind = "depth" /\ feedReports' = feedReports \cup {report}
      /\ feedRequest' = NoRequest /\ archive' = archive
    BY DEF ReportDepth, Report
<1>2. DepthInHand
    BY <1>1 DEF FeedIsSound, RequestInHand, ProfileInHand, NoRequest
<1>3. DepthReport(report)
    BY <1>1, <1>2, ReplayedOnce DEF DepthReport, DepthInHand, TrialsInHand
<1>4. ReportsAreSound'
    BY <1>1, <1>3 DEF FeedIsSound, ReportsAreSound
<1> QED
    BY <1>1, <1>4 DEF FeedIsSound, RequestInHand, RunsAreStored

LEMMA ReportProfileIsSound ==
    ASSUME FeedIsSound, ReportProfile
    PROVE  FeedIsSound'
<1> DEFINE report == [kind |-> feedRequest.kind, submitted |-> feedRequest.submitted,
                      replayed |-> replayed, rejected |-> rejected,
                      verdict |-> IF replayed = << >> THEN [d \in Candidates |-> "none"]
                                  ELSE ProfileVerdict(replayed)]
<1>1. /\ feedRequest.kind = "profile" /\ feedReports' = feedReports \cup {report}
      /\ feedRequest' = NoRequest /\ archive' = archive
    BY DEF ReportProfile, Report
<1>2. ProfileInHand
    BY <1>1 DEF FeedIsSound, RequestInHand, DepthInHand, NoRequest
<1>3. ProfileReport(report)
    BY <1>1, <1>2, ReplayedOnce DEF ProfileReport, ProfileInHand, BlocksInHand
<1>4. ReportsAreSound'
    BY <1>1, <1>3 DEF FeedIsSound, ReportsAreSound
<1> QED
    BY <1>1, <1>4 DEF FeedIsSound, RequestInHand, RunsAreStored

LEMMA RefusalIsSound ==
    ASSUME FeedIsSound, RefuseMixedSessions
    PROVE  FeedIsSound'
<1>1. feedRequest' = NoRequest /\ archive' = archive /\ feedReports' = feedReports
    BY DEF RefuseMixedSessions
<1> QED
    BY <1>1 DEF FeedIsSound, RequestInHand, RunsAreStored, ReportsAreSound

LEMMA UnchangedFeedIsSound ==
    ASSUME FeedIsSound, UNCHANGED feedVars
    PROVE  FeedIsSound'
BY DEF FeedIsSound, feedVars, RunsAreStored, ReportsAreSound, RequestInHand,
       DepthInHand, ProfileInHand

(* The audit reads the runs and writes none.                                *)
LEMMA AuditLeavesTheFeed ==
    ASSUME CadenceNext
    PROVE  UNCHANGED feedVars
<1>1. ASSUME NEW b, Backfill(b[1], b[2]) PROVE UNCHANGED feedVars
    BY <1>1 DEF Backfill
<1>2. ASSUME NEW manifest, StartAudit(manifest) PROVE UNCHANGED feedVars
    BY <1>2 DEF StartAudit
<1>3. LoadSeries => UNCHANGED feedVars
    BY DEF LoadSeries
<1>4. LoadFeed => UNCHANGED feedVars
    BY DEF LoadFeed
<1>5. LoadSearch => UNCHANGED feedVars
    BY DEF LoadSearch
<1>6. Evaluate => UNCHANGED feedVars
    BY DEF Evaluate
<1>7. Cite => UNCHANGED feedVars
    BY DEF Cite
<1>8. Publish => UNCHANGED feedVars
    BY DEF Publish
<1> QED
    BY <1>1, <1>2, <1>3, <1>4, <1>5, <1>6, <1>7, <1>8 DEF CadenceNext

LEMMA FeedStep == FeedIsSound /\ [ExperimentNext]_experimentVars => FeedIsSound'
<1> SUFFICES ASSUME FeedIsSound, [ExperimentNext]_experimentVars PROVE FeedIsSound'
    OBVIOUS
<1>1. CASE Collect
    BY <1>1, CollectIsSound DEF Collect
<1>2. CASE Analyse
    <2>1. ASSUME NEW list \in TrialRequests, SubmitTrials(list) PROVE FeedIsSound'
        BY <2>1, SubmitTrialsIsSound
    <2>2. ASSUME NEW list \in BlockRequests, SubmitBlocks(list) PROVE FeedIsSound'
        BY <2>2, SubmitBlocksIsSound
    <2>3. CASE LoadTrial
        BY <2>3, LoadTrialIsSound
    <2>4. CASE ReportDepth
        BY <2>4, ReportDepthIsSound
    <2>5. CASE LoadBlock
        BY <2>5, LoadBlockIsSound
    <2>6. CASE ReportProfile
        BY <2>6, ReportProfileIsSound
    <2>7. CASE RefuseMixedSessions
        BY <2>7, RefusalIsSound
    <2> QED
        BY <1>2, <2>1, <2>2, <2>3, <2>4, <2>5, <2>6, <2>7 DEF Analyse
<1>3. CASE CadenceNext
    BY <1>3, AuditLeavesTheFeed, UnchangedFeedIsSound
<1>4. CASE UNCHANGED experimentVars
    <2>1. UNCHANGED feedVars
        BY <1>4 DEF experimentVars
    <2> QED
        BY <2>1, UnchangedFeedIsSound
<1> QED
    BY <1>1, <1>2, <1>3, <1>4 DEF ExperimentNext

(* Every report states what the policy says of eligible observations of     *)
(* distinct runs.                                                           *)
LEMMA FeedIsAlwaysSound == ExperimentSpec => []FeedIsSound
BY FeedInitIsSound, FeedStep, PTL DEF ExperimentSpec

LEMMA NothingIsFew ==
    ASSUME NEW S, S = {}
    PROVE  Cardinality(S) <= Few(0)
BY FS_EmptySet DEF Few

LEMMA SoundReportsHoldForMost == ReportsAreSound => VerdictsHoldForMost
<1> SUFFICES ASSUME ReportsAreSound, NEW report \in feedReports
             PROVE  LET n == Len(report.replayed)
                        verdict == report.verdict
                        At(i) == report.replayed[i] IN
                    IF report.kind = "depth"
                    THEN verdict # 0 =>
                            /\ Cardinality({i \in 1..n : Coverage(At(i), verdict) < Hundredths(85)})
                                   <= Few(n)
                            /\ \A d \in Candidates : d < verdict => ~DepthPasses(report.replayed, d)
                    ELSE \A d \in Candidates, measure \in Measures : verdict[d] = "stable" =>
                            Cardinality({i \in 1..n : Gap(At(i), measure, d) > Hundredths(15)})
                                <= Few(n)
    BY DEF VerdictsHoldForMost
<1> DEFINE seen == report.replayed
           verdict == report.verdict
<1>1. CASE DepthReport(report)
    <2>1. report.kind = "depth" /\ AreTrials(seen)
          /\ verdict = IF seen = << >> THEN 0 ELSE DepthVerdict(seen)
        BY <1>1 DEF DepthReport
    <2> HIDE DEF seen, verdict
    <2>2. ASSUME verdict # 0
          PROVE  /\ Cardinality({i \in 1..Len(seen) :
                                    Coverage(seen[i], verdict) < Hundredths(85)}) <= Few(Len(seen))
                 /\ \A d \in Candidates : d < verdict => ~DepthPasses(seen, d)
        BY <2>1, <2>2, DepthVerdictHolds
    <2> QED
        BY <2>1, <2>2 DEF seen, verdict
<1>2. CASE ProfileReport(report)
    <2>1. report.kind = "profile" /\ AreBlocks(seen)
          /\ verdict = IF seen = << >> THEN [d \in Candidates |-> "none"] ELSE ProfileVerdict(seen)
        BY <1>2 DEF ProfileReport
    <2> HIDE DEF seen, verdict
    <2>2. ASSUME NEW d \in Candidates, NEW measure \in Measures, verdict[d] = "stable"
          PROVE  Cardinality({i \in 1..Len(seen) : Gap(seen[i], measure, d) > Hundredths(15)})
                     <= Few(Len(seen))
        <3>1. seen # << >> /\ verdict = ProfileVerdict(seen)
            BY <2>1, <2>2
        <3> QED
            BY <2>1, <2>2, <3>1, ProfileVerdictHolds
    <2> QED
        BY <2>1, <2>2 DEF seen, verdict
<1> QED
    BY <1>1, <1>2 DEF ReportsAreSound

LEMMA SoundReportsFollowTheEvidence == ReportsAreSound => VerdictsFollowTheEvidence
<1> SUFFICES ASSUME ReportsAreSound, NEW a \in feedReports
             PROVE  /\ \A b \in feedReports :
                          a.kind = b.kind /\ ToSet(a.replayed) = ToSet(b.replayed)
                             => a.verdict = b.verdict
                    /\ a.kind = "profile" /\ a.replayed # << >> =>
                          a.verdict = ProfileVerdict(Exchanged(a.replayed))
    BY DEF VerdictsFollowTheEvidence
<1>1. ASSUME NEW b \in feedReports, a.kind = b.kind, ToSet(a.replayed) = ToSet(b.replayed)
      PROVE  a.verdict = b.verdict
    <2>1. CASE DepthReport(a)
        <3>1. DepthReport(b)
            BY <1>1, <2>1 DEF ReportsAreSound, DepthReport, ProfileReport
        <3>2. /\ IsList(a.replayed) /\ IsInjective(a.replayed)
              /\ IsList(b.replayed) /\ IsInjective(b.replayed)
            BY <2>1, <3>1 DEF DepthReport, AreTrials
        <3>3. /\ DepthVerdict(a.replayed) = DepthVerdict(b.replayed)
              /\ a.replayed = << >> <=> b.replayed = << >>
            BY <1>1, <3>2, DepthVerdictIsOfTheSet, OrdersAreRenamings
        <3> QED
            BY <2>1, <3>1, <3>3 DEF DepthReport
    <2>2. CASE ProfileReport(a)
        <3>1. ProfileReport(b)
            BY <1>1, <2>2 DEF ReportsAreSound, DepthReport, ProfileReport
        <3>2. /\ IsList(a.replayed) /\ IsInjective(a.replayed)
              /\ IsList(b.replayed) /\ IsInjective(b.replayed)
            BY <2>2, <3>1 DEF ProfileReport, AreBlocks
        <3>3. /\ ProfileVerdict(a.replayed) = ProfileVerdict(b.replayed)
              /\ a.replayed = << >> <=> b.replayed = << >>
            BY <1>1, <3>2, ProfileVerdictIsOfTheSet, OrdersAreRenamings
        <3> QED
            BY <2>2, <3>1, <3>3 DEF ProfileReport
    <2> QED
        BY <2>1, <2>2 DEF ReportsAreSound
<1>2. ASSUME a.kind = "profile", a.replayed # << >>
      PROVE  a.verdict = ProfileVerdict(Exchanged(a.replayed))
    <2>1. ProfileReport(a)
        BY <1>2 DEF ReportsAreSound, DepthReport
    <2> QED
        BY <1>2, <2>1, ProfileVerdictIsSymmetric DEF ProfileReport
<1> QED
    BY <1>1, <1>2

(* In every report a recommended depth keeps most of the games of most      *)
(* trials, a stable depth is stable for most blocks and in both measures,   *)
(* and no shallower candidate would have passed: the quartiles bound the    *)
(* sample they are taken of, ties and interpolation included                *)
(* (feed_depth.py:430-483, session_profile_stability.py:730-783).           *)
THEOREM VerdictsAlwaysHoldForMost == ExperimentSpec => []VerdictsHoldForMost
<1>1. FeedIsSound => VerdictsHoldForMost
    BY SoundReportsHoldForMost DEF FeedIsSound
<1> QED
    BY <1>1, FeedIsAlwaysSound, PTL

(* A verdict is a function of the set of runs replayed and treats the two   *)
(* profiles alike, whatever the order of submission and whatever else was   *)
(* collected or rejected (feed_depth.py:372-427,                            *)
(* session_profile_stability.py:637-783).                                   *)
THEOREM VerdictsAlwaysFollowTheEvidence == ExperimentSpec => []VerdictsFollowTheEvidence
<1>1. FeedIsSound => VerdictsFollowTheEvidence
    BY SoundReportsFollowTheEvidence DEF FeedIsSound
<1> QED
    BY <1>1, FeedIsAlwaysSound, PTL
=============================================================================
