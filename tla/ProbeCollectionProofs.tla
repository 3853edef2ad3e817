----------------------- MODULE ProbeCollectionProofs -----------------------
(***************************************************************************)
(* Safety of ProbeCollection for any set of queries, any families, any     *)
(* limits, any clock, stepping back or not, and any damage of a power      *)
(* failure. First the types and what a stored run looks like, then what is *)
(* selected and bound, then what may be cited as evidence, that only the   *)
(* clock leaves a run open, that only missing queries are collected, and   *)
(* that the evidence of what is selected is there.                         *)
(***************************************************************************)
EXTENDS ProbeCollection, SequenceTheorems, TLAPS

HoldsRun == Working \ {"create"}
HoldsSnapshot == {"raw", "interpret", "append", "observe"}

(* What a worker refers to exists. *)
RefersToStored(x) ==
    /\ x.pc \in HoldsRun => x.run \in 1..Len(runs)
    /\ x.pc \in HoldsSnapshot => x.snap \in 1..Len(raw)

References == \A i \in Item : RefersToStored(item[i])

StoresGrow ==
    /\ Len(runs') \in Nat /\ Len(runs') >= Len(runs)
    /\ Len(raw') \in Nat /\ Len(raw') >= Len(raw)

(* What happens to one stored run. *)
RunChange(old, new) ==
    \/ new = old
    \/ \E p \in PageRecord, n \in Nat :
          Continues(old, p, n) /\ new = Extended(old, p)
    \/ \E s \in Status \ {"running"}, t \in 1..MaxTime, e \in Nat :
          /\ MayFinish(old, s, t)
          /\ s = "completed" => e = None
          /\ new = Finished(old, s, t, e)

(* The store of runs changes in three ways only. *)
RunCreated ==
    \E i \in Item, t \in 1..MaxTime : runs' = Append(runs, NewRun(i, t))

RunExtended ==
    \E r \in 1..Len(runs), p \in PageRecord, n \in Nat :
        /\ Continues(runs[r], p, n)
        /\ runs' = [runs EXCEPT ![r] = Extended(@, p)]

RunEnded ==
    \E r \in 1..Len(runs), s \in Status \ {"running"}, t \in 1..MaxTime, e \in Nat :
        /\ MayFinish(runs[r], s, t)
        /\ s = "completed" => e = None
        /\ runs' = [runs EXCEPT ![r] = Finished(@, s, t, e)]

RunsStep == runs' = runs \/ RunCreated \/ RunExtended \/ RunEnded

-----------------------------------------------------------------------------
(* Sequences, and the record types. *)

(* A function on 1..n is a sequence: what Kill leaves of the raw store. *)
LEMMA FunctionIsSeq ==
    ASSUME NEW S, NEW n \in Nat, NEW f \in [1..n -> S]
    PROVE  f \in Seq(S) /\ Len(f) = n
BY SeqDef

(* The completion time is one of the three times it is computed from, and the latest. *)
LEMMA LatestTimeOfThree ==
    ASSUME NEW a \in Nat, NEW b \in Nat, NEW c \in Nat
    PROVE  /\ LatestTime({a, b, c}) \in {a, b, c}
           /\ LatestTime({a, b, c}) >= a
           /\ LatestTime({a, b, c}) >= b
           /\ LatestTime({a, b, c}) >= c
<1>1. \E t \in {a, b, c} : \A u \in {a, b, c} : u <= t
  OBVIOUS
<1>2. QED
  BY <1>1 DEF LatestTime

(* The records of an item without a worker are well typed. *)
LEMMA IdleType == Idle \in ItemRecord /\ Waiting \in ItemRecord /\ Failed \in ItemRecord
<1>1. Idle \in ItemRecord
  BY LimitAssumption DEF Idle, ItemRecord, None
<1>2. \A s \in {"waiting", "failed"} : [Idle EXCEPT !.pc = s] \in ItemRecord
  BY <1>1 DEF ItemRecord
<1>3. QED
  BY <1>1, <1>2 DEF Waiting, Failed

(* create_run inserts a well-typed row. *)
LEMMA NewRunType ==
    ASSUME NEW i \in Item, NEW t \in 1..MaxTime
    PROVE  NewRun(i, t) \in RunRecord
BY LimitAssumption DEF NewRun, RunRecord, Status, None

(* finish_run sets the terminal fields and leaves the rest of the row alone. *)
LEMMA RunEndedType ==
    ASSUME NEW r \in RunRecord, NEW s \in Status, NEW t \in 1..MaxTime, NEW e \in Nat
    PROVE  /\ Finished(r, s, t, e) \in RunRecord
           /\ Finished(r, s, t, e).text = r.text
           /\ Finished(r, s, t, e).started = r.started
           /\ Finished(r, s, t, e).status = s
           /\ Finished(r, s, t, e).completed = t
           /\ Finished(r, s, t, e).error = e
           /\ Finished(r, s, t, e).pages = r.pages
<1>1. t \in 0..MaxTime
  BY LimitAssumption
<1>2. Finished(r, s, t, e) \in RunRecord
  BY <1>1 DEF Finished, RunRecord
<1>3. Finished(r, s, t, e).text = r.text
  BY DEF Finished, RunRecord
<1>4. Finished(r, s, t, e).started = r.started
  BY DEF Finished, RunRecord
<1>5. Finished(r, s, t, e).pages = r.pages
  BY DEF Finished, RunRecord
<1>6. Finished(r, s, t, e).status = s
  BY DEF Finished, RunRecord
<1>7. Finished(r, s, t, e).completed = t
  BY DEF Finished, RunRecord
<1>8. Finished(r, s, t, e).error = e
  BY DEF Finished, RunRecord
<1>9. QED
  BY <1>2, <1>3, <1>4, <1>5, <1>6, <1>7, <1>8

(* append_page adds one page and leaves the row of the run alone. *)
LEMMA RunExtendedType ==
    ASSUME NEW r \in RunRecord, NEW p \in PageRecord
    PROVE  /\ Extended(r, p) \in RunRecord
           /\ Extended(r, p).text = r.text
           /\ Extended(r, p).started = r.started
           /\ Extended(r, p).status = r.status
           /\ Extended(r, p).completed = r.completed
           /\ Extended(r, p).error = r.error
           /\ Extended(r, p).pages = Append(r.pages, p)
<1>1. r.pages \in Seq(PageRecord)
  BY DEF RunRecord
<1>2. Append(r.pages, p) \in Seq(PageRecord)
  BY <1>1, AppendProperties
<1>3. QED
  BY <1>2 DEF RunRecord, Extended

-----------------------------------------------------------------------------
(* What a step of the store does to it: runs are never dropped, and each   *)
(* run that was there is unchanged, extended or ended.                     *)
LEMMA RunsStepEffect ==
    ASSUME runs \in Seq(RunRecord), RunsStep
    PROVE  /\ runs' \in Seq(RunRecord)
           /\ Len(runs') \in Len(runs)..(Len(runs) + 1)
           /\ Len(runs') > Len(runs) =>
                 \E i \in Item, t \in 1..MaxTime : runs'[Len(runs')] = NewRun(i, t)
           /\ \A r \in 1..Len(runs) : RunChange(runs[r], runs'[r])
<1>0. Len(runs) \in Nat
  BY LenProperties
<1>1. CASE runs' = runs
  BY <1>0, <1>1 DEF RunChange
<1>2. CASE RunCreated
  <2>1. PICK i \in Item, t \in 1..MaxTime : runs' = Append(runs, NewRun(i, t))
    BY <1>2 DEF RunCreated
  <2>2. NewRun(i, t) \in RunRecord
    BY NewRunType
  <2>3. \A r \in 1..Len(runs) : RunChange(runs[r], runs'[r])
    BY <2>1, <2>2, AppendProperties DEF RunChange
  <2>4. QED
    BY <1>0, <2>1, <2>2, <2>3, AppendProperties
<1>3. ASSUME NEW r \in 1..Len(runs), NEW x \in RunRecord,
             RunChange(runs[r], x), runs' = [runs EXCEPT ![r] = x]
      PROVE  /\ runs' \in Seq(RunRecord)
             /\ Len(runs') = Len(runs)
             /\ \A q \in 1..Len(runs) : RunChange(runs[q], runs'[q])
  <2>1. \A q \in 1..Len(runs) : runs'[q] = IF q = r THEN x ELSE runs[q]
    BY <1>3, ExceptSeq
  <2>2. \A q \in 1..Len(runs) : RunChange(runs[q], runs[q])
    BY DEF RunChange
  <2>3. QED
    BY <1>3, <2>1, <2>2, ExceptSeq
<1>4. CASE RunExtended
  <2>1. PICK r \in 1..Len(runs), p \in PageRecord, n \in Nat :
            /\ Continues(runs[r], p, n)
            /\ runs' = [runs EXCEPT ![r] = Extended(@, p)]
    BY <1>4 DEF RunExtended
  <2>2. Extended(runs[r], p) \in RunRecord
    BY ElementOfSeq, RunExtendedType
  <2>3. RunChange(runs[r], Extended(runs[r], p))
    BY <2>1 DEF RunChange
  <2>4. /\ runs' \in Seq(RunRecord)
        /\ Len(runs') = Len(runs)
        /\ \A q \in 1..Len(runs) : RunChange(runs[q], runs'[q])
    BY <1>3, <2>1, <2>2, <2>3
  <2>5. QED
    BY <1>0, <2>4
<1>5. CASE RunEnded
  <2>1. PICK r \in 1..Len(runs), s \in Status \ {"running"}, t \in 1..MaxTime, e \in Nat :
            /\ MayFinish(runs[r], s, t)
            /\ s = "completed" => e = None
            /\ runs' = [runs EXCEPT ![r] = Finished(@, s, t, e)]
    BY <1>5 DEF RunEnded
  <2>2. Finished(runs[r], s, t, e) \in RunRecord
    BY ElementOfSeq, RunEndedType
  <2>3. RunChange(runs[r], Finished(runs[r], s, t, e))
    BY <2>1 DEF RunChange
  <2>4. /\ runs' \in Seq(RunRecord)
        /\ Len(runs') = Len(runs)
        /\ \A q \in 1..Len(runs) : RunChange(runs[q], runs'[q])
    BY <1>3, <2>1, <2>2, <2>3
  <2>5. QED
    BY <1>0, <2>4
<1>6. QED
  BY <1>1, <1>2, <1>4, <1>5 DEF RunsStep

-----------------------------------------------------------------------------
(* A step of one worker, which refers to what exists afterwards. *)
LEMMA ItemStep ==
    ASSUME TypeOK, References,
           NEW i \in Item, NEW x \in ItemRecord,
           item' = [item EXCEPT ![i] = x],
           StoresGrow, RefersToStored(x)'
    PROVE  item' \in [Item -> ItemRecord] /\ References'
<1>1. item \in [Item -> ItemRecord]
  BY DEF TypeOK
<1>2. Len(runs) \in Nat /\ Len(raw) \in Nat
  BY LenProperties DEF TypeOK
<1>3. item' \in [Item -> ItemRecord]
  BY <1>1
<1>4. ASSUME NEW j \in Item
      PROVE  RefersToStored(item[j])'
  <2>1. CASE j = i
    BY <1>1, <2>1
  <2>2. CASE j # i
    BY <1>1, <1>2, <2>2 DEF References, RefersToStored, StoresGrow
  <2>3. QED
    BY <2>1, <2>2
<1>5. QED
  BY <1>3, <1>4 DEF References, RefersToStored

(* The invocation ends or begins: no worker refers to anything. *)
LEMMA AllIdle ==
    ASSUME item' \in [Item -> {Idle, Waiting}]
    PROVE  item' \in [Item -> ItemRecord] /\ References'
<1>1. \A i \in Item : item'[i].pc \notin HoldsRun \cup HoldsSnapshot
  BY DEF Idle, Waiting, HoldsRun, HoldsSnapshot, Working
<1>2. QED
  BY <1>1, IdleType DEF References, RefersToStored

(* A clock reading is within the bound. *)
LEMMA ReadingsType == TypeOK => Readings \subseteq 1..MaxTime
BY DEF TypeOK, Readings

(* So is the completion time of an item that has a run. *)
LEMMA CompletionType ==
    ASSUME TypeOK, References, NEW i \in Item, item[i].pc \in HoldsRun, NEW t \in Readings
    PROVE  CompletionTime(i, t) \in 1..MaxTime
<1>1. t \in 1..MaxTime
  BY ReadingsType
<1>2. runs[item[i].run] \in RunRecord
  BY ElementOfSeq DEF TypeOK, References, RefersToStored
<1>3. runs[item[i].run].started \in 1..MaxTime
  BY <1>2 DEF RunRecord
<1>4. item[i].last \in 0..MaxTime
  BY DEF TypeOK, ItemRecord
<1>5. QED
  BY <1>1, <1>3, <1>4, LatestTimeOfThree, LimitAssumption DEF CompletionTime

(* The page made of a stored snapshot is well typed. *)
LEMMA PageOfType ==
    ASSUME TypeOK, NEW s \in 1..Len(raw)
    PROVE  PageOf(s) \in PageRecord
<1>1. raw[s] \in SnapshotRecord
  BY ElementOfSeq DEF TypeOK
<1>2. s \in Nat
  BY LenProperties DEF TypeOK
<1>3. QED
  BY <1>1, <1>2 DEF PageOf, PageRecord, SnapshotRecord

(* The empty workdir is well typed. *)
LEMMA InitType == Init => TypeOK /\ References
<1> SUFFICES ASSUME Init
             PROVE  TypeOK /\ References
  OBVIOUS
<1>1. runs \in Seq(RunRecord) /\ raw \in Seq(SnapshotRecord) /\ Len(runs) = 0 /\ Len(raw) = 0
  BY EmptySeq DEF Init
<1>2. item \in [Item -> ItemRecord]
  BY IdleType DEF Init
<1>3. References
  BY DEF Init, References, RefersToStored, Idle, HoldsRun, HoldsSnapshot, Working
<1>4. QED
  BY <1>1, <1>2, <1>3, LimitAssumption DEF Init, TypeOK, Phase, None

(* Every step keeps the types and the references, and changes the store of *)
(* runs in one of the three ways above or not at all.                      *)
LEMMA StepType ==
    TypeOK /\ References /\ [Next]_vars => RunsStep /\ TypeOK' /\ References'
<1> SUFFICES ASSUME TypeOK, References, [Next]_vars
             PROVE  RunsStep /\ TypeOK' /\ References'
  OBVIOUS
<1>0. /\ Len(runs) \in Nat
      /\ Len(raw) \in Nat
      /\ item \in [Item -> ItemRecord]
      /\ \A i \in Item : item[i] \in ItemRecord
  BY LenProperties DEF TypeOK
<1>1. ASSUME Invoke
      PROVE  RunsStep /\ TypeOK' /\ References'
  <2>1. item' \in [Item -> ItemRecord] /\ References'
    <3>1. CASE item' = item /\ UNCHANGED durable
      BY <3>1, <1>0 DEF References, RefersToStored, durable
    <3>2. CASE item' = [i \in Item |-> IF selected'[i] = None THEN Waiting ELSE Idle]
      BY <3>2, AllIdle
    <3>3. QED
      BY <3>1, <3>2, <1>1 DEF Invoke
  <2>2. selected' \in [Item -> 0..Len(runs)] /\ phase' \in Phase
    BY <1>1 DEF Invoke, TypeOK, Phase, None
  <2>3. invocation' \in 0..MaxInvocations
    BY <1>1, LimitAssumption DEF Invoke, TypeOK
  <2>4. UNCHANGED <<runs, raw, analysed, bound, clock>>
    BY <1>1 DEF Invoke, durable
  <2>5. QED
    BY <2>1, <2>2, <2>3, <2>4 DEF TypeOK, RunsStep
<1>2. ASSUME NEW i \in Item, Submit(i)
      PROVE  RunsStep /\ TypeOK' /\ References'
  <2>1. UNCHANGED <<runs, raw, analysed, bound, clock, invocation, phase, selected>>
    BY <1>2 DEF Submit, durable
  <2>2. PICK x : x = [item[i] EXCEPT !.pc = "create", !.attempt = 1]
    OBVIOUS
  <2>3. 1 \in 0..MaxAttempts
    BY LimitAssumption
  <2>4. x \in ItemRecord
    BY <1>0, <2>2, <2>3 DEF ItemRecord, Working
  <2>5. x.pc = "create"
    BY <1>0, <2>2 DEF ItemRecord
  <2>6. item' = [item EXCEPT ![i] = x]
    BY <1>2, <1>0, <2>2 DEF Submit
  <2>7. StoresGrow /\ RefersToStored(x)'
    BY <1>0, <2>1, <2>5 DEF StoresGrow, RefersToStored, HoldsRun, HoldsSnapshot
  <2>8. item' \in [Item -> ItemRecord] /\ References'
    BY <2>4, <2>6, <2>7, ItemStep
  <2>9. QED
    BY <2>1, <2>8 DEF TypeOK, RunsStep
<1>3. ASSUME NEW i \in Item, CreateRun(i)
      PROVE  RunsStep /\ TypeOK' /\ References'
  <2>1. PICK t \in Readings : clock' = t /\ runs' = Append(runs, NewRun(i, t))
    BY <1>3 DEF CreateRun
  <2>2. t \in 1..MaxTime
    BY ReadingsType
  <2>3. /\ runs' \in Seq(RunRecord)
        /\ Len(runs') = Len(runs) + 1
        /\ RunsStep
    BY <2>1, <2>2, NewRunType, AppendProperties DEF TypeOK, RunsStep, RunCreated
  <2>4. UNCHANGED <<raw, analysed, bound, invocation, phase, selected>>
    BY <1>3 DEF CreateRun
  <2>5. PICK x : x = [Idle EXCEPT !.pc = "request", !.attempt = item[i].attempt,
                                  !.run = Len(runs) + 1]
    OBVIOUS
  <2>6. Len(runs) + 1 \in Nat /\ item[i].attempt \in 0..MaxAttempts
    BY <1>0 DEF ItemRecord
  <2>7. x \in ItemRecord
    BY <2>5, <2>6, IdleType DEF ItemRecord, Working
  <2>8. x.pc = "request" /\ x.run = Len(runs) + 1
    BY <2>5 DEF Idle
  <2>9. item' = [item EXCEPT ![i] = x]
    BY <1>3, <2>5 DEF CreateRun
  <2>10. StoresGrow /\ RefersToStored(x)'
    BY <1>0, <2>3, <2>4, <2>8 DEF StoresGrow, RefersToStored, HoldsSnapshot
  <2>11. item' \in [Item -> ItemRecord] /\ References'
    BY <2>7, <2>9, <2>10, ItemStep
  <2>12. QED
    BY <1>0, <2>1, <2>2, <2>3, <2>4, <2>11 DEF TypeOK
<1>4. ASSUME NEW i \in Item, TransportError(i)
      PROVE  RunsStep /\ TypeOK' /\ References'
  <2>1. UNCHANGED <<runs, raw, analysed, bound, clock, invocation, phase, selected>>
    BY <1>4 DEF TransportError, durable
  <2>2. PICK retryable \in BOOLEAN :
            item' = [item EXCEPT ![i].pc = "fail", ![i].transport = retryable]
    BY <1>4 DEF TransportError
  <2>3. PICK x : x = [item[i] EXCEPT !.pc = "fail", !.transport = retryable]
    OBVIOUS
  <2>4. x \in ItemRecord /\ x.pc = "fail" /\ x.run = item[i].run
    BY <1>0, <2>3 DEF ItemRecord, Working
  <2>5. item' = [item EXCEPT ![i] = x]
    BY <1>0, <2>2, <2>3
  <2>6. item[i].run \in 1..Len(runs)
    BY <1>4 DEF TransportError, At, References, RefersToStored, HoldsRun, Working
  <2>7. StoresGrow /\ RefersToStored(x)'
    BY <1>0, <2>1, <2>4, <2>6 DEF StoresGrow, RefersToStored, HoldsSnapshot
  <2>8. item' \in [Item -> ItemRecord] /\ References'
    BY <2>4, <2>5, <2>7, ItemStep
  <2>9. QED
    BY <2>1, <2>8 DEF TypeOK, RunsStep
<1>5. ASSUME NEW i \in Item, Respond(i)
      PROVE  RunsStep /\ TypeOK' /\ References'
  <2>1. PICK t \in Readings, k \in Kind, more \in BOOLEAN, next \in {None, Len(raw) + 1} :
            /\ clock' = t
            /\ raw' = Append(raw, NewSnapshot(k, t, item[i].token, more, next))
    BY <1>5 DEF Respond
  <2>2. t \in 1..MaxTime
    BY ReadingsType
  <2>3. item[i].token \in Nat
    BY <1>0 DEF ItemRecord
  <2>4. NewSnapshot(k, t, item[i].token, more, next) \in SnapshotRecord
    BY <1>0, <2>2, <2>3 DEF NewSnapshot, SnapshotRecord, None
  <2>5. raw' \in Seq(SnapshotRecord) /\ Len(raw') = Len(raw) + 1
    BY <2>1, <2>4, AppendProperties DEF TypeOK
  <2>6. UNCHANGED <<runs, analysed, bound, invocation, phase, selected>>
    BY <1>5 DEF Respond
  <2>7. PICK x : x = [item[i] EXCEPT !.pc = "raw", !.snap = Len(raw) + 1]
    OBVIOUS
  <2>8. Len(raw) + 1 \in Nat
    BY <1>0
  <2>9. x \in ItemRecord /\ x.run = item[i].run /\ x.snap = Len(raw) + 1
    BY <1>0, <2>7, <2>8 DEF ItemRecord, Working
  <2>10. item' = [item EXCEPT ![i] = x]
    BY <1>0, <1>5, <2>7 DEF Respond
  <2>11. item[i].run \in 1..Len(runs)
    BY <1>5 DEF Respond, At, References, RefersToStored, HoldsRun, Working
  <2>12. StoresGrow /\ RefersToStored(x)'
    BY <1>0, <2>5, <2>6, <2>9, <2>11 DEF StoresGrow, RefersToStored
  <2>13. item' \in [Item -> ItemRecord] /\ References'
    BY <2>9, <2>10, <2>12, ItemStep
  <2>14. QED
    BY <1>0, <2>1, <2>2, <2>5, <2>6, <2>13 DEF TypeOK, RunsStep
<1>6. ASSUME NEW i \in Item, PersistMetadata(i)
      PROVE  RunsStep /\ TypeOK' /\ References'
  <2>1. PICK s : s = item[i].snap
    OBVIOUS
  <2>2. item[i].run \in 1..Len(runs) /\ s \in 1..Len(raw)
    BY <1>6, <2>1
    DEF PersistMetadata, At, References, RefersToStored, HoldsRun, HoldsSnapshot, Working
  <2>3. raw[s] \in SnapshotRecord
    BY <2>2, ElementOfSeq DEF TypeOK
  <2>4. [raw[s] EXCEPT !.state = "whole"] \in SnapshotRecord
    BY <2>3 DEF SnapshotRecord
  <2>5. raw[s].at \in 0..MaxTime /\ s \in Nat
    BY <1>0, <2>2, <2>3, LimitAssumption DEF SnapshotRecord
  <2>6. raw' = [raw EXCEPT ![s] = [raw[s] EXCEPT !.state = "whole"]]
    BY <1>6, <2>1 DEF PersistMetadata
  <2>7. raw' \in Seq(SnapshotRecord) /\ Len(raw') = Len(raw)
    BY <2>2, <2>4, <2>6, ExceptSeq DEF TypeOK
  <2>8. PICK x : x = [item[i] EXCEPT !.pc = "interpret", !.last = raw[s].at, !.error = s]
    OBVIOUS
  <2>9. x \in ItemRecord
    BY <1>0, <2>5, <2>8 DEF ItemRecord, Working
  <2>10. x.run = item[i].run /\ x.snap = s
    BY <1>0, <2>1, <2>8 DEF ItemRecord
  <2>11. item' = [item EXCEPT ![i] = x]
    BY <1>0, <1>6, <2>1, <2>8 DEF PersistMetadata
  <2>12. UNCHANGED <<runs, analysed, bound, clock, invocation, phase, selected>>
    BY <1>6 DEF PersistMetadata
  <2>13. StoresGrow /\ RefersToStored(x)'
    BY <1>0, <2>2, <2>7, <2>10, <2>12 DEF StoresGrow, RefersToStored
  <2>14. item' \in [Item -> ItemRecord] /\ References'
    BY <2>9, <2>11, <2>13, ItemStep
  <2>15. QED
    BY <2>7, <2>12, <2>14 DEF TypeOK, RunsStep
<1>7. ASSUME NEW i \in Item, NEW pc \in {"append", "fail", "observe", "report"},
             item[i].pc \in HoldsRun,
             pc \in HoldsSnapshot => item[i].pc \in HoldsSnapshot,
             Goto(i, pc), Len(runs') \in Nat, Len(runs') >= Len(runs), raw' = raw
      PROVE  item' \in [Item -> ItemRecord] /\ References'
  <2>1. PICK x : x = [item[i] EXCEPT !.pc = pc]
    OBVIOUS
  <2>2. x \in ItemRecord /\ x.pc = pc /\ x.run = item[i].run /\ x.snap = item[i].snap
    BY <1>0, <2>1 DEF ItemRecord, Working
  <2>3. item' = [item EXCEPT ![i] = x]
    BY <1>0, <1>7, <2>1 DEF Goto
  <2>4. /\ item[i].run \in 1..Len(runs')
        /\ pc \in HoldsSnapshot => item[i].snap \in 1..Len(raw')
    BY <1>0, <1>7 DEF References, RefersToStored
  <2>5. RefersToStored(x)'
    BY <2>2, <2>4 DEF RefersToStored
  <2>6. StoresGrow
    BY <1>0, <1>7 DEF StoresGrow
  <2>7. QED
    BY <2>2, <2>3, <2>5, <2>6, ItemStep
<1>8. ASSUME NEW i \in Item, RawWriteFails(i)
      PROVE  RunsStep /\ TypeOK' /\ References'
  <2>1. UNCHANGED <<runs, raw, analysed, bound, clock, invocation, phase, selected>>
    BY <1>8 DEF RawWriteFails, durable
  <2>2. item' \in [Item -> ItemRecord] /\ References'
    BY <1>0, <1>7, <1>8, <2>1 DEF RawWriteFails, At, HoldsRun, HoldsSnapshot, Working
  <2>3. QED
    BY <2>1, <2>2 DEF TypeOK, RunsStep
<1>9. ASSUME NEW i \in Item, Interpret(i)
      PROVE  RunsStep /\ TypeOK' /\ References'
  <2>1. UNCHANGED <<runs, raw, bound, clock, invocation, phase, selected>>
    BY <1>9 DEF Interpret
  <2>2. item[i].pc \in HoldsRun \cap HoldsSnapshot
    BY <1>9 DEF Interpret, At, HoldsRun, HoldsSnapshot, Working
  <2>3. item[i].snap \in 1..Len(raw)
    BY <2>2 DEF References, RefersToStored
  <2>4. analysed' \subseteq 1..Len(raw)
    BY <1>9, <2>3 DEF Interpret, TypeOK
  <2>5. PICK pc \in {"append", "fail"} : Goto(i, pc)
    BY <1>9 DEF Interpret
  <2>6. item' \in [Item -> ItemRecord] /\ References'
    BY <1>0, <1>7, <2>1, <2>2, <2>5
  <2>7. QED
    BY <2>1, <2>4, <2>6 DEF TypeOK, RunsStep
<1>10. ASSUME NEW i \in Item, AppendPage(i)
       PROVE  RunsStep /\ TypeOK' /\ References'
  <2> DEFINE p == PageOf(item[i].snap)
             r == item[i].run
  <2>1. UNCHANGED <<raw, analysed, bound, clock, invocation, phase, selected>>
    BY <1>10 DEF AppendPage
  <2>2. item[i].pc \in HoldsRun \cap HoldsSnapshot
    BY <1>10 DEF AppendPage, At, HoldsRun, HoldsSnapshot, Working
  <2>3. r \in 1..Len(runs) /\ p \in PageRecord
    BY <2>2, PageOfType DEF References, RefersToStored
  <2>4. item[i].page \in Nat
    BY <1>0 DEF ItemRecord
  <2>5. RunsStep
    <3>1. CASE Continues(runs[r], p, item[i].page)
      BY <1>10, <2>3, <2>4, <3>1 DEF AppendPage, RunsStep, RunExtended
    <3>2. CASE ~Continues(runs[r], p, item[i].page)
      BY <1>10, <3>2 DEF AppendPage, RunsStep
    <3>3. QED
      BY <3>1, <3>2
  <2>6. runs' \in Seq(RunRecord) /\ Len(runs') \in Len(runs)..(Len(runs) + 1)
    BY <2>5, RunsStepEffect DEF TypeOK
  <2>7. PICK pc \in {"observe", "fail"} : Goto(i, pc)
    BY <1>10 DEF AppendPage
  <2>8. item' \in [Item -> ItemRecord] /\ References'
    BY <1>0, <1>7, <2>1, <2>2, <2>6, <2>7
  <2>9. bound \in [Item -> 0..Len(runs')] /\ selected \in [Item -> 0..Len(runs')]
    BY <1>0, <2>6 DEF TypeOK
  <2>10. QED
    BY <2>1, <2>5, <2>6, <2>8, <2>9 DEF TypeOK
<1>11. ASSUME NEW i \in Item, ObservePage(i)
       PROVE  RunsStep /\ TypeOK' /\ References'
  <2>1. UNCHANGED <<runs, raw, analysed, bound, clock, invocation, phase, selected>>
    BY <1>11 DEF ObservePage, durable
  <2>2. item[i].pc \in HoldsRun \cap HoldsSnapshot
    BY <1>11 DEF ObservePage, At, HoldsRun, HoldsSnapshot, Working
  <2>3. item[i].run \in 1..Len(runs) /\ item[i].snap \in 1..Len(raw)
    BY <2>2 DEF References, RefersToStored
  <2>4. raw[item[i].snap] \in SnapshotRecord
    BY <2>3, ElementOfSeq DEF TypeOK
  <2>5. raw[item[i].snap].next \in Nat
    BY <2>4 DEF SnapshotRecord
  <2>6. item[i].page + 1 \in Nat
    BY <1>0 DEF ItemRecord
  <2>7. PICK x : x = AfterPage(item[i], raw[item[i].snap])
    OBVIOUS
  <2>8. \/ x = [item[i] EXCEPT !.pc = "finish", !.error = None]
        \/ x = [item[i] EXCEPT !.pc = "fail"]
        \/ x = [item[i] EXCEPT !.pc = "request", !.error = None,
                   !.token = raw[item[i].snap].next, !.page = item[i].page + 1]
    BY <2>7 DEF AfterPage
  <2>9. x \in ItemRecord
    <3>1. CASE x = [item[i] EXCEPT !.pc = "finish", !.error = None]
      BY <1>0, <3>1 DEF ItemRecord, Working, None
    <3>2. CASE x = [item[i] EXCEPT !.pc = "fail"]
      BY <1>0, <3>2 DEF ItemRecord, Working
    <3>3. CASE x = [item[i] EXCEPT !.pc = "request", !.error = None,
                      !.token = raw[item[i].snap].next, !.page = item[i].page + 1]
      BY <1>0, <2>5, <2>6, <3>3 DEF ItemRecord, Working, None
    <3>4. QED
      BY <2>8, <3>1, <3>2, <3>3
  <2>10. x.run = item[i].run /\ x.pc \in {"finish", "fail", "request"}
    BY <1>0, <2>8 DEF ItemRecord
  <2>11. item' = [item EXCEPT ![i] = x]
    BY <1>11, <2>7 DEF ObservePage
  <2>12. StoresGrow /\ RefersToStored(x)'
    BY <1>0, <2>1, <2>3, <2>10 DEF StoresGrow, RefersToStored, HoldsSnapshot
  <2>13. item' \in [Item -> ItemRecord] /\ References'
    BY <2>9, <2>11, <2>12, ItemStep
  <2>14. QED
    BY <2>1, <2>13 DEF TypeOK, RunsStep
<1>12. ASSUME NEW i \in Item, ObserverFails(i)
       PROVE  RunsStep /\ TypeOK' /\ References'
  <2>1. UNCHANGED <<runs, raw, analysed, bound, clock, invocation, phase, selected>>
    BY <1>12 DEF ObserverFails, durable
  <2>2. item' \in [Item -> ItemRecord] /\ References'
    BY <1>0, <1>7, <1>12, <2>1 DEF ObserverFails, At, HoldsRun, HoldsSnapshot, Working
  <2>3. QED
    BY <2>1, <2>2 DEF TypeOK, RunsStep
<1>13. ASSUME NEW i \in Item, FinishRun(i)
       PROVE  RunsStep /\ TypeOK' /\ References'
  <2> DEFINE r == item[i].run
  <2>1. PICK t \in Readings :
            /\ clock' = t
            /\ IF MayFinish(runs[r], "completed", CompletionTime(i, t))
               THEN /\ runs' = [runs EXCEPT ![r] =
                                   Finished(@, "completed", CompletionTime(i, t), None)]
                    /\ Goto(i, "report")
               ELSE Goto(i, "fail") /\ UNCHANGED runs
    BY <1>13 DEF FinishRun
  <2>2. UNCHANGED <<raw, analysed, bound, invocation, phase, selected>>
    BY <1>13 DEF FinishRun
  <2>3. item[i].pc \in HoldsRun
    BY <1>13 DEF FinishRun, At, HoldsRun, Working
  <2>4. r \in 1..Len(runs) /\ t \in 1..MaxTime /\ CompletionTime(i, t) \in 1..MaxTime
    BY <2>3, ReadingsType, CompletionType DEF References, RefersToStored
  <2>5. RunsStep
    <3>1. CASE MayFinish(runs[r], "completed", CompletionTime(i, t))
      BY <2>1, <2>4, <3>1 DEF RunsStep, RunEnded, Status, None
    <3>2. CASE ~MayFinish(runs[r], "completed", CompletionTime(i, t))
      BY <2>1, <3>2 DEF RunsStep
    <3>3. QED
      BY <3>1, <3>2
  <2>6. runs' \in Seq(RunRecord) /\ Len(runs') \in Len(runs)..(Len(runs) + 1)
    BY <2>5, RunsStepEffect DEF TypeOK
  <2>7. PICK pc \in {"report", "fail"} : Goto(i, pc)
    BY <2>1
  <2>8. item' \in [Item -> ItemRecord] /\ References'
    BY <1>0, <1>7, <2>2, <2>3, <2>6, <2>7 DEF HoldsSnapshot
  <2>9. bound \in [Item -> 0..Len(runs')] /\ selected \in [Item -> 0..Len(runs')]
    BY <1>0, <2>6 DEF TypeOK
  <2>10. QED
    BY <2>1, <2>2, <2>4, <2>5, <2>6, <2>8, <2>9 DEF TypeOK
<1>14. ASSUME NEW i \in Item, PersistFailure(i)
       PROVE  RunsStep /\ TypeOK' /\ References'
  <2> DEFINE r == item[i].run
             s == IF runs[r].pages = <<>> THEN "failed" ELSE "partial"
  <2>1. PICK t \in Readings :
            /\ clock' = t
            /\ runs' = IF MayFinish(runs[r], s, CompletionTime(i, t))
                       THEN [runs EXCEPT ![r] =
                                Finished(@, s, CompletionTime(i, t), item[i].error)]
                       ELSE runs
    BY <1>14 DEF PersistFailure
  <2>2. UNCHANGED <<raw, analysed, bound, invocation, phase, selected>>
    BY <1>14 DEF PersistFailure
  <2>3. item[i].pc \in HoldsRun
    BY <1>14 DEF PersistFailure, At, HoldsRun, Working
  <2>4. r \in 1..Len(runs) /\ t \in 1..MaxTime /\ CompletionTime(i, t) \in 1..MaxTime
    BY <2>3, ReadingsType, CompletionType DEF References, RefersToStored
  <2>5. item[i].error \in Nat /\ item[i].attempt \in 0..MaxAttempts
    BY <1>0 DEF ItemRecord
  <2>6. s \in Status \ {"running"} /\ s # "completed"
    BY DEF Status
  <2> HIDE DEF s
  <2>7. RunsStep
    <3>1. CASE MayFinish(runs[r], s, CompletionTime(i, t))
      BY <2>1, <2>4, <2>5, <2>6, <3>1 DEF RunsStep, RunEnded
    <3>2. CASE ~MayFinish(runs[r], s, CompletionTime(i, t))
      BY <2>1, <3>2 DEF RunsStep
    <3>3. QED
      BY <3>1, <3>2
  <2>8. runs' \in Seq(RunRecord) /\ Len(runs') \in Len(runs)..(Len(runs) + 1)
    BY <2>7, RunsStepEffect DEF TypeOK
  <2>9. PICK x \in AfterFailure(i) : item' = [item EXCEPT ![i] = x]
    BY <1>14 DEF PersistFailure
  <2>10. x \in ItemRecord /\ x.pc \notin HoldsRun \cup HoldsSnapshot
    <3>1. CASE x = Failed
      BY <3>1, IdleType DEF Failed, Idle, HoldsRun, HoldsSnapshot, Working
    <3>2. CASE /\ item[i].attempt < MaxAttempts
               /\ x = [Idle EXCEPT !.pc = "create", !.attempt = item[i].attempt + 1]
      <4>1. item[i].attempt + 1 \in 0..MaxAttempts
        BY <2>5, <3>2, LimitAssumption
      <4>2. QED
        BY <3>2, <4>1, IdleType DEF Idle, ItemRecord, HoldsRun, HoldsSnapshot, Working
    <3>3. QED
      BY <2>9, <3>1, <3>2 DEF AfterFailure
  <2>11. StoresGrow /\ RefersToStored(x)'
    BY <1>0, <2>2, <2>8, <2>10 DEF StoresGrow, RefersToStored
  <2>12. item' \in [Item -> ItemRecord] /\ References'
    BY <2>9, <2>10, <2>11, ItemStep
  <2>13. bound \in [Item -> 0..Len(runs')] /\ selected \in [Item -> 0..Len(runs')]
    BY <1>0, <2>8 DEF TypeOK
  <2>14. QED
    BY <2>1, <2>2, <2>4, <2>7, <2>8, <2>12, <2>13 DEF TypeOK
<1>15. ASSUME NEW i \in Item, Report(i)
       PROVE  RunsStep /\ TypeOK' /\ References'
  <2>1. UNCHANGED <<runs, raw, analysed, bound, clock, invocation, phase>>
    BY <1>15 DEF Report, durable
  <2>2. item' = [item EXCEPT ![i] = Idle]
    BY <1>15 DEF Report
  <2>3. Idle.pc \notin HoldsRun \cup HoldsSnapshot
    BY DEF Idle, HoldsRun, HoldsSnapshot, Working
  <2>4. StoresGrow /\ RefersToStored(Idle)'
    BY <1>0, <2>1, <2>3 DEF StoresGrow, RefersToStored
  <2>5. item' \in [Item -> ItemRecord] /\ References'
    BY <2>2, <2>4, ItemStep, IdleType
  <2>6. item[i].run \in 1..Len(runs)
    BY <1>15 DEF Report, At, References, RefersToStored, HoldsRun, Working
  <2>7. selected' \in [Item -> 0..Len(runs)]
    BY <1>0, <1>15, <2>6 DEF Report, TypeOK
  <2>8. QED
    BY <2>1, <2>5, <2>7 DEF TypeOK, RunsStep
<1>16. ASSUME NEW i \in Item, ReportFails(i)
       PROVE  RunsStep /\ TypeOK' /\ References'
  <2>1. UNCHANGED <<runs, raw, analysed, bound, clock, invocation, phase, selected>>
    BY <1>16 DEF ReportFails, durable
  <2>2. item' = [item EXCEPT ![i] = Failed]
    BY <1>16 DEF ReportFails
  <2>3. Failed.pc \notin HoldsRun \cup HoldsSnapshot
    BY DEF Failed, Idle, HoldsRun, HoldsSnapshot, Working
  <2>4. StoresGrow /\ RefersToStored(Failed)'
    BY <1>0, <2>1, <2>3 DEF StoresGrow, RefersToStored
  <2>5. item' \in [Item -> ItemRecord] /\ References'
    BY <2>2, <2>4, ItemStep, IdleType
  <2>6. QED
    BY <2>1, <2>5 DEF TypeOK, RunsStep
<1>17. ASSUME NEW p \in Phase, Leave(p)
       PROVE  /\ item' \in [Item -> ItemRecord] /\ References'
              /\ selected' \in [Item -> 0..Len(runs)]
              /\ phase' \in Phase
  BY <1>0, <1>17, AllIdle DEF Leave, None
<1>18. ASSUME JoinWorkers
       PROVE  RunsStep /\ TypeOK' /\ References'
  <2>1. UNCHANGED <<runs, raw, analysed, bound, clock, invocation>>
    BY <1>18 DEF JoinWorkers, durable
  <2>2. CASE Leave("failed")
    BY <1>17, <2>1, <2>2 DEF TypeOK, RunsStep, Phase
  <2>3. CASE phase' = "build" /\ UNCHANGED <<item, selected>>
    BY <2>1, <2>3 DEF TypeOK, RunsStep, Phase, References, RefersToStored
  <2>4. QED
    BY <1>18, <2>2, <2>3 DEF JoinWorkers
<1>19. ASSUME NEW f \in Families, BuildComparable(f)
       PROVE  RunsStep /\ TypeOK' /\ References'
  <2>1. UNCHANGED <<runs, raw, analysed, invocation>>
    BY <1>19 DEF BuildComparable
  <2>2. clock' \in 1..MaxTime
    BY <1>19, ReadingsType DEF BuildComparable
  <2>3. CASE /\ UNCHANGED local
             /\ bound' = [i \in Item |-> IF i \in Members(f) THEN selected[i] ELSE bound[i]]
    BY <2>1, <2>2, <2>3 DEF TypeOK, RunsStep, References, RefersToStored, local
  <2>4. CASE Leave("failed") /\ UNCHANGED bound
    BY <1>17, <2>1, <2>2, <2>4 DEF TypeOK, RunsStep, Phase
  <2>5. QED
    BY <1>19, <2>3, <2>4 DEF BuildComparable
<1>20. ASSUME FinishBuild
       PROVE  RunsStep /\ TypeOK' /\ References'
  BY <1>17, <1>20 DEF FinishBuild, TypeOK, RunsStep, Phase, durable
<1>21. ASSUME Kill
       PROVE  RunsStep /\ TypeOK' /\ References'
  <2>1. PICK lost \in SUBSET (1..Len(raw)) :
            raw' = [s \in 1..Len(raw) |->
                       IF s \in lost THEN [raw[s] EXCEPT !.state = "damaged"] ELSE raw[s]]
    BY <1>21 DEF Kill
  <2>2. \A s \in 1..Len(raw) : raw[s] \in SnapshotRecord
    BY ElementOfSeq DEF TypeOK
  <2>3. \A s \in 1..Len(raw) : [raw[s] EXCEPT !.state = "damaged"] \in SnapshotRecord
    BY <2>2 DEF SnapshotRecord
  <2>4. raw' \in [1..Len(raw) -> SnapshotRecord]
    BY <2>1, <2>2, <2>3
  <2>5. raw' \in Seq(SnapshotRecord) /\ Len(raw') = Len(raw)
    BY <1>0, <2>4, FunctionIsSeq
  <2>6. UNCHANGED <<runs, analysed, bound, clock, invocation>> /\ Leave("killed")
    BY <1>21 DEF Kill
  <2>7. QED
    BY <1>17, <2>5, <2>6 DEF TypeOK, RunsStep, Phase
<1>22. ASSUME UNCHANGED vars
       PROVE  RunsStep /\ TypeOK' /\ References'
  BY <1>22 DEF vars, durable, local, TypeOK, RunsStep, References, RefersToStored
<1>23. ASSUME NEW i \in Item, StoreFails(i)
       PROVE  RunsStep /\ TypeOK' /\ References'
  <2>1. UNCHANGED <<runs, raw, analysed, bound, clock, invocation, phase, selected>>
    BY <1>23 DEF StoreFails, durable
  <2>2. CASE item' = [item EXCEPT ![i] = Failed]
    <3>1. Failed.pc \notin HoldsRun \cup HoldsSnapshot
      BY DEF Failed, Idle, HoldsRun, HoldsSnapshot, Working
    <3>2. StoresGrow /\ RefersToStored(Failed)'
      BY <1>0, <2>1, <3>1 DEF StoresGrow, RefersToStored
    <3>3. item' \in [Item -> ItemRecord] /\ References'
      BY <2>2, <3>2, ItemStep, IdleType
    <3>4. QED
      BY <2>1, <3>3 DEF TypeOK, RunsStep
  <2>3. CASE item[i].pc \in {"interpret", "append", "finish"} /\ Goto(i, "fail")
    <3>1. item' \in [Item -> ItemRecord] /\ References'
      BY <1>0, <1>7, <2>1, <2>3 DEF HoldsRun, HoldsSnapshot, Working
    <3>2. QED
      BY <2>1, <3>1 DEF TypeOK, RunsStep
  <2>4. QED
    BY <1>23, <2>2, <2>3 DEF StoreFails
<1>24. QED
  BY <1>1, <1>2, <1>3, <1>4, <1>5, <1>6, <1>8, <1>9, <1>10, <1>11, <1>12, <1>13,
     <1>14, <1>15, <1>16, <1>18, <1>19, <1>20, <1>21, <1>22, <1>23
  DEF Next, CoordinatorStep, RunnerStep, Stopped

-----------------------------------------------------------------------------
(* Every reachable state is well typed, and every reference between runs,  *)
(* snapshots and workers leads to something that exists.                   *)
THEOREM TypeCorrect == Spec => [](TypeOK /\ References)
<1>1. Init => TypeOK /\ References
  BY InitType
<1>2. TypeOK /\ References /\ [Next]_vars => (TypeOK /\ References)'
  BY StepType
<1>3. QED
  BY <1>1, <1>2, PTL DEF Spec

-----------------------------------------------------------------------------
(* A property of single runs that creation establishes and that neither a  *)
(* page nor a terminal status breaks holds of all stored runs.             *)

(* append_page's comparison with the last page alone keeps the whole chain. *)
LEMMA OneChainExtended ==
    ASSUME NEW run \in RunRecord, NEW p \in PageRecord, NEW n \in Nat,
           OneChain(run), Continues(run, p, n)
    PROVE  OneChain(Extended(run, p))
<1> DEFINE pages == Append(run.pages, p)
<1>1. run.pages \in Seq(PageRecord)
  BY DEF RunRecord
<1>2. /\ Len(pages) = Len(run.pages) + 1
      /\ pages[Len(run.pages) + 1] = p
      /\ \A k \in 1..Len(run.pages) : pages[k] = run.pages[k]
      /\ Len(run.pages) \in Nat
  BY <1>1, AppendProperties, LenProperties
<1>3. Extended(run, p).pages = pages /\ Extended(run, p).started = run.started
  BY RunExtendedType
<1>4. Len(pages) <= PageLimit
  BY <1>2, LimitAssumption DEF Continues
<1> HIDE DEF pages
<1>5. ASSUME NEW k \in 1..Len(pages)
      PROVE  IF k = 1 THEN pages[k].token = None /\ run.started <= pages[k].at
             ELSE /\ pages[k - 1].more
                  /\ pages[k - 1].next # None
                  /\ pages[k].token = pages[k - 1].next
                  /\ pages[k - 1].at <= pages[k].at
  <2>1. CASE k \in 1..Len(run.pages)
    <3>1. pages[k] = run.pages[k]
      BY <1>2, <2>1
    <3>2. k # 1 => pages[k - 1] = run.pages[k - 1]
      BY <1>2, <2>1
    <3>3. QED
      BY <2>1, <3>1, <3>2 DEF OneChain
  <2>2. CASE k = Len(run.pages) + 1
    <3>1. pages[k] = p
      BY <1>2, <2>2
    <3>2. k # 1 => pages[k - 1] = run.pages[Len(run.pages)] /\ Len(run.pages) > 0
      BY <1>2, <2>2
    <3>3. run.started \in 1..MaxTime /\ p.at \in 1..MaxTime
      BY DEF RunRecord, PageRecord
    <3>4. k # 1 => run.pages[Len(run.pages)] \in PageRecord
      BY <1>1, <1>2, <3>2, ElementOfSeq
    <3>5. k = 1 => Len(run.pages) = 0
      BY <1>2, <2>2
    <3>6. CASE k = 1
      BY <3>1, <3>3, <3>5, <3>6 DEF Continues
    <3>7. CASE k # 1
      <4>1. /\ run.pages[Len(run.pages)].more
            /\ run.pages[Len(run.pages)].next # None
            /\ run.pages[Len(run.pages)].next = p.token
            /\ p.at >= run.pages[Len(run.pages)].at
        BY <3>2, <3>7 DEF Continues
      <4>2. run.pages[Len(run.pages)].at \in 1..MaxTime
        BY <3>4, <3>7 DEF PageRecord
      <4>3. QED
        BY <3>1, <3>2, <3>3, <3>7, <4>1, <4>2
    <3>8. QED
      BY <3>6, <3>7
  <2>3. QED
    BY <1>2, <2>1, <2>2
<1>6. QED
  BY <1>3, <1>4, <1>5 DEF OneChain

(* No change of a stored run breaks its chain. *)
LEMMA OneChainChange ==
    ASSUME NEW old \in RunRecord, NEW new, OneChain(old), RunChange(old, new)
    PROVE  OneChain(new)
<1>1. CASE new = old
  BY <1>1
<1>2. ASSUME NEW p \in PageRecord, NEW n \in Nat, Continues(old, p, n),
             new = Extended(old, p)
      PROVE  OneChain(new)
  BY <1>2, OneChainExtended
<1>3. ASSUME NEW s \in Status, NEW t \in 1..MaxTime, NEW e \in Nat,
             new = Finished(old, s, t, e)
      PROVE  OneChain(new)
  BY <1>3, RunEndedType DEF OneChain
<1>4. QED
  BY <1>1, <1>2, <1>3 DEF RunChange

(* A run without pages is a chain. *)
LEMMA OneChainNew ==
    ASSUME NEW i \in Item, NEW t \in 1..MaxTime
    PROVE  OneChain(NewRun(i, t))
<1>1. NewRun(i, t).pages = <<>>
  BY DEF NewRun
<1>2. QED
  BY <1>1, LimitAssumption DEF OneChain

(* No change of a stored run parts its status from its pages: pages are    *)
(* added to running runs only, and finish_run checks the rest.             *)
LEMMA EvidencedChange ==
    ASSUME NEW old \in RunRecord, NEW new, Evidenced(old), RunChange(old, new)
    PROVE  Evidenced(new)
<1>1. CASE new = old
  BY <1>1
<1>2. ASSUME NEW p \in PageRecord, NEW n \in Nat, Continues(old, p, n),
             new = Extended(old, p)
      PROVE  Evidenced(new)
  <2>1. old.status = "running"
    BY <1>2 DEF Continues
  <2>2. new.status = "running" /\ new.completed = old.completed /\ new.error = old.error
    BY <1>2, <2>1, RunExtendedType
  <2>3. QED
    BY <2>1, <2>2 DEF Evidenced
<1>3. ASSUME NEW s \in Status \ {"running"}, NEW t \in 1..MaxTime, NEW e \in Nat,
             MayFinish(old, s, t), s = "completed" => e = None,
             new = Finished(old, s, t, e)
      PROVE  Evidenced(new)
  <2>1. /\ new.started = old.started /\ new.status = s /\ new.completed = t
        /\ new.error = e /\ new.pages = old.pages
    BY <1>3, RunEndedType
  <2>2. QED
    BY <1>3, <2>1 DEF MayFinish, Evidenced
<1>4. QED
  BY <1>1, <1>2, <1>3 DEF RunChange

(* A new run claims nothing. *)
LEMMA EvidencedNew ==
    ASSUME NEW i \in Item, NEW t \in 1..MaxTime
    PROVE  Evidenced(NewRun(i, t))
BY DEF NewRun, Evidenced

(* For any clock, page limit and interleaving of queries, and across any   *)
(* number of kills and resumes: every stored run is one chain of pages and *)
(* its status says what its pages show.                                    *)
THEOREM StoredRunsAreSound == Spec => []RunsAreSound
<1> DEFINE Inv == TypeOK /\ References /\ PagesFormOneChain /\ StatusMatchesEvidence
<1>1. Init => Inv
  <2>1. Init => Len(runs) = 0
    BY DEF Init
  <2>2. QED
    BY <2>1, InitType DEF PagesFormOneChain, StatusMatchesEvidence, Run
<1>2. Inv /\ [Next]_vars => Inv'
  <2> SUFFICES ASSUME Inv, [Next]_vars
               PROVE  Inv'
    OBVIOUS
  <2>1. RunsStep /\ TypeOK' /\ References'
    BY StepType
  <2>2. /\ Len(runs') \in Len(runs)..(Len(runs) + 1)
        /\ Len(runs') > Len(runs) =>
              \E i \in Item, t \in 1..MaxTime : runs'[Len(runs')] = NewRun(i, t)
        /\ \A r \in 1..Len(runs) : RunChange(runs[r], runs'[r])
        /\ Len(runs) \in Nat
    BY <2>1, RunsStepEffect, LenProperties DEF TypeOK
  <2>3. ASSUME NEW r \in 1..Len(runs')
        PROVE  OneChain(runs'[r]) /\ Evidenced(runs'[r])
    <3>1. CASE r \in 1..Len(runs)
      <4>1. /\ runs[r] \in RunRecord /\ OneChain(runs[r]) /\ Evidenced(runs[r])
            /\ RunChange(runs[r], runs'[r])
        BY <2>2, <3>1, ElementOfSeq DEF TypeOK, PagesFormOneChain, StatusMatchesEvidence, Run
      <4>2. QED
        BY <4>1, OneChainChange, EvidencedChange
    <3>2. CASE r = Len(runs') /\ Len(runs') > Len(runs)
      BY <2>2, <3>2, OneChainNew, EvidencedNew
    <3>3. QED
      BY <2>2, <3>1, <3>2
  <2>4. QED
    BY <2>1, <2>3 DEF PagesFormOneChain, StatusMatchesEvidence, Run
<1>3. Inv => RunsAreSound
  BY DEF RunsAreSound
<1>4. QED
  BY <1>1, <1>2, <1>3, PTL DEF Spec

-----------------------------------------------------------------------------
(***************************************************************************)
(* What ProbeCollection selects for a comparable and binds into one, as    *)
(* far as the runs themselves go, and that nothing stored is touched again.*)
(***************************************************************************)

(* A worker writes to a run of its own query, and reports it completed. *)
WorkerKnows(i) ==
    /\ item[i].pc \in HoldsRun => runs[item[i].run].text = TextOf[i]
    /\ item[i].pc = "report" => runs[item[i].run].status = "completed"

CompletedFor(i, r) == runs[r].status = "completed" /\ runs[r].text = TextOf[i]

(* A run that resume chose or a worker reported, or one bound earlier. *)
EveryChoiceIsCompleted ==
    \A i \in Item : \A r \in {selected[i], bound[i]} \ {None} : CompletedFor(i, r)

(* Once no worker is left, every query has its run. *)
EndedItemsAreSelected ==
    /\ phase = "search" => \A i \in Item : item[i].pc = "idle" => selected[i] # None
    /\ phase = "build" => \A i \in Item : selected[i] # None

FamiliesAreBoundWhole ==
    \A i, j \in Item : FamilyOf[i] = FamilyOf[j] => (bound[i] = None <=> bound[j] = None)

SelectionInv ==
    /\ TypeOK
    /\ References
    /\ \A i \in Item : WorkerKnows(i)
    /\ EveryChoiceIsCompleted
    /\ EndedItemsAreSelected
    /\ FamiliesAreBoundWhole

(* What one step does to the local state of an item j that its worker,     *)
(* or another one, runs.                                                   *)
ItemChange(j) ==
    \/ item'[j] = item[j]
    \/ item'[j].pc \in {"create", "failed"}
    \/ item'[j].pc = "idle" /\ Report(j)
    \/ CreateRun(j)
    \/ /\ item[j].pc \in HoldsRun /\ item'[j].pc \in HoldsRun
       /\ item'[j].run = item[j].run
       /\ item'[j].pc = "report" => runs'[item[j].run].status = "completed"

-----------------------------------------------------------------------------
(* What is known of a stored run stays true: its query never changes, and  *)
(* a terminal run is left as it is.                                        *)
LEMMA RunsAreKept ==
    ASSUME TypeOK, RunsStep, NEW r \in 1..Len(runs)
    PROVE  /\ r \in 1..Len(runs')
           /\ runs'[r].text = runs[r].text
           /\ runs[r].status # "running" => runs'[r] = runs[r]
           /\ \A k \in 1..Len(runs[r].pages) : runs'[r].pages[k] = runs[r].pages[k]
<1>1. RunChange(runs[r], runs'[r]) /\ Len(runs') \in Len(runs)..(Len(runs) + 1)
  BY RunsStepEffect DEF TypeOK
<1>2. r \in 1..Len(runs')
  BY <1>1, LenProperties DEF TypeOK
<1>3. runs[r] \in RunRecord
  BY ElementOfSeq DEF TypeOK
<1>4. CASE runs'[r] = runs[r]
  BY <1>2, <1>4
<1>5. ASSUME NEW p \in PageRecord, NEW n \in Nat, Continues(runs[r], p, n),
             runs'[r] = Extended(runs[r], p)
      PROVE  /\ runs'[r].text = runs[r].text
             /\ runs[r].status = "running"
             /\ \A k \in 1..Len(runs[r].pages) : runs'[r].pages[k] = runs[r].pages[k]
  <2>1. runs[r].pages \in Seq(PageRecord)
    BY <1>3 DEF RunRecord
  <2>2. runs'[r].text = runs[r].text /\ runs'[r].pages = Append(runs[r].pages, p)
    BY <1>3, <1>5, RunExtendedType
  <2>3. runs[r].status = "running"
    BY <1>5 DEF Continues
  <2>4. QED
    BY <2>1, <2>2, <2>3, AppendProperties
<1>6. ASSUME NEW s \in Status \ {"running"}, NEW t \in 1..MaxTime, NEW e \in Nat,
             MayFinish(runs[r], s, t), runs'[r] = Finished(runs[r], s, t, e)
      PROVE  /\ runs'[r].text = runs[r].text
             /\ runs[r].status = "running"
             /\ runs'[r].pages = runs[r].pages
  BY <1>3, <1>6, RunEndedType DEF MayFinish
<1>7. QED
  BY <1>1, <1>2, <1>4, <1>5, <1>6 DEF RunChange

(* The steps of the workers, seen from one item. *)
LEMMA ItemChanges ==
    ASSUME TypeOK, References, NEW i \in Item, RunnerStep(i) \/ Submit(i), NEW j \in Item
    PROVE  /\ ItemChange(j)
           /\ UNCHANGED <<bound, phase>>
           /\ selected'[j] = selected[j] \/ Report(j)
<1>0. item \in [Item -> ItemRecord] /\ selected \in [Item -> 0..Len(runs)]
  BY DEF TypeOK
<1>1. UNCHANGED <<bound, phase>>
  BY DEF RunnerStep, Submit, CreateRun, TransportError, Respond, PersistMetadata,
         RawWriteFails, Interpret, AppendPage, ObservePage, ObserverFails, FinishRun,
         StoreFails, PersistFailure, Report, ReportFails, durable
<1>2. selected'[j] = selected[j] \/ Report(j)
  <2>1. CASE Report(i)
    BY <1>0, <2>1 DEF Report
  <2>2. CASE ~Report(i)
    BY <2>2
    DEF RunnerStep, Submit, CreateRun, TransportError, Respond, PersistMetadata,
        RawWriteFails, Interpret, AppendPage, ObservePage, ObserverFails, FinishRun,
        StoreFails, PersistFailure, ReportFails
  <2>3. QED
    BY <2>1, <2>2
<1>3. ASSUME j # i
      PROVE  item'[j] = item[j]
  BY <1>0, <1>3
  DEF RunnerStep, Submit, CreateRun, TransportError, Respond, PersistMetadata,
      RawWriteFails, Interpret, AppendPage, ObservePage, ObserverFails, FinishRun,
      StoreFails, PersistFailure, Report, ReportFails, Goto
<1>4. ASSUME j = i
      PROVE  ItemChange(j)
  <2>0. item[j] \in ItemRecord
    BY <1>0
  <2>1. CASE Submit(j)
    BY <1>0, <2>0, <2>1 DEF Submit, ItemChange, ItemRecord
  <2>2. CASE CreateRun(j)
    BY <2>2 DEF ItemChange
  <2>3. CASE \/ TransportError(j) \/ Respond(j) \/ PersistMetadata(j) \/ RawWriteFails(j)
             \/ Interpret(j) \/ AppendPage(j) \/ ObserverFails(j)
    <3>1. item[j].pc \in HoldsRun
      BY <2>3 DEF TransportError, Respond, PersistMetadata, RawWriteFails, Interpret,
                  AppendPage, ObserverFails, At, HoldsRun, Working
    <3>2. /\ item'[j].run = item[j].run
          /\ item'[j].pc \in {"fail", "raw", "interpret", "append", "observe"}
      <4>1. CASE TransportError(j)
        BY <1>0, <2>0, <4>1 DEF TransportError, ItemRecord
      <4>2. CASE Respond(j)
        BY <1>0, <2>0, <4>2 DEF Respond, ItemRecord
      <4>3. CASE PersistMetadata(j)
        BY <1>0, <2>0, <4>3 DEF PersistMetadata, ItemRecord
      <4>4. CASE RawWriteFails(j) \/ Interpret(j) \/ AppendPage(j) \/ ObserverFails(j)
        <5>1. PICK pc \in {"fail", "append", "observe"} : Goto(j, pc)
          BY <4>4 DEF RawWriteFails, Interpret, AppendPage, ObserverFails
        <5>2. QED
          BY <1>0, <2>0, <5>1 DEF Goto, ItemRecord
      <4>5. QED
        BY <2>3, <4>1, <4>2, <4>3, <4>4
    <3>3. QED
      BY <3>1, <3>2 DEF ItemChange, HoldsRun, Working
  <2>4. CASE ObservePage(j)
    <3>1. item[j].pc \in HoldsRun
      BY <2>4 DEF ObservePage, At, HoldsRun, Working
    <3>2. item'[j] = AfterPage(item[j], raw[item[j].snap])
      BY <1>0, <2>4 DEF ObservePage
    <3>3. item'[j].run = item[j].run /\ item'[j].pc \in {"finish", "fail", "request"}
      BY <2>0, <3>2 DEF AfterPage, ItemRecord
    <3>4. QED
      BY <3>1, <3>3 DEF ItemChange, HoldsRun, Working
  <2>5. CASE FinishRun(j)
    <3>1. item[j].pc \in HoldsRun /\ item[j].run \in 1..Len(runs)
      BY <2>5 DEF FinishRun, At, References, RefersToStored, HoldsRun, Working
    <3>2. runs[item[j].run] \in RunRecord
      BY <3>1, ElementOfSeq DEF TypeOK
    <3>3. CASE Goto(j, "fail")
      BY <1>0, <2>0, <3>1, <3>3 DEF Goto, ItemChange, ItemRecord, HoldsRun, Working
    <3>4. ASSUME NEW t \in Readings, Goto(j, "report"),
                 runs' = [runs EXCEPT ![item[j].run] =
                            Finished(@, "completed", CompletionTime(j, t), None)]
          PROVE  ItemChange(j)
      <4>1. runs'[item[j].run]
               = Finished(runs[item[j].run], "completed", CompletionTime(j, t), None)
        BY <3>1, <3>4, ExceptSeq DEF TypeOK
      <4>2. runs'[item[j].run].status = "completed"
        BY <3>2, <4>1 DEF Finished, RunRecord
      <4>3. item'[j].run = item[j].run /\ item'[j].pc = "report"
        BY <1>0, <2>0, <3>4 DEF Goto, ItemRecord
      <4>4. QED
        BY <3>1, <4>2, <4>3 DEF ItemChange, HoldsRun, Working
    <3>5. QED
      BY <2>5, <3>3, <3>4 DEF FinishRun
  <2>6. CASE StoreFails(j)
    <3>1. CASE item' = [item EXCEPT ![j] = Failed]
      BY <1>0, <3>1 DEF ItemChange, Failed, Idle
    <3>2. CASE item[j].pc \in {"interpret", "append", "finish"} /\ Goto(j, "fail")
      BY <1>0, <2>0, <3>2 DEF Goto, ItemChange, ItemRecord, HoldsRun, Working
    <3>3. QED
      BY <2>6, <3>1, <3>2 DEF StoreFails
  <2>7. CASE PersistFailure(j)
    <3>1. PICK x \in AfterFailure(j) : item' = [item EXCEPT ![j] = x]
      BY <2>7 DEF PersistFailure
    <3>2. x.pc \in {"create", "failed"}
      BY <3>1 DEF AfterFailure, Failed, Idle
    <3>3. QED
      BY <1>0, <3>1, <3>2 DEF ItemChange
  <2>8. CASE Report(j)
    BY <1>0, <2>8 DEF Report, ItemChange, Idle
  <2>9. CASE ReportFails(j)
    BY <1>0, <2>9 DEF ReportFails, ItemChange, Failed, Idle
  <2>10. QED
    BY <1>4, <2>1, <2>2, <2>3, <2>4, <2>5, <2>6, <2>7, <2>8, <2>9 DEF RunnerStep
<1>5. QED
  BY <1>1, <1>2, <1>3, <1>4 DEF ItemChange

(* No step makes a worker write to the run of another query, or report a   *)
(* run that is not completed.                                              *)
LEMMA WorkersKnow ==
    ASSUME TypeOK, References, RunsStep, TypeOK', References', NEW j \in Item,
           WorkerKnows(j), ItemChange(j)
    PROVE  WorkerKnows(j)'
<1>1. item[j].pc \in HoldsRun => item[j].run \in 1..Len(runs)
  BY DEF References, RefersToStored
<1>2. item[j].pc = "report" => item[j].pc \in HoldsRun
  BY DEF HoldsRun, Working
<1>3. CASE item'[j] = item[j]
  <2>1. ASSUME item[j].pc \in HoldsRun
        PROVE  runs'[item[j].run].text = TextOf[j]
    BY <1>1, <2>1, RunsAreKept DEF WorkerKnows
  <2>2. ASSUME item[j].pc = "report"
        PROVE  runs'[item[j].run].status = "completed"
    BY <1>1, <1>2, <2>2, RunsAreKept DEF WorkerKnows
  <2>3. QED
    BY <1>3, <2>1, <2>2 DEF WorkerKnows
<1>4. CASE item'[j].pc \in {"create", "failed", "idle"}
  BY <1>4 DEF WorkerKnows, HoldsRun, Working
<1>5. CASE /\ item[j].pc \in HoldsRun
           /\ item'[j].run = item[j].run
           /\ item'[j].pc = "report" => runs'[item[j].run].status = "completed"
  <2>1. runs'[item'[j].run].text = TextOf[j]
    BY <1>1, <1>5, RunsAreKept DEF WorkerKnows
  <2>2. QED
    BY <1>5, <2>1 DEF WorkerKnows
<1>6. CASE CreateRun(j)
  <2>1. PICK t \in Readings : runs' = Append(runs, NewRun(j, t))
    BY <1>6 DEF CreateRun
  <2>2. t \in 1..MaxTime
    BY ReadingsType
  <2>3. runs'[Len(runs) + 1] = NewRun(j, t)
    BY <2>1, <2>2, NewRunType, AppendProperties DEF TypeOK
  <2>4. runs'[Len(runs) + 1].text = TextOf[j]
    BY <2>3 DEF NewRun
  <2>5. item'[j].run = Len(runs) + 1 /\ item'[j].pc = "request"
    BY <1>6 DEF CreateRun, TypeOK, Idle
  <2>6. QED
    BY <2>4, <2>5 DEF WorkerKnows
<1>7. QED
  BY <1>3, <1>4, <1>5, <1>6 DEF ItemChange

(* Whatever resume reuses is a completed run of the query: one that a      *)
(* comparable binds, or a candidate.                                       *)
LEMMA ChoicesAreCompleted ==
    ASSUME EveryChoiceIsCompleted, NEW i \in Item, NEW r \in Choices(i), r # None
    PROVE  CompletedFor(i, r)
<1>1. CASE bound[i] # None
  BY <1>1 DEF Choices, EveryChoiceIsCompleted
<1>2. CASE bound[i] = None
  <2>1. r \in BestCandidates(i)
    BY <1>2 DEF Choices, BestCandidates, Candidates
  <2>2. QED
    BY <2>1 DEF BestCandidates, Candidates, Reusable, CompletedFor
<1>3. QED
  BY <1>1, <1>2

-----------------------------------------------------------------------------
(* The empty workdir selects and binds nothing. *)
LEMMA SelectionInit == Init => SelectionInv
<1> SUFFICES ASSUME Init
             PROVE  SelectionInv
  OBVIOUS
<1>1. \A i \in Item : WorkerKnows(i)
  BY DEF Init, WorkerKnows, Idle, HoldsRun, Working
<1>2. EveryChoiceIsCompleted /\ EndedItemsAreSelected /\ FamiliesAreBoundWhole
  BY DEF Init, EveryChoiceIsCompleted, EndedItemsAreSelected, FamiliesAreBoundWhole
<1>3. QED
  BY <1>1, <1>2, InitType DEF SelectionInv

(* Each step keeps it. Workers alone move items; the coordinator selects   *)
(* when it resumes, binds what is selected, and otherwise clears it all.   *)
LEMMA SelectionStep == SelectionInv /\ [Next]_vars => SelectionInv'
<1> SUFFICES ASSUME SelectionInv, [Next]_vars
             PROVE  SelectionInv'
  OBVIOUS
<1> USE DEF SelectionInv
<1>0. RunsStep /\ TypeOK' /\ References'
  BY StepType
<1>1. ASSUME NEW i \in Item, NEW r \in 1..Len(runs), CompletedFor(i, r)
      PROVE  CompletedFor(i, r)'
  BY <1>0, <1>1, RunsAreKept DEF CompletedFor
<1>2. ASSUME NEW i \in Item, NEW r \in {selected[i], bound[i]} \ {None}
      PROVE  CompletedFor(i, r)'
  <2>1. r \in 1..Len(runs)
    BY DEF TypeOK, None
  <2>2. QED
    BY <1>1, <2>1 DEF EveryChoiceIsCompleted
<1>3. ASSUME UNCHANGED item
      PROVE  \A j \in Item : WorkerKnows(j)'
  BY <1>0, <1>3, WorkersKnow DEF ItemChange
<1>4. ASSUME \A j \in Item : item'[j] \in {Idle, Waiting}
      PROVE  \A j \in Item : WorkerKnows(j)'
  BY <1>4 DEF WorkerKnows, Idle, Waiting, HoldsRun, Working
<1>5. ASSUME NEW p \in {"failed", "done", "killed"}, Leave(p), UNCHANGED bound
      PROVE  SelectionInv'
  <2>1. \A j \in Item : WorkerKnows(j)'
    BY <1>4, <1>5 DEF Leave
  <2>2. EveryChoiceIsCompleted'
    <3> SUFFICES ASSUME NEW i \in Item, NEW r \in {selected'[i], bound'[i]} \ {None}
                 PROVE  CompletedFor(i, r)'
      BY DEF EveryChoiceIsCompleted, CompletedFor
    <3>1. r = bound[i]
      BY <1>5 DEF Leave
    <3>2. QED
      BY <1>2, <3>1
  <2>3. EndedItemsAreSelected' /\ FamiliesAreBoundWhole'
    BY <1>5 DEF Leave, EndedItemsAreSelected, FamiliesAreBoundWhole
  <2>4. QED
    BY <1>0, <2>1, <2>2, <2>3
<1>6. ASSUME UNCHANGED <<item, selected, bound>>
      PROVE  /\ \A j \in Item : WorkerKnows(j)'
             /\ EveryChoiceIsCompleted'
             /\ FamiliesAreBoundWhole'
  <2>1. EveryChoiceIsCompleted'
    <3> SUFFICES ASSUME NEW i \in Item, NEW r \in {selected'[i], bound'[i]} \ {None}
                 PROVE  CompletedFor(i, r)'
      BY DEF EveryChoiceIsCompleted, CompletedFor
    <3>1. QED
      BY <1>2, <1>6
  <2>2. QED
    BY <1>3, <1>6, <2>1 DEF FamiliesAreBoundWhole
<1>7. ASSUME NEW i \in Item, RunnerStep(i) \/ Submit(i)
      PROVE  SelectionInv'
  <2>1. /\ \A j \in Item : ItemChange(j)
        /\ UNCHANGED <<bound, phase>>
        /\ \A j \in Item : selected'[j] = selected[j] \/ Report(j)
    BY <1>7, ItemChanges
  <2>2. \A j \in Item : WorkerKnows(j)'
    BY <1>0, <2>1, WorkersKnow
  <2>3. ASSUME NEW j \in Item, Report(j)
        PROVE  /\ selected'[j] = item[j].run
               /\ item[j].run \in 1..Len(runs)
               /\ CompletedFor(j, item[j].run)
    <3>1. item[j].pc = "report" /\ item[j].pc \in HoldsRun
      BY <2>3 DEF Report, At, HoldsRun, Working
    <3>2. item[j].run \in 1..Len(runs) /\ CompletedFor(j, item[j].run)
      BY <3>1 DEF References, RefersToStored, WorkerKnows, CompletedFor
    <3>3. selected'[j] = item[j].run
      BY <2>3 DEF Report, TypeOK
    <3>4. QED
      BY <3>2, <3>3
  <2>4. EveryChoiceIsCompleted'
    <3> SUFFICES ASSUME NEW j \in Item, NEW r \in {selected'[j], bound'[j]} \ {None}
                 PROVE  CompletedFor(j, r)'
      BY DEF EveryChoiceIsCompleted, CompletedFor
    <3>1. CASE r \in {selected[j], bound[j]}
      BY <1>2, <3>1
    <3>2. CASE Report(j) /\ r = selected'[j]
      BY <1>1, <2>3, <3>2
    <3>3. QED
      BY <2>1, <3>1, <3>2
  <2>5. EndedItemsAreSelected'
    <3>1. ASSUME NEW j \in Item, selected[j] # None
          PROVE  selected'[j] # None
      BY <2>1, <2>3, <3>1 DEF None
    <3>2. ASSUME NEW j \in Item, phase = "search", item'[j].pc = "idle"
          PROVE  selected'[j] # None
      <4>1. CASE item'[j] = item[j]
        BY <3>1, <3>2, <4>1 DEF EndedItemsAreSelected
      <4>2. CASE Report(j)
        BY <2>3, <4>2 DEF None
      <4>3. ~CreateRun(j)
        BY <3>2 DEF CreateRun, Idle, TypeOK
      <4>4. QED
        BY <2>1, <3>2, <4>1, <4>2, <4>3 DEF ItemChange, HoldsRun, Working
    <3>3. QED
      BY <2>1, <3>1, <3>2 DEF EndedItemsAreSelected
  <2>6. FamiliesAreBoundWhole'
    BY <2>1 DEF FamiliesAreBoundWhole
  <2>7. QED
    BY <1>0, <2>2, <2>4, <2>5, <2>6
<1>8. ASSUME Invoke
      PROVE  SelectionInv'
  <2>1. UNCHANGED <<bound, runs>>
    BY <1>8 DEF Invoke, durable
  <2>2. CASE phase' = "failed" /\ UNCHANGED <<item, selected>>
    BY <1>0, <1>6, <2>1, <2>2 DEF EndedItemsAreSelected
  <2>3. CASE /\ phase' = "search"
             /\ \A i \in Item : selected'[i] \in Choices(i)
             /\ item' = [i \in Item |-> IF selected'[i] = None THEN Waiting ELSE Idle]
    <3>1. \A j \in Item : WorkerKnows(j)'
      BY <1>4, <2>3
    <3>2. EveryChoiceIsCompleted'
      <4> SUFFICES ASSUME NEW i \in Item, NEW r \in {selected'[i], bound'[i]} \ {None}
                   PROVE  CompletedFor(i, r)'
        BY DEF EveryChoiceIsCompleted, CompletedFor
      <4>1. CASE r = bound[i]
        BY <1>2, <4>1
      <4>2. CASE r = selected'[i]
        BY <2>1, <2>3, <4>2, ChoicesAreCompleted DEF CompletedFor
      <4>3. QED
        BY <2>1, <4>1, <4>2
    <3>3. EndedItemsAreSelected' /\ FamiliesAreBoundWhole'
      BY <2>1, <2>3 DEF EndedItemsAreSelected, FamiliesAreBoundWhole, Waiting, Idle
    <3>4. QED
      BY <1>0, <3>1, <3>2, <3>3
  <2>4. QED
    BY <1>8, <2>2, <2>3 DEF Invoke
<1>9. ASSUME JoinWorkers
      PROVE  SelectionInv'
  <2>1. UNCHANGED bound
    BY <1>9 DEF JoinWorkers, durable
  <2>2. CASE Leave("failed")
    BY <1>5, <2>1, <2>2
  <2>3. CASE /\ \A i \in Item : At(i, "idle")
             /\ phase = "search" /\ phase' = "build"
             /\ UNCHANGED <<item, selected>>
    BY <1>0, <1>6, <2>1, <2>3 DEF EndedItemsAreSelected, At
  <2>4. QED
    BY <1>9, <2>2, <2>3 DEF JoinWorkers
<1>10. ASSUME NEW f \in Families, BuildComparable(f)
       PROVE  SelectionInv'
  <2>1. CASE Leave("failed") /\ UNCHANGED bound
    BY <1>5, <2>1
  <2>2. CASE /\ UNCHANGED local
             /\ bound' = [i \in Item |-> IF i \in Members(f) THEN selected[i] ELSE bound[i]]
    <3>1. phase = "build" /\ \A i \in Item : selected[i] # None
      BY <1>10 DEF BuildComparable, EndedItemsAreSelected
    <3>2. \A j \in Item : WorkerKnows(j)'
      BY <1>3, <2>2 DEF local
    <3>3. EveryChoiceIsCompleted'
      <4> SUFFICES ASSUME NEW i \in Item, NEW r \in {selected'[i], bound'[i]} \ {None}
                   PROVE  CompletedFor(i, r)'
        BY DEF EveryChoiceIsCompleted, CompletedFor
      <4>1. r \in {selected[i], bound[i]}
        BY <2>2 DEF local
      <4>2. QED
        BY <1>2, <4>1
    <3>4. EndedItemsAreSelected'
      BY <2>2, <3>1 DEF local, EndedItemsAreSelected
    <3>5. FamiliesAreBoundWhole'
      BY <2>2, <3>1 DEF FamiliesAreBoundWhole, Members
    <3>6. QED
      BY <1>0, <3>2, <3>3, <3>4, <3>5
  <2>3. QED
    BY <1>10, <2>1, <2>2 DEF BuildComparable
<1>11. CASE FinishBuild \/ Kill
  <2>1. UNCHANGED bound /\ (Leave("done") \/ Leave("killed"))
    BY <1>11 DEF FinishBuild, Kill, durable
  <2>2. QED
    BY <1>5, <2>1
<1>12. CASE UNCHANGED vars
  BY <1>0, <1>6, <1>12 DEF vars, durable, local, EndedItemsAreSelected
<1>13. QED
  BY <1>7, <1>8, <1>9, <1>10, <1>11, <1>12 DEF Next, CoordinatorStep, Stopped

-----------------------------------------------------------------------------
(* A comparable is bound once: the families that are bound are bound as a  *)
(* whole, so building one that is not touches no bound item.               *)
LEMMA BoundIsKept ==
    ASSUME SelectionInv, [Next]_vars, NEW i \in Item, bound[i] # None
    PROVE  bound'[i] = bound[i]
<1>1. CASE \E f \in Families : BuildComparable(f)
  <2>1. PICK f \in Families : BuildComparable(f)
    BY <1>1
  <2>2. PICK j \in Members(f) : bound[j] = None
    BY <2>1 DEF BuildComparable, Built
  <2>3. i \notin Members(f)
    BY <2>2 DEF Members, SelectionInv, FamiliesAreBoundWhole
  <2>4. QED
    BY <2>1, <2>3 DEF BuildComparable
<1>2. CASE \E j \in Item : RunnerStep(j) \/ Submit(j)
  BY <1>2, ItemChanges DEF SelectionInv
<1>3. CASE Invoke \/ JoinWorkers \/ FinishBuild \/ Kill \/ UNCHANGED vars
  BY <1>3 DEF Invoke, JoinWorkers, FinishBuild, Kill, vars, durable
<1>4. QED
  BY <1>1, <1>2, <1>3 DEF Next, CoordinatorStep, Stopped

(* A stored run only grows until it is terminal and is then never touched, *)
(* and a comparable keeps the runs it binds: whatever is retried, resumed, *)
(* killed or collected by several workers at once.                         *)
THEOREM StoredEvidenceStays == Spec => StoredEvidenceIsFinal
<1> DEFINE Final == /\ Len(runs') >= Len(runs)
                    /\ \A r \in Run :
                         /\ runs[r].status # "running" => runs'[r] = runs[r]
                         /\ \A k \in 1..Len(runs[r].pages) :
                              runs'[r].pages[k] = runs[r].pages[k]
                    /\ \A i \in Item : bound[i] # None => bound'[i] = bound[i]
<1>1. ASSUME SelectionInv, [Next]_vars
      PROVE  Final
  <2>1. TypeOK /\ RunsStep
    BY <1>1, StepType DEF SelectionInv
  <2>2. Len(runs') >= Len(runs)
    BY <2>1, RunsStepEffect, LenProperties DEF TypeOK
  <2>3. QED
    BY <1>1, <2>1, <2>2, RunsAreKept, BoundIsKept DEF Run
<1>2. SelectionInv /\ [Next]_vars => [Final]_vars
  BY <1>1
<1>3. QED
  BY <1>2, SelectionInit, SelectionStep, PTL DEF Spec, StoredEvidenceIsFinal

-----------------------------------------------------------------------------
(***************************************************************************)
(* That ProbeCollection cites evidence soundly: each response by one run,  *)
(* only after it was completely written.                                   *)
(***************************************************************************)

Uncited(s) == \A r \in Run : \A k \in 1..Len(runs[r].pages) : runs[r].pages[k].snap # s

(* The continuation token a run has reached. *)
Reached(r) == IF runs[r].pages = <<>> THEN None ELSE Last(r).next

(* Snapshot s answers what run r asked last, and nothing cites it. *)
Answers(r, s) == Uncited(s) /\ raw[s].token = Reached(r)

Blames(r, e) ==
    /\ e <= Len(raw)
    /\ raw[e].state # "body"
    /\ \/ runs[r].pages # <<>> /\ Last(r).snap = e
       \/ Answers(r, e)

(* What may be appended as a page. *)
Citable(s) ==
    /\ Uncited(s)
    /\ s \in analysed
    /\ raw[s].kind = "page"
    /\ raw[s].state # "body"

(* What a page rests on. *)
RestsOnRaw(p) ==
    /\ p.snap \in analysed
    /\ raw[p.snap].kind = "page"
    /\ raw[p.snap].state # "body"
    /\ p = PageOf(p.snap)

(* What a worker at each place knows of its run and its response. *)
KnowsEvidence(w) ==
    /\ w.pc \in {"request", "raw", "finish"} => w.error = None
    /\ w.pc = "request" => w.token = Reached(w.run)
    /\ w.pc \in {"raw", "interpret", "append"} => Answers(w.run, w.snap)
    /\ w.pc \in {"interpret", "append", "observe"} =>
           w.error = w.snap /\ raw[w.snap].state # "body"
    /\ w.pc = "append" => Citable(w.snap)
    /\ w.pc = "observe" => runs[w.run].pages # <<>> /\ Last(w.run) = PageOf(w.snap)
    /\ w.pc = "fail" /\ w.error # None => Blames(w.run, w.error)

(* The response a worker may still cite, as a page or as an error. *)
Held(w) ==
    IF w.pc = "raw" THEN {w.snap}
    ELSE IF w.pc \in {"interpret", "append", "observe", "fail"} THEN {w.error} \ {None}
    ELSE {}

(* Neither two workers nor a worker and a finished run share a response,   *)
(* and no two workers share a run.                                         *)
Apart ==
    /\ \A i, j \in Item : i # j =>
          /\ Held(item[i]) \cap Held(item[j]) = {}
          /\ item[i].pc \in HoldsRun /\ item[j].pc \in HoldsRun => item[i].run # item[j].run
    /\ \A i \in Item : \A r \in Run : runs[r].error \notin Held(item[i])

EvidenceInv ==
    /\ TypeOK
    /\ References
    /\ StatusMatchesEvidence
    /\ PagesRestOnRawEvidence
    /\ ErrorsBlameTheLastResponse
    /\ \A i \in Item : KnowsEvidence(item[i])
    /\ Apart

-----------------------------------------------------------------------------
(* What a step does to the stores, given the local state w of the worker   *)
(* that takes it (Idle when the coordinator does).                         *)

(* A response is never rewritten, only completed or damaged. *)
RawKept ==
    /\ Len(raw') >= Len(raw)
    /\ \A s \in 1..Len(raw) :
         /\ raw'[s].kind = raw[s].kind /\ raw'[s].at = raw[s].at
         /\ raw'[s].token = raw[s].token /\ raw'[s].more = raw[s].more
         /\ raw'[s].next = raw[s].next
         /\ raw[s].state # "body" => raw'[s].state # "body"
    /\ analysed \subseteq analysed'

(* Each page was there, or it is the one the worker appends. *)
PagesFrame(w) ==
    \A r \in 1..Len(runs') : \A k \in 1..Len(runs'[r].pages) :
        \/ /\ r \in Run /\ k \in 1..Len(runs[r].pages)
           /\ runs'[r].pages[k] = runs[r].pages[k]
        \/ /\ w.pc = "append" /\ r = w.run /\ k = Len(runs[r].pages) + 1
           /\ runs'[r].pages[k] = PageOf(w.snap)

(* Each error was there, or it is the one a failed worker persists. *)
ErrorsFrame(w) ==
    \A r \in 1..Len(runs') :
        \/ runs'[r].error = None
        \/ r \in Run /\ runs'[r] = runs[r]
        \/ /\ w.pc = "fail" /\ r = w.run /\ r \in Run
           /\ runs'[r].error = w.error /\ runs'[r].pages = runs[r].pages

(* Only the run of the worker changes. *)
OthersFrame(w) ==
    \A r \in Run : runs'[r] = runs[r] \/ (w.pc \in HoldsRun /\ r = w.run)

RunsFrame(w) == PagesFrame(w) /\ ErrorsFrame(w) /\ OthersFrame(w)

(* A page cites the snapshot it was made of. *)
LEMMA PageCites == \A s : PageOf(s).snap = s
BY DEF PageOf

(* What is not cited stays so, unless the worker appends it. *)
LEMMA AnswersKept ==
    ASSUME TypeOK, RawKept, NEW w, PagesFrame(w), NEW r \in Run, NEW s \in 1..Len(raw),
           Answers(r, s), runs'[r].pages = runs[r].pages, w.pc = "append" => w.snap # s
    PROVE  Answers(r, s)'
<1>1. Uncited(s)'
  <2> SUFFICES ASSUME NEW q \in 1..Len(runs'), NEW k \in 1..Len(runs'[q].pages)
               PROVE  runs'[q].pages[k].snap # s
    BY DEF Uncited, Run
  <2>1. CASE /\ q \in Run /\ k \in 1..Len(runs[q].pages)
             /\ runs'[q].pages[k] = runs[q].pages[k]
    BY <2>1 DEF Answers, Uncited
  <2>2. CASE w.pc = "append" /\ runs'[q].pages[k] = PageOf(w.snap)
    BY <2>2, PageCites
  <2>3. QED
    BY <2>1, <2>2 DEF PagesFrame
<1>2. Reached(r)' = Reached(r)
  BY DEF Reached, Last
<1>3. QED
  BY <1>1, <1>2 DEF Answers, RawKept

(* So does what is blamed for an error. *)
LEMMA BlamesKept ==
    ASSUME TypeOK, RawKept, NEW w, PagesFrame(w), NEW r \in Run, NEW e \in Nat, e # None,
           Blames(r, e), runs'[r].pages = runs[r].pages, w.pc = "append" => w.snap # e
    PROVE  Blames(r, e)'
<1>1. e \in 1..Len(raw) /\ Len(raw) \in Nat
  BY LenProperties DEF Blames, TypeOK, None
<1>2. e <= Len(raw') /\ raw'[e].state # "body"
  BY <1>1 DEF Blames, RawKept, TypeOK
<1>3. CASE runs[r].pages # <<>> /\ Last(r).snap = e
  BY <1>2, <1>3 DEF Blames, Last
<1>4. CASE Answers(r, e)
  BY <1>1, <1>2, <1>4, AnswersKept DEF Blames
<1>5. QED
  BY <1>3, <1>4 DEF Blames

(* Every page still rests on its response, and shares it with no other.    *)
LEMMA PagesKept ==
    ASSUME TypeOK, PagesRestOnRawEvidence, RawKept, NEW w, PagesFrame(w),
           w.pc = "append" => Citable(w.snap)
    PROVE  PagesRestOnRawEvidence'
<1>0. Len(raw) \in Nat
  BY LenProperties DEF TypeOK
<1>1. ASSUME NEW s \in 1..Len(raw)
      PROVE  PageOf(s)' = PageOf(s)
  BY <1>1 DEF PageOf, RawKept
<1>2. ASSUME NEW s \in analysed, raw[s].kind = "page", raw[s].state # "body"
      PROVE  /\ s \in analysed' /\ raw'[s].kind = "page" /\ raw'[s].state # "body"
             /\ PageOf(s)' = PageOf(s)
  BY <1>1, <1>2 DEF TypeOK, RawKept
<1>3. ASSUME NEW r \in 1..Len(runs'), NEW k \in 1..Len(runs'[r].pages),
             NEW p, p = runs'[r].pages[k]
      PROVE  RestsOnRaw(p)'
  <2>1. CASE /\ r \in Run /\ k \in 1..Len(runs[r].pages)
             /\ runs'[r].pages[k] = runs[r].pages[k]
    <3>1. RestsOnRaw(p)
      BY <1>3, <2>1 DEF PagesRestOnRawEvidence, RestsOnRaw
    <3>2. QED
      BY <1>2, <3>1 DEF RestsOnRaw
  <2>2. CASE w.pc = "append" /\ runs'[r].pages[k] = PageOf(w.snap)
    <3>1. p.snap = w.snap /\ p = PageOf(p.snap)
      BY <1>3, <2>2, PageCites
    <3>2. p.snap \in analysed /\ raw[p.snap].kind = "page" /\ raw[p.snap].state # "body"
      BY <2>2, <3>1 DEF Citable
    <3>3. QED
      BY <1>2, <3>1, <3>2 DEF RestsOnRaw
  <2>3. QED
    BY <1>3, <2>1, <2>2 DEF PagesFrame
<1>4. ASSUME NEW r \in 1..Len(runs'), NEW k \in 1..Len(runs'[r].pages),
             NEW s \in 1..Len(runs'), NEW l \in 1..Len(runs'[s].pages),
             runs'[r].pages[k].snap = runs'[s].pages[l].snap
      PROVE  r = s /\ k = l
  <2>0. \A q, t \in Run : \A m \in 1..Len(runs[q].pages), n \in 1..Len(runs[t].pages) :
            runs[q].pages[m].snap = runs[t].pages[n].snap => q = t /\ m = n
    BY DEF PagesRestOnRawEvidence
  <2>1. CASE /\ r \in Run /\ k \in 1..Len(runs[r].pages)
             /\ s \in Run /\ l \in 1..Len(runs[s].pages)
             /\ runs'[r].pages[k] = runs[r].pages[k]
             /\ runs'[s].pages[l] = runs[s].pages[l]
    BY <1>4, <2>0, <2>1
  <2>2. CASE /\ w.pc = "append"
             /\ \/ /\ runs'[r].pages[k] = PageOf(w.snap)
                   /\ s \in Run /\ l \in 1..Len(runs[s].pages)
                   /\ runs'[s].pages[l] = runs[s].pages[l]
                \/ /\ runs'[s].pages[l] = PageOf(w.snap)
                   /\ r \in Run /\ k \in 1..Len(runs[r].pages)
                   /\ runs'[r].pages[k] = runs[r].pages[k]
    BY <1>4, <2>2, PageCites DEF Citable, Uncited
  <2>3. CASE r = w.run /\ s = w.run /\ k = Len(runs[r].pages) + 1 /\ l = Len(runs[s].pages) + 1
    BY <2>3
  <2>4. QED
    BY <2>1, <2>2, <2>3 DEF PagesFrame
<1>5. \A r \in 1..Len(runs') : \A k \in 1..Len(runs'[r].pages) :
         \A p : p = runs'[r].pages[k] => RestsOnRaw(p)'
  BY <1>3
<1>6. QED
  BY <1>4, <1>5 DEF PagesRestOnRawEvidence, RestsOnRaw, Run

(* Every error still blames the last response of its run.                  *)
LEMMA ErrorsKept ==
    ASSUME TypeOK, TypeOK', ErrorsBlameTheLastResponse, RawKept,
           NEW w, PagesFrame(w), ErrorsFrame(w), KnowsEvidence(w),
           \A r \in Run : w.pc = "append" => runs[r].error # w.snap
    PROVE  ErrorsBlameTheLastResponse'
<1>1. ASSUME NEW r \in 1..Len(runs'), NEW e, e = runs'[r].error, e # None
      PROVE  Blames(r, e)'
  <2>1. e \in Nat
    <3>1. runs'[r] \in RunRecord
      BY ElementOfSeq DEF TypeOK
    <3>2. QED
      BY <1>1, <3>1 DEF RunRecord
  <2>2. CASE r \in Run /\ runs'[r] = runs[r]
    <3>1. e = runs[r].error
      BY <1>1, <2>2
    <3>2. Blames(r, e)
      BY <1>1, <2>2, <3>1
      DEF ErrorsBlameTheLastResponse, Blames, Answers, Uncited, Reached
    <3>3. QED
      BY <1>1, <2>1, <2>2, <3>1, <3>2, BlamesKept
  <2>3. CASE /\ w.pc = "fail" /\ r = w.run /\ r \in Run
             /\ runs'[r].error = w.error /\ runs'[r].pages = runs[r].pages
    <3>1. Blames(r, e)
      BY <1>1, <2>3 DEF KnowsEvidence
    <3>2. QED
      BY <1>1, <2>1, <2>3, <3>1, BlamesKept
  <2>4. QED
    BY <1>1, <2>2, <2>3 DEF ErrorsFrame
<1>2. QED
  BY <1>1 DEF ErrorsBlameTheLastResponse, Blames, Answers, Uncited, Reached, Run

-----------------------------------------------------------------------------
(* The steps of the stores. *)

(* Responses are only added, completed or damaged, analyses only added. *)
LEMMA RawStep ==
    ASSUME TypeOK, References, [Next]_vars
    PROVE  RawKept
<1>0. Len(raw) \in Nat /\ raw \in Seq(SnapshotRecord)
  BY LenProperties DEF TypeOK
<1>1. CASE UNCHANGED raw /\ analysed \subseteq analysed'
  BY <1>0, <1>1 DEF RawKept
<1>2. ASSUME NEW i \in Item, Respond(i)
      PROVE  RawKept
  <2>1. PICK t \in Readings, k \in Kind, more \in BOOLEAN, next \in {None, Len(raw) + 1} :
            raw' = Append(raw, NewSnapshot(k, t, item[i].token, more, next))
    BY <1>2 DEF Respond
  <2>2. /\ t \in 1..MaxTime
        /\ item[i].token \in Nat
    BY ReadingsType DEF TypeOK, ItemRecord
  <2>3. NewSnapshot(k, t, item[i].token, more, next) \in SnapshotRecord
    BY <1>0, <2>2 DEF NewSnapshot, SnapshotRecord, None
  <2>4. Len(raw') = Len(raw) + 1 /\ \A s \in 1..Len(raw) : raw'[s] = raw[s]
    BY <1>0, <2>1, <2>3, AppendProperties
  <2>5. UNCHANGED analysed
    BY <1>2 DEF Respond
  <2>6. QED
    BY <1>0, <2>4, <2>5 DEF RawKept
<1>3. ASSUME NEW i \in Item, PersistMetadata(i)
      PROVE  RawKept
  <2>1. item[i].snap \in 1..Len(raw)
    BY <1>3 DEF PersistMetadata, At, References, RefersToStored, HoldsSnapshot
  <2>2. raw[item[i].snap] \in SnapshotRecord
    BY <2>1, ElementOfSeq DEF TypeOK
  <2>3. PICK x : x = [raw[item[i].snap] EXCEPT !.state = "whole"]
    OBVIOUS
  <2>4. /\ x \in SnapshotRecord /\ x.state = "whole"
        /\ x.kind = raw[item[i].snap].kind /\ x.at = raw[item[i].snap].at
        /\ x.token = raw[item[i].snap].token /\ x.more = raw[item[i].snap].more
        /\ x.next = raw[item[i].snap].next
    BY <2>2, <2>3 DEF SnapshotRecord
  <2>5. raw' = [raw EXCEPT ![item[i].snap] = x] /\ UNCHANGED analysed
    BY <1>3, <2>3 DEF PersistMetadata
  <2>6. /\ Len(raw') = Len(raw)
        /\ \A s \in 1..Len(raw) : raw'[s] = IF s = item[i].snap THEN x ELSE raw[s]
    BY <1>0, <2>1, <2>4, <2>5, ExceptSeq
  <2>7. QED
    BY <1>0, <2>4, <2>5, <2>6 DEF RawKept
<1>4. CASE Kill
  <2>1. PICK lost \in SUBSET (1..Len(raw)) :
            raw' = [s \in 1..Len(raw) |->
                       IF s \in lost THEN [raw[s] EXCEPT !.state = "damaged"] ELSE raw[s]]
    BY <1>4 DEF Kill
  <2>2. ASSUME NEW s \in 1..Len(raw)
        PROVE  /\ raw'[s] \in SnapshotRecord
               /\ raw'[s].kind = raw[s].kind /\ raw'[s].at = raw[s].at
               /\ raw'[s].token = raw[s].token /\ raw'[s].more = raw[s].more
               /\ raw'[s].next = raw[s].next
               /\ raw[s].state # "body" => raw'[s].state # "body"
    <3>1. raw[s] \in SnapshotRecord
      BY ElementOfSeq DEF TypeOK
    <3>2. raw'[s] = IF s \in lost THEN [raw[s] EXCEPT !.state = "damaged"] ELSE raw[s]
      BY <2>1
    <3>3. QED
      BY <3>1, <3>2 DEF SnapshotRecord
  <2>3. Len(raw') = Len(raw)
    BY <1>0, <2>1, <2>2, FunctionIsSeq
  <2>4. UNCHANGED analysed
    BY <1>4 DEF Kill
  <2>5. QED
    BY <1>0, <2>2, <2>3, <2>4 DEF RawKept
<1>5. ASSUME NEW i \in Item, RunnerStep(i), ~Respond(i), ~PersistMetadata(i)
      PROVE  UNCHANGED raw /\ analysed \subseteq analysed'
  BY <1>5
  DEF RunnerStep, CreateRun, TransportError, RawWriteFails, Interpret, AppendPage,
      ObservePage, ObserverFails, FinishRun, StoreFails, PersistFailure, Report,
      ReportFails, durable
<1>6. CASE Invoke \/ CoordinatorStep \/ UNCHANGED vars
  BY <1>1, <1>6
  DEF Invoke, CoordinatorStep, Submit, JoinWorkers, BuildComparable, FinishBuild, vars, durable
<1>7. QED
  BY <1>1, <1>2, <1>3, <1>4, <1>5, <1>6 DEF Next, Stopped

(* A store that does not change is within every frame. *)
LEMMA UnchangedRuns ==
    ASSUME runs' = runs, NEW w
    PROVE  RunsFrame(w)
<1>1. PagesFrame(w)
  BY DEF PagesFrame, Run
<1>2. ErrorsFrame(w)
  BY DEF ErrorsFrame, Run
<1>3. OthersFrame(w)
  BY DEF OthersFrame, Run
<1>4. QED
  BY <1>1, <1>2, <1>3 DEF RunsFrame

(* A worker changes only its own run: it starts it, adds the page that     *)
(* answers it, or ends it with the error it met.                           *)
LEMMA WorkerFrame ==
    ASSUME TypeOK, References, StatusMatchesEvidence,
           NEW i \in Item, RunnerStep(i) \/ Submit(i)
    PROVE  RunsFrame(item[i])
<1>0. Len(runs) \in Nat /\ runs \in Seq(RunRecord) /\ \A q \in Run : runs[q] \in RunRecord
  BY LenProperties, ElementOfSeq DEF TypeOK, Run
<1> DEFINE r == item[i].run
<1>1. CASE runs' = runs
  BY <1>1, UnchangedRuns
<1>2. CASE CreateRun(i)
  <2>1. PICK t \in Readings : runs' = Append(runs, NewRun(i, t))
    BY <1>2 DEF CreateRun
  <2>2. NewRun(i, t) \in RunRecord
    BY ReadingsType, NewRunType
  <2>3. /\ Len(runs') = Len(runs) + 1
        /\ \A q \in Run : runs'[q] = runs[q]
        /\ runs'[Len(runs) + 1] = NewRun(i, t)
    BY <1>0, <2>1, <2>2, AppendProperties DEF Run
  <2>4. NewRun(i, t).pages = <<>> /\ NewRun(i, t).error = None
    BY DEF NewRun
  <2>5. \A q \in 1..Len(runs') : q \in Run \/ q = Len(runs) + 1
    BY <1>0, <2>3 DEF Run
  <2>6. PagesFrame(item[i])
    BY <2>3, <2>4, <2>5 DEF PagesFrame
  <2>7. ErrorsFrame(item[i])
    BY <2>3, <2>4, <2>5 DEF ErrorsFrame
  <2>8. OthersFrame(item[i])
    BY <2>3 DEF OthersFrame
  <2>9. QED
    BY <2>6, <2>7, <2>8 DEF RunsFrame
<1>3. ASSUME item[i].pc \in HoldsRun, NEW x \in RunRecord, runs' = [runs EXCEPT ![r] = x],
             \/ item[i].pc = "append" /\ x.error = runs[r].error
                  /\ x.pages = Append(runs[r].pages, PageOf(item[i].snap))
                  /\ PageOf(item[i].snap) \in PageRecord /\ runs[r].error = None
             \/ x.pages = runs[r].pages /\ x.error = None
             \/ x.pages = runs[r].pages /\ item[i].pc = "fail" /\ x.error = item[i].error
      PROVE  RunsFrame(item[i])
  <2>1. r \in Run
    BY <1>3 DEF References, RefersToStored, Run
  <2>2. /\ Len(runs') = Len(runs)
        /\ \A q \in Run : runs'[q] = IF q = r THEN x ELSE runs[q]
    BY <1>0, <1>3, <2>1, ExceptSeq DEF Run
  <2>3. runs[r].pages \in Seq(PageRecord)
    BY <1>0, <2>1 DEF RunRecord
  <2>4. \A k \in 1..Len(x.pages) :
            \/ k \in 1..Len(runs[r].pages) /\ x.pages[k] = runs[r].pages[k]
            \/ /\ item[i].pc = "append" /\ k = Len(runs[r].pages) + 1
               /\ x.pages[k] = PageOf(item[i].snap)
    <3>1. CASE x.pages = runs[r].pages
      BY <3>1
    <3>2. CASE /\ item[i].pc = "append" /\ PageOf(item[i].snap) \in PageRecord
               /\ x.pages = Append(runs[r].pages, PageOf(item[i].snap))
      <4>1. /\ Len(x.pages) = Len(runs[r].pages) + 1
            /\ x.pages[Len(runs[r].pages) + 1] = PageOf(item[i].snap)
            /\ \A k \in 1..Len(runs[r].pages) : x.pages[k] = runs[r].pages[k]
            /\ Len(runs[r].pages) \in Nat
        BY <2>3, <3>2, AppendProperties, LenProperties
      <4>2. QED
        BY <3>2, <4>1
    <3>3. QED
      BY <1>3, <3>1, <3>2
  <2>5. PagesFrame(item[i])
    BY <2>1, <2>2, <2>4 DEF PagesFrame, Run
  <2>6. ErrorsFrame(item[i])
    BY <1>3, <2>1, <2>2 DEF ErrorsFrame, Run
  <2>7. OthersFrame(item[i])
    <3>1. ASSUME NEW q \in Run, q # r
          PROVE  runs'[q] = runs[q]
      BY <2>2, <3>1
    <3>2. item[i].pc \in HoldsRun
      BY <1>3
    <3>3. QED
      BY <3>1, <3>2 DEF OthersFrame
  <2>8. QED
    BY <2>5, <2>6, <2>7 DEF RunsFrame
<1>4. CASE AppendPage(i)
  <2>1. item[i].pc = "append" /\ item[i].pc \in HoldsRun \cap HoldsSnapshot
    BY <1>4 DEF AppendPage, At, HoldsRun, HoldsSnapshot, Working
  <2>2. r \in Run /\ PageOf(item[i].snap) \in PageRecord
    BY <2>1, PageOfType DEF References, RefersToStored, Run
  <2>3. CASE Continues(runs[r], PageOf(item[i].snap), item[i].page)
    <3>1. runs[r].error = None
      BY <2>2, <2>3 DEF StatusMatchesEvidence, Evidenced, Continues
    <3>2. PICK x : x = Extended(runs[r], PageOf(item[i].snap))
      OBVIOUS
    <3>3. /\ x \in RunRecord /\ x.error = runs[r].error
          /\ x.pages = Append(runs[r].pages, PageOf(item[i].snap))
      BY <1>0, <2>2, <3>2, RunExtendedType
    <3>4. runs' = [runs EXCEPT ![r] = x]
      BY <1>4, <2>3, <3>2 DEF AppendPage
    <3>5. QED
      BY <1>3, <2>1, <2>2, <3>1, <3>3, <3>4
  <2>4. CASE ~Continues(runs[r], PageOf(item[i].snap), item[i].page)
    BY <1>1, <1>4, <2>4 DEF AppendPage
  <2>5. QED
    BY <2>3, <2>4
<1>5. ASSUME item[i].pc \in HoldsRun, NEW t \in Readings, NEW s \in Status, NEW e \in Nat,
             runs' = [runs EXCEPT ![r] = Finished(@, s, CompletionTime(i, t), e)],
             e = None \/ (item[i].pc = "fail" /\ e = item[i].error)
      PROVE  RunsFrame(item[i])
  <2>1. r \in Run /\ CompletionTime(i, t) \in 1..MaxTime
    BY <1>5, CompletionType DEF References, RefersToStored, Run
  <2>2. PICK x : x = Finished(runs[r], s, CompletionTime(i, t), e)
    OBVIOUS
  <2>3. x \in RunRecord /\ x.error = e /\ x.pages = runs[r].pages
    BY <1>0, <2>1, <2>2, RunEndedType
  <2>4. QED
    BY <1>3, <1>5, <2>2, <2>3
<1>6. CASE FinishRun(i)
  <2>1. item[i].pc \in HoldsRun
    BY <1>6 DEF FinishRun, At, HoldsRun, Working
  <2>2. QED
    BY <1>1, <1>5, <1>6, <2>1 DEF FinishRun, Status, None
<1>7. CASE PersistFailure(i)
  <2>1. item[i].pc = "fail" /\ item[i].pc \in HoldsRun
    BY <1>7 DEF PersistFailure, At, HoldsRun, Working
  <2>2. item[i].error \in Nat
    BY DEF TypeOK, ItemRecord
  <2>3. PICK s \in Status : s = IF runs[r].pages = <<>> THEN "failed" ELSE "partial"
    BY DEF Status
  <2>4. QED
    BY <1>1, <1>5, <1>7, <2>1, <2>2, <2>3 DEF PersistFailure
<1>8. CASE \/ Submit(i) \/ TransportError(i) \/ Respond(i) \/ PersistMetadata(i)
           \/ RawWriteFails(i) \/ Interpret(i) \/ ObservePage(i) \/ ObserverFails(i)
           \/ StoreFails(i) \/ Report(i) \/ ReportFails(i)
  BY <1>1, <1>8
  DEF Submit, TransportError, Respond, PersistMetadata, RawWriteFails, Interpret,
      ObservePage, ObserverFails, StoreFails, Report, ReportFails, durable
<1>9. QED
  BY <1>2, <1>4, <1>6, <1>7, <1>8 DEF RunnerStep

-----------------------------------------------------------------------------
(* What workers know stays true while others work. *)
LEMMA KnowsKept ==
    ASSUME TypeOK, RawKept, NEW w, PagesFrame(w), NEW x \in ItemRecord,
           RefersToStored(x), KnowsEvidence(x),
           x.pc \in HoldsRun => runs'[x.run].pages = runs[x.run].pages,
           w.pc = "append" => w.snap \notin Held(x)
    PROVE  KnowsEvidence(x)'
<1>0. /\ x.pc \in HoldsRun => x.run \in Run
      /\ x.pc \in HoldsSnapshot => x.snap \in 1..Len(raw)
      /\ Len(raw) \in Nat
      /\ x.error \in Nat
  BY LenProperties DEF RefersToStored, Run, TypeOK, ItemRecord
<1>1. x.pc \in HoldsSnapshot => x.pc \in HoldsRun
  BY DEF HoldsSnapshot, HoldsRun, Working
<1>2. x.pc = "request" => x.token = Reached(x.run)'
  <2>1. x.pc = "request" => x.pc \in HoldsRun
    BY DEF HoldsRun, Working
  <2>2. QED
    BY <1>0, <2>1 DEF KnowsEvidence, Reached, Last
<1>3. ASSUME x.pc \in {"raw", "interpret", "append", "observe"}
      PROVE  /\ x.pc \in HoldsSnapshot /\ x.run \in Run /\ x.snap \in 1..Len(raw)
             /\ w.pc = "append" => w.snap # x.snap
  <2>1. x.pc \in HoldsSnapshot
    BY <1>3 DEF HoldsSnapshot
  <2>2. x.snap \in 1..Len(raw) /\ x.run \in Run
    BY <1>0, <1>1, <2>1
  <2>3. x.snap \in Held(x)
    BY <1>3, <2>2 DEF Held, KnowsEvidence, None
  <2>4. QED
    BY <2>1, <2>2, <2>3
<1>4. x.pc \in {"raw", "interpret", "append"} => Answers(x.run, x.snap)'
  BY <1>0, <1>1, <1>3, AnswersKept DEF KnowsEvidence
<1>5. x.pc \in {"interpret", "append", "observe"} =>
          x.error = x.snap /\ raw'[x.snap].state # "body"
  BY <1>3 DEF KnowsEvidence, RawKept
<1>6. x.pc = "append" => Citable(x.snap)'
  <2>1. x.pc = "append" =>
           x.snap \in analysed' /\ raw'[x.snap].kind = "page" /\ raw'[x.snap].state # "body"
    BY <1>3 DEF KnowsEvidence, Citable, RawKept
  <2>2. QED
    BY <1>4, <2>1 DEF Citable, Answers
<1>7. x.pc = "observe" => runs'[x.run].pages # <<>> /\ Last(x.run)' = PageOf(x.snap)'
  <2>1. x.pc = "observe" => PageOf(x.snap)' = PageOf(x.snap)
    BY <1>3 DEF PageOf, RawKept
  <2>2. x.pc = "observe" => Last(x.run)' = Last(x.run)
    BY <1>1, <1>3 DEF Last
  <2>3. QED
    BY <1>1, <1>3, <2>1, <2>2 DEF KnowsEvidence
<1>8. ASSUME x.pc = "fail", x.error # None
      PROVE  Blames(x.run, x.error)'
  <2>1. x.error \in Held(x)
    BY <1>8 DEF Held
  <2>2. x.pc \in HoldsRun
    BY <1>8 DEF HoldsRun, Working
  <2>3. Blames(x.run, x.error)
    BY <1>8 DEF KnowsEvidence
  <2>4. w.pc = "append" => w.snap # x.error
    BY <2>1
  <2>5. QED
    BY <1>0, <1>8, <2>2, <2>3, <2>4, BlamesKept
<1>9. x.pc \in {"request", "raw", "finish"} => x.error = None
  BY DEF KnowsEvidence
<1>10. QED
  BY <1>2, <1>4, <1>5, <1>6, <1>7, <1>8, <1>9 DEF KnowsEvidence

(* A worker that gives up keeps the response that answered it, once that   *)
(* is completely written, as the one to blame.                             *)
LEMMA GivingUp ==
    ASSUME TypeOK, NEW w \in ItemRecord, RefersToStored(w), KnowsEvidence(w),
           w.pc \in HoldsRun \ {"report"},
           NEW x \in ItemRecord, x.pc = "fail", x.run = w.run, x.error = w.error
    PROVE  KnowsEvidence(x) /\ Held(x) \subseteq Held(w) /\ RefersToStored(x)
<1>0. w.pc \in {"request", "raw", "interpret", "append", "observe", "finish", "fail"}
  BY DEF HoldsRun, Working
<1>1. ASSUME w.pc \in {"interpret", "append", "observe"}
      PROVE  Blames(w.run, w.error)
  <2>1. w.error = w.snap /\ raw[w.snap].state # "body" /\ w.snap \in 1..Len(raw)
    BY <1>1 DEF KnowsEvidence, RefersToStored, HoldsSnapshot
  <2>2. w.snap <= Len(raw)
    BY <2>1, LenProperties DEF TypeOK
  <2>3. CASE w.pc = "observe"
    BY <2>1, <2>2, <2>3, PageCites DEF KnowsEvidence, Blames
  <2>4. CASE w.pc \in {"interpret", "append"}
    BY <2>1, <2>2, <2>4 DEF KnowsEvidence, Blames
  <2>5. QED
    BY <1>1, <2>3, <2>4
<1>2. x.error # None => Blames(x.run, x.error)
  BY <1>0, <1>1 DEF KnowsEvidence
<1>3. KnowsEvidence(x)
  BY <1>2 DEF KnowsEvidence
<1>4. Held(x) \subseteq Held(w)
  BY <1>0 DEF Held, KnowsEvidence
<1>5. RefersToStored(x)
  BY DEF RefersToStored, HoldsSnapshot, HoldsRun
<1>6. QED
  BY <1>3, <1>4, <1>5

LEMMA AppendedLast ==
    ASSUME NEW S, NEW s \in Seq(S), NEW e \in S, NEW t, t = Append(s, e)
    PROVE  t # <<>> /\ t[Len(t)] = e
BY AppendProperties

(* What the worker that moves knows afterwards. *)
LEMMA WorkerLearns ==
    ASSUME EvidenceInv, TypeOK', References', RawKept,
           NEW i \in Item, RunnerStep(i) \/ Submit(i), NEW w, w = item[i], NEW x, x = item'[i]
    PROVE  /\ KnowsEvidence(x)'
           /\ Held(x) \subseteq Held(w) \cup {Len(raw) + 1}
           /\ w.pc = "fail" => Held(x) = {}
<1> DEFINE Learns == /\ KnowsEvidence(x)'
                     /\ Held(x) \subseteq Held(w) \cup {Len(raw) + 1}
                     /\ w.pc = "fail" => Held(x) = {}
<1>0. /\ TypeOK /\ References /\ KnowsEvidence(w) /\ RefersToStored(w)
      /\ w \in ItemRecord /\ x \in ItemRecord
      /\ item \in [Item -> ItemRecord]
      /\ Len(raw) \in Nat /\ raw \in Seq(SnapshotRecord)
      /\ Len(runs) \in Nat /\ runs \in Seq(RunRecord)
  BY LenProperties DEF EvidenceInv, References, TypeOK
<1>1. ASSUME x.pc \in {"create", "failed", "idle", "report"}
      PROVE  Learns
  BY <1>1 DEF KnowsEvidence, Held
<1>2. ASSUME KnowsEvidence(x), RefersToStored(x), runs' = runs,
             Held(x) \subseteq Held(w), w.pc # "fail"
      PROVE  Learns
  <2>1. PagesFrame(Idle) /\ Idle.pc # "append"
    BY <1>2, UnchangedRuns DEF RunsFrame, Idle
  <2>2. KnowsEvidence(x)'
    BY <1>0, <1>2, <2>1, KnowsKept
  <2>3. QED
    BY <1>2, <2>2
<1>3. ASSUME w.pc \in HoldsRun \ {"report", "fail"}, runs' = runs,
             x.pc = "fail", x.run = w.run, x.error = w.error
      PROVE  Learns
  <2>1. KnowsEvidence(x) /\ Held(x) \subseteq Held(w) /\ RefersToStored(x)
    BY <1>0, <1>3, GivingUp
  <2>2. QED
    BY <1>2, <1>3, <2>1
<1>4. ASSUME NEW pc, Goto(i, pc), pc \in {"fail", "append", "observe", "report"}
      PROVE  /\ x.pc = pc /\ x.run = w.run /\ x.error = w.error /\ x.snap = w.snap
  BY <1>0, <1>4 DEF Goto, ItemRecord
<1>5. ASSUME Goto(i, "fail"), runs' = runs, w.pc \in HoldsRun \ {"report", "fail"}
      PROVE  Learns
  BY <1>3, <1>4, <1>5
<1>6. CASE Submit(i)
  <2>1. x.pc = "create"
    BY <1>0, <1>6 DEF Submit, ItemRecord
  <2>2. QED
    BY <1>1, <2>1
<1>7. CASE CreateRun(i)
  <2>1. PICK t \in Readings : runs' = Append(runs, NewRun(i, t))
    BY <1>7 DEF CreateRun
  <2>2. NewRun(i, t) \in RunRecord
    BY <1>0, ReadingsType, NewRunType
  <2>3. runs'[Len(runs) + 1] = NewRun(i, t)
    BY <1>0, <2>1, <2>2, AppendProperties
  <2>4. runs'[Len(runs) + 1].pages = <<>>
    BY <2>3 DEF NewRun
  <2>5. x.pc = "request" /\ x.run = Len(runs) + 1 /\ x.error = None /\ x.token = None
    BY <1>0, <1>7 DEF CreateRun, Idle
  <2>6. w.pc = "create"
    BY <1>7 DEF CreateRun, At
  <2>7. QED
    BY <2>4, <2>5, <2>6 DEF KnowsEvidence, Reached, Held
<1>8. CASE TransportError(i)
  <2>1. x.pc = "fail" /\ x.run = w.run /\ x.error = w.error
    BY <1>0, <1>8 DEF TransportError, ItemRecord
  <2>2. runs' = runs /\ w.pc \in HoldsRun \ {"report", "fail"}
    BY <1>8 DEF TransportError, At, HoldsRun, Working, durable
  <2>3. QED
    BY <1>3, <2>1, <2>2
<1>9. CASE Respond(i)
  <2>1. PICK t \in Readings, k \in Kind, more \in BOOLEAN, next \in {None, Len(raw) + 1} :
            raw' = Append(raw, NewSnapshot(k, t, w.token, more, next))
    BY <1>9 DEF Respond
  <2>2. t \in 1..MaxTime /\ w.token \in Nat
    BY <1>0, ReadingsType DEF ItemRecord
  <2>3. NewSnapshot(k, t, w.token, more, next) \in SnapshotRecord
    BY <1>0, <2>2 DEF NewSnapshot, SnapshotRecord, None
  <2>4. raw'[Len(raw) + 1] = NewSnapshot(k, t, w.token, more, next)
    BY <1>0, <2>1, <2>3, AppendProperties
  <2>5. raw'[Len(raw) + 1].token = w.token
    BY <2>4 DEF NewSnapshot
  <2>6. x.pc = "raw" /\ x.run = w.run /\ x.error = w.error /\ x.snap = Len(raw) + 1
    BY <1>0, <1>9 DEF Respond, ItemRecord
  <2>7. w.pc = "request" /\ UNCHANGED <<runs, analysed>>
    BY <1>9 DEF Respond, At
  <2>8. Uncited(Len(raw) + 1)
    <3> SUFFICES ASSUME NEW r \in Run, NEW n \in 1..Len(runs[r].pages)
                 PROVE  runs[r].pages[n].snap # Len(raw) + 1
      BY DEF Uncited
    <3>1. runs[r].pages[n].snap \in analysed
      BY DEF EvidenceInv, PagesRestOnRawEvidence
    <3>2. analysed \subseteq 1..Len(raw)
      BY <1>0 DEF TypeOK
    <3>3. QED
      BY <1>0, <3>1, <3>2
  <2>9. Uncited(x.snap)' /\ Reached(x.run)' = Reached(w.run)
    BY <2>6, <2>7, <2>8 DEF Uncited, Reached, Last, Run
  <2>10. Answers(x.run, x.snap)'
    BY <1>0, <2>5, <2>6, <2>7, <2>9 DEF Answers, KnowsEvidence
  <2>11. QED
    BY <1>0, <2>6, <2>7, <2>10 DEF KnowsEvidence, Held
<1>10. CASE PersistMetadata(i)
  <2>1. w.pc = "raw" /\ w.snap \in 1..Len(raw) /\ UNCHANGED <<runs, analysed>>
    BY <1>0, <1>10 DEF PersistMetadata, At, RefersToStored, HoldsSnapshot
  <2>2. raw[w.snap] \in SnapshotRecord
    BY <1>0, <2>1, ElementOfSeq
  <2>3. raw'[w.snap].state = "whole"
    BY <1>0, <1>10, <2>1, <2>2, ExceptSeq DEF PersistMetadata, SnapshotRecord
  <2>4. x.pc = "interpret" /\ x.run = w.run /\ x.snap = w.snap /\ x.error = w.snap
    BY <1>0, <1>10 DEF PersistMetadata, ItemRecord
  <2>5. PagesFrame(Idle) /\ Idle.pc # "append"
    BY <2>1, UnchangedRuns DEF RunsFrame, Idle
  <2>6. KnowsEvidence(w)'
    BY <1>0, <2>1, <2>5, KnowsKept
  <2>7. QED
    BY <2>1, <2>3, <2>4, <2>6 DEF KnowsEvidence, Held
<1>11. CASE RawWriteFails(i)
  BY <1>5, <1>11 DEF RawWriteFails, At, HoldsRun, Working, durable
<1>12. CASE Interpret(i)
  <2>1. w.pc = "interpret" /\ UNCHANGED <<runs, raw>>
    BY <1>12 DEF Interpret, At
  <2>2. CASE raw[w.snap].kind # "page"
    BY <1>5, <1>12, <2>1, <2>2 DEF Interpret, HoldsRun, Working
  <2>3. CASE raw[w.snap].kind = "page"
    <3>1. x.pc = "append" /\ x.run = w.run /\ x.error = w.error /\ x.snap = w.snap
      BY <1>4, <1>12, <2>3 DEF Interpret
    <3>2. w.snap \in analysed'
      BY <1>12, <2>3 DEF Interpret
    <3>3. PagesFrame(Idle) /\ Idle.pc # "append"
      BY <2>1, UnchangedRuns DEF RunsFrame, Idle
    <3>4. KnowsEvidence(w)'
      BY <1>0, <2>1, <3>3, KnowsKept
    <3>5. Answers(x.run, x.snap)' /\ x.error = x.snap /\ raw'[x.snap].state # "body"
      BY <2>1, <3>1, <3>4 DEF KnowsEvidence
    <3>6. Citable(x.snap)'
      BY <2>1, <2>3, <3>1, <3>2, <3>5 DEF Citable, Answers
    <3>7. QED
      BY <2>1, <3>1, <3>5, <3>6 DEF KnowsEvidence, Held
  <2>4. QED
    BY <2>2, <2>3
<1>13. CASE AppendPage(i)
  <2>1. w.pc = "append" /\ UNCHANGED <<raw, analysed>> /\ w.pc \in HoldsRun
    BY <1>13 DEF AppendPage, At, HoldsRun, Working
  <2>2. w.run \in 1..Len(runs) /\ w.snap \in 1..Len(raw)
    BY <1>0, <2>1 DEF RefersToStored, HoldsSnapshot
  <2>3. CASE /\ runs' = [runs EXCEPT ![w.run] = Extended(@, PageOf(w.snap))]
             /\ Goto(i, "observe")
    <3>1. x.pc = "observe" /\ x.run = w.run /\ x.error = w.error /\ x.snap = w.snap
      BY <1>4, <2>3
    <3>2. runs[w.run] \in RunRecord /\ PageOf(w.snap) \in PageRecord
      BY <1>0, <2>2, ElementOfSeq, PageOfType
    <3>3. runs[w.run].pages \in Seq(PageRecord)
      BY <3>2 DEF RunRecord
    <3>4. runs'[w.run].pages = Append(runs[w.run].pages, PageOf(w.snap))
      <4>1. PICK y : y = Extended(runs[w.run], PageOf(w.snap))
        OBVIOUS
      <4>2. y \in RunRecord /\ y.pages = Append(runs[w.run].pages, PageOf(w.snap))
        BY <3>2, <4>1, RunExtendedType
      <4>3. runs' = [runs EXCEPT ![w.run] = y]
        BY <2>3, <4>1
      <4>4. runs'[w.run] = y
        BY <1>0, <2>2, <4>2, <4>3, ExceptSeq
      <4>5. QED
        BY <4>2, <4>4
    <3>5. runs'[w.run].pages # <<>> /\ Last(w.run)' = PageOf(w.snap)
      <4>1. PICK old : old = runs[w.run].pages
        OBVIOUS
      <4>2. PICK p : p = PageOf(w.snap)
        OBVIOUS
      <4>3. PICK new : new = Append(old, p)
        OBVIOUS
      <4>4. new # <<>> /\ new[Len(new)] = p
        <5>1. old \in Seq(PageRecord) /\ p \in PageRecord
          BY <3>2, <3>3, <4>1, <4>2
        <5>2. QED
          BY <5>1, <4>3, AppendedLast
      <4>5. runs'[w.run].pages = new
        BY <3>4, <4>1, <4>2, <4>3
      <4>6. QED
        BY <4>2, <4>4, <4>5 DEF Last
    <3>6. PageOf(w.snap)' = PageOf(w.snap)
      BY <2>1 DEF PageOf
    <3>7. w.error = w.snap /\ raw'[w.snap].state # "body"
      BY <1>0, <2>1 DEF KnowsEvidence
    <3>8. QED
      BY <2>1, <3>1, <3>5, <3>6, <3>7 DEF KnowsEvidence, Held
  <2>4. CASE Goto(i, "fail") /\ UNCHANGED runs
    BY <1>5, <2>1, <2>4
  <2>5. QED
    BY <1>13, <2>3, <2>4 DEF AppendPage
<1>14. CASE ObservePage(i)
  <2>1. w.pc = "observe" /\ runs' = runs /\ w.pc \in HoldsRun
    BY <1>14 DEF ObservePage, At, HoldsRun, Working, durable
  <2>2. x = AfterPage(w, raw[w.snap])
    BY <1>0, <1>14 DEF ObservePage
  <2>3. w.run \in 1..Len(runs)
    BY <1>0, <2>1 DEF RefersToStored
  <2>4. CASE x = [w EXCEPT !.pc = "finish", !.error = None]
    <3>1. x.pc = "finish" /\ x.run = w.run /\ x.error = None
      BY <1>0, <2>4 DEF ItemRecord
    <3>2. KnowsEvidence(x) /\ RefersToStored(x) /\ Held(x) = {}
      BY <2>3, <3>1 DEF KnowsEvidence, RefersToStored, HoldsSnapshot, Held
    <3>3. QED
      BY <1>2, <2>1, <3>2
  <2>5. CASE x = [w EXCEPT !.pc = "fail"]
    <3>1. x.pc = "fail" /\ x.run = w.run /\ x.error = w.error
      BY <1>0, <2>5 DEF ItemRecord
    <3>2. QED
      BY <1>3, <2>1, <3>1
  <2>6. CASE x = [w EXCEPT !.pc = "request", !.error = None, !.token = raw[w.snap].next,
                           !.page = w.page + 1]
    <3>1. x.pc = "request" /\ x.run = w.run /\ x.error = None /\ x.token = raw[w.snap].next
      BY <1>0, <2>6 DEF ItemRecord
    <3>2. Reached(x.run) = x.token
      BY <1>0, <2>1, <3>1 DEF KnowsEvidence, Reached, PageOf
    <3>3. KnowsEvidence(x) /\ RefersToStored(x) /\ Held(x) = {}
      BY <2>3, <3>1, <3>2 DEF KnowsEvidence, RefersToStored, HoldsSnapshot, Held
    <3>4. QED
      BY <1>2, <2>1, <3>3
  <2>7. QED
    BY <2>2, <2>4, <2>5, <2>6 DEF AfterPage
<1>15. CASE ObserverFails(i)
  BY <1>5, <1>15 DEF ObserverFails, At, HoldsRun, Working, durable
<1>16. CASE FinishRun(i)
  <2>1. w.pc \in HoldsRun \ {"report", "fail"}
    BY <1>16 DEF FinishRun, At, HoldsRun, Working
  <2>2. CASE Goto(i, "report")
    BY <1>1, <1>4, <2>2
  <2>3. CASE Goto(i, "fail") /\ UNCHANGED runs
    BY <1>5, <2>1, <2>3
  <2>4. QED
    BY <1>16, <2>2, <2>3 DEF FinishRun
<1>17. CASE StoreFails(i)
  <2>1. CASE item' = [item EXCEPT ![i] = Failed]
    <3>1. x.pc = "failed"
      BY <1>0, <2>1 DEF Failed, Idle
    <3>2. QED
      BY <1>1, <3>1
  <2>2. CASE w.pc \in {"interpret", "append", "finish"} /\ Goto(i, "fail")
    BY <1>5, <1>17, <2>2 DEF StoreFails, HoldsRun, Working, durable
  <2>3. QED
    BY <1>17, <2>1, <2>2 DEF StoreFails
<1>18. CASE PersistFailure(i)
  <2>1. x \in AfterFailure(i)
    BY <1>0, <1>18 DEF PersistFailure
  <2>2. x.pc \in {"create", "failed"}
    BY <2>1 DEF AfterFailure, Failed, Idle
  <2>3. QED
    BY <1>1, <2>2
<1>19. CASE Report(i) \/ ReportFails(i)
  <2>1. x.pc \in {"idle", "failed"}
    BY <1>0, <1>19 DEF Report, ReportFails, Failed, Idle
  <2>2. QED
    BY <1>1, <2>1
<1>20. QED
  BY <1>6, <1>7, <1>8, <1>9, <1>10, <1>11, <1>12, <1>13, <1>14, <1>15, <1>16, <1>17,
     <1>18, <1>19 DEF RunnerStep

-----------------------------------------------------------------------------
(* Who holds what. *)

(* What a worker holds, and what a run blames, was received. *)
LEMMA HeldIsStored ==
    ASSUME EvidenceInv
    PROVE  /\ \A i \in Item : Held(item[i]) \subseteq 1..Len(raw)
           /\ \A r \in Run : runs[r].error = None \/ runs[r].error \in 1..Len(raw)
<1>0. Len(raw) \in Nat /\ TypeOK /\ References
  BY LenProperties DEF EvidenceInv, TypeOK
<1>1. ASSUME NEW i \in Item
      PROVE  Held(item[i]) \subseteq 1..Len(raw)
  <2>0. /\ item[i] \in ItemRecord /\ KnowsEvidence(item[i]) /\ RefersToStored(item[i])
        /\ item[i].error \in Nat
    BY <1>0 DEF EvidenceInv, TypeOK, References, ItemRecord
  <2>1. CASE item[i].pc \in {"raw", "interpret", "append", "observe"}
    BY <2>0, <2>1 DEF Held, KnowsEvidence, RefersToStored, HoldsSnapshot
  <2>2. CASE item[i].pc = "fail"
    BY <1>0, <2>0, <2>2 DEF Held, KnowsEvidence, Blames, None
  <2>3. CASE item[i].pc \notin {"raw", "interpret", "append", "observe", "fail"}
    BY <2>3 DEF Held
  <2>4. QED
    BY <2>1, <2>2, <2>3
<1>2. ASSUME NEW r \in Run, runs[r].error # None
      PROVE  runs[r].error \in 1..Len(raw)
  <2>1. runs[r] \in RunRecord
    BY <1>0, ElementOfSeq DEF TypeOK, Run
  <2>2. runs[r].error \in Nat
    BY <2>1 DEF RunRecord
  <2>3. runs[r].error <= Len(raw)
    BY <1>2 DEF EvidenceInv, ErrorsBlameTheLastResponse
  <2>4. QED
    BY <1>0, <1>2, <2>2, <2>3 DEF None
<1>3. QED
  BY <1>1, <1>2

(* A worker takes only a new response or a new run, and what it hands over *)
(* to its run it no longer holds.                                          *)
LEMMA WorkersStayApart ==
    ASSUME EvidenceInv, TypeOK', NEW i \in Item, RunnerStep(i) \/ Submit(i),
           ErrorsFrame(item[i]), ItemChange(i),
           \A j \in Item \ {i} : item'[j] = item[j],
           Held(item'[i]) \subseteq Held(item[i]) \cup {Len(raw) + 1},
           item[i].pc = "fail" => Held(item'[i]) = {}
    PROVE  Apart'
<1>0. /\ Len(raw) \in Nat /\ Len(runs) \in Nat /\ Apart /\ References
      /\ \A j \in Item : Held(item[j]) \subseteq 1..Len(raw)
      /\ \A r \in Run : runs[r].error = None \/ runs[r].error \in 1..Len(raw)
      /\ item \in [Item -> ItemRecord]
  BY HeldIsStored, LenProperties DEF EvidenceInv, TypeOK
<1>1. ASSUME NEW j \in Item
      PROVE  /\ Held(item'[j]) \subseteq Held(item[j]) \cup {Len(raw) + 1}
             /\ j # i => Held(item'[j]) = Held(item[j])
             /\ None \notin Held(item'[j])
  <2>1. Held(item'[j]) \subseteq Held(item[j]) \cup {Len(raw) + 1}
    BY DEF Held
  <2>2. j # i => item'[j] = item[j]
    OBVIOUS
  <2>3. None \notin Held(item[j]) \cup {Len(raw) + 1}
    BY <1>0 DEF None
  <2>4. QED
    BY <2>1, <2>2, <2>3
<1>2. ASSUME NEW j \in Item, NEW k \in Item, j # k
      PROVE  Held(item'[j]) \cap Held(item'[k]) = {}
  <2>1. Held(item[j]) \cap Held(item[k]) = {}
    BY <1>0, <1>2 DEF Apart
  <2>2. Len(raw) + 1 \notin Held(item[j]) \cup Held(item[k])
    BY <1>0
  <2>3. Held(item'[j]) = Held(item[j]) \/ Held(item'[k]) = Held(item[k])
    BY <1>1, <1>2
  <2>4. QED
    BY <1>1, <2>1, <2>2, <2>3
<1>3. ASSUME NEW j \in Item, j # i, item'[i].pc \in HoldsRun, item[j].pc \in HoldsRun
      PROVE  item'[i].run # item[j].run
  <2>1. item[j].run \in 1..Len(runs)
    BY <1>0, <1>3 DEF References, RefersToStored
  <2>2. CASE CreateRun(i)
    <3>1. item'[i].run = Len(runs) + 1
      BY <1>0, <2>2 DEF CreateRun
    <3>2. QED
      BY <1>0, <2>1, <3>1
  <2>3. CASE item[i].pc \in HoldsRun /\ item'[i].run = item[i].run
    BY <1>0, <1>3, <2>3 DEF Apart
  <2>4. QED
    BY <1>3, <2>2, <2>3 DEF ItemChange, HoldsRun, Working
<1>4. ASSUME NEW j \in Item, NEW k \in Item, j # k,
             item'[j].pc \in HoldsRun, item'[k].pc \in HoldsRun
      PROVE  item'[j].run # item'[k].run
  <2>1. CASE j # i /\ k # i
    BY <1>0, <1>4, <2>1 DEF Apart
  <2>2. CASE j = i
    BY <1>3, <1>4, <2>2
  <2>3. CASE k = i
    BY <1>3, <1>4, <2>3
  <2>4. QED
    BY <2>1, <2>2, <2>3
<1>5. ASSUME NEW j \in Item, NEW r \in 1..Len(runs')
      PROVE  runs'[r].error \notin Held(item'[j])
  <2>1. CASE runs'[r].error = None
    BY <1>1, <2>1
  <2>2. CASE r \in Run /\ runs'[r] = runs[r] /\ runs[r].error # None
    <3>1. runs[r].error \notin Held(item[j]) /\ runs[r].error # Len(raw) + 1
      BY <1>0, <2>2 DEF Apart
    <3>2. QED
      BY <1>1, <2>2, <3>1
  <2>3. CASE item[i].pc = "fail" /\ runs'[r].error = item[i].error /\ item[i].error # None
    <3>1. item[i].error \in Held(item[i])
      BY <2>3 DEF Held
    <3>2. CASE j = i
      BY <2>3, <3>2
    <3>3. CASE j # i
      BY <1>0, <1>1, <2>3, <3>1, <3>3 DEF Apart
    <3>4. QED
      BY <3>2, <3>3
  <2>4. QED
    BY <2>1, <2>2, <2>3 DEF ErrorsFrame
<1>6. QED
  BY <1>2, <1>4, <1>5 DEF Apart, Run

-----------------------------------------------------------------------------
(* The empty workdir cites nothing. *)
LEMMA EvidenceInit == Init => EvidenceInv
<1> SUFFICES ASSUME Init
             PROVE  EvidenceInv
  OBVIOUS
<1>1. Len(runs) = 0
  BY DEF Init
<1>2. KnowsEvidence(Idle) /\ Held(Idle) = {}
  BY DEF KnowsEvidence, Held, Idle
<1>3. \A i \in Item : item[i] = Idle
  BY DEF Init
<1>4. Apart
  <2>1. Idle.pc \notin HoldsRun
    BY DEF Idle, HoldsRun, Working
  <2>2. \A i \in Item : Held(item[i]) = {} /\ item[i].pc \notin HoldsRun
    BY <1>2, <1>3, <2>1
  <2>3. QED
    BY <2>2 DEF Apart
<1>5. QED
  BY <1>1, <1>2, <1>3, <1>4, InitType
  DEF EvidenceInv, StatusMatchesEvidence, PagesRestOnRawEvidence,
      ErrorsBlameTheLastResponse, Run

(* Each step keeps the invariant. *)
LEMMA EvidenceStep ==
    EvidenceInv /\ StatusMatchesEvidence' /\ [Next]_vars => EvidenceInv'
<1> SUFFICES ASSUME EvidenceInv, StatusMatchesEvidence', [Next]_vars
             PROVE  EvidenceInv'
  OBVIOUS
<1>0. /\ TypeOK /\ References /\ StatusMatchesEvidence /\ PagesRestOnRawEvidence
      /\ ErrorsBlameTheLastResponse /\ Apart
      /\ \A i \in Item : KnowsEvidence(item[i])
  BY DEF EvidenceInv
<1>1. TypeOK' /\ References' /\ RawKept
  BY <1>0, StepType, RawStep
<1>2. ASSUME NEW i \in Item, RunnerStep(i) \/ Submit(i)
      PROVE  EvidenceInv'
  <2>1. PagesFrame(item[i]) /\ ErrorsFrame(item[i]) /\ OthersFrame(item[i])
    BY <1>0, <1>2, WorkerFrame DEF RunsFrame
  <2>2. ItemChange(i)
    BY <1>0, <1>2, ItemChanges
  <2>3. \A j \in Item \ {i} : item'[j] = item[j]
    BY <1>0, <1>2
    DEF TypeOK, RunnerStep, Submit, CreateRun, TransportError, Respond, PersistMetadata,
        RawWriteFails, Interpret, AppendPage, ObservePage, ObserverFails, FinishRun,
        StoreFails, PersistFailure, Report, ReportFails, Goto
  <2>4. /\ KnowsEvidence(item[i])'
        /\ Held(item'[i]) \subseteq Held(item[i]) \cup {Len(raw) + 1}
        /\ item[i].pc = "fail" => Held(item'[i]) = {}
    <3>1. ASSUME NEW x, x = item'[i]
          PROVE  /\ KnowsEvidence(x)'
                 /\ Held(x) \subseteq Held(item[i]) \cup {Len(raw) + 1}
                 /\ item[i].pc = "fail" => Held(x) = {}
      BY <1>1, <1>2, <3>1, WorkerLearns
    <3>2. QED
      BY <3>1 DEF KnowsEvidence, Held
  <2>5. item[i].pc = "append" => Citable(item[i].snap) /\ item[i].snap \in Held(item[i])
    BY <1>0 DEF KnowsEvidence, Held, References, RefersToStored, HoldsSnapshot, None
  <2>6. ASSUME NEW j \in Item, j # i
        PROVE  KnowsEvidence(item[j])'
    <3>1. /\ item[j] \in ItemRecord /\ RefersToStored(item[j]) /\ KnowsEvidence(item[j])
          /\ item[j].pc \in HoldsRun => item[j].run \in Run
      BY <1>0 DEF TypeOK, References, RefersToStored, Run
    <3>2. item[j].pc \in HoldsRun => runs'[item[j].run].pages = runs[item[j].run].pages
      BY <1>0, <2>1, <2>6, <3>1 DEF OthersFrame, Apart
    <3>3. item[i].pc = "append" => item[i].snap \notin Held(item[j])
      BY <1>0, <2>5, <2>6 DEF Apart
    <3>4. ASSUME NEW x, x = item[j]
          PROVE  KnowsEvidence(x)'
      BY <1>0, <1>1, <2>1, <3>1, <3>2, <3>3, <3>4, KnowsKept
    <3>5. QED
      BY <2>3, <2>6, <3>4 DEF KnowsEvidence
  <2>7. PagesRestOnRawEvidence'
    BY <1>0, <1>1, <2>1, <2>5, PagesKept
  <2>8. ErrorsBlameTheLastResponse'
    BY <1>0, <1>1, <2>1, <2>5, ErrorsKept DEF Apart
  <2>9. Apart'
    BY <1>1, <1>2, <2>1, <2>2, <2>3, <2>4, WorkersStayApart
  <2>10. QED
    BY <1>1, <2>4, <2>6, <2>7, <2>8, <2>9 DEF EvidenceInv
<1>3. ASSUME runs' = runs, item' = item \/ item' \in [Item -> {Idle, Waiting}]
      PROVE  EvidenceInv'
  <2>1. /\ PagesFrame(Idle) /\ ErrorsFrame(Idle) /\ KnowsEvidence(Idle)
        /\ Idle.pc # "append"
    BY <1>3, UnchangedRuns DEF RunsFrame, KnowsEvidence, Idle
  <2>2. PagesRestOnRawEvidence' /\ ErrorsBlameTheLastResponse'
    BY <1>0, <1>1, <2>1, PagesKept, ErrorsKept
  <2>3. CASE item' = item
    <3>1. ASSUME NEW j \in Item, NEW x, x = item[j]
          PROVE  KnowsEvidence(x)'
      <4>1. x \in ItemRecord /\ RefersToStored(x) /\ KnowsEvidence(x)
        BY <1>0, <3>1 DEF TypeOK, References
      <4>2. QED
        BY <1>0, <1>1, <1>3, <2>1, <4>1, KnowsKept
    <3>2. \A j \in Item : KnowsEvidence(item[j])'
      BY <2>3, <3>1 DEF KnowsEvidence
    <3>3. Apart'
      BY <1>0, <1>3, <2>3 DEF Apart, Run
    <3>4. QED
      BY <1>1, <2>2, <3>2, <3>3 DEF EvidenceInv
  <2>4. CASE item' \in [Item -> {Idle, Waiting}]
    <3>1. \A j \in Item : item'[j].pc \in {"idle", "waiting"}
      BY <2>4 DEF Idle, Waiting
    <3>2. \A j \in Item : KnowsEvidence(item[j])'
      BY <3>1 DEF KnowsEvidence
    <3>3. Apart'
      BY <3>1 DEF Apart, Held, HoldsRun, Working
    <3>4. QED
      BY <1>1, <2>2, <3>2, <3>3 DEF EvidenceInv
  <2>5. QED
    BY <1>3, <2>3, <2>4
<1>4. CASE Invoke \/ JoinWorkers \/ FinishBuild \/ Kill \/ UNCHANGED vars
  BY <1>3, <1>4
  DEF Invoke, JoinWorkers, FinishBuild, Kill, Leave, vars, durable, local
<1>5. ASSUME NEW f \in Families, BuildComparable(f)
      PROVE  EvidenceInv'
  BY <1>3, <1>5 DEF BuildComparable, Leave, local
<1>6. QED
  BY <1>2, <1>4, <1>5 DEF Next, CoordinatorStep, Stopped

(* For any queries, limits, clock and damage, whatever is stored cites     *)
(* responses that were completely written and say what they are cited for, *)
(* no response is the evidence of two pages, and every error blames the    *)
(* last response of its run.                                               *)
THEOREM EvidenceIsSound == Spec => []EvidenceIsCited
<1>1. EvidenceInv => EvidenceIsCited
  BY DEF EvidenceInv, EvidenceIsCited
<1>2. RunsAreSound => StatusMatchesEvidence
  BY DEF RunsAreSound
<1>3. QED
  BY <1>1, <1>2, EvidenceInit, EvidenceStep, StoredRunsAreSound, PTL DEF Spec

-----------------------------------------------------------------------------
(***************************************************************************)
(* That a run does not stay open: finish_run refuses the failure of a run  *)
(* only when the clock was set back before its last page.                  *)
(***************************************************************************)

(* A worker's run is open until it is finished, and left behind then. *)
RunIsOpen(w) ==
    IF w.pc \in HoldsRun THEN w.pc # "report" => runs[w.run].status = "running"
    ELSE w.run = None

OpenInv ==
    /\ EvidenceInv
    /\ SelectionInv
    /\ \A i \in Item : RunIsOpen(item[i])

(* The worker of a failed run read the clock before its last page.         *)
FailedTooEarly(r) ==
    LET pages == runs'[r].pages IN
    pages # <<>> /\ clock' < pages[Len(pages)].at

(* Only create_run adds a run. *)
LEMMA OnlyCreateAdds ==
    ASSUME TypeOK, References, [Next]_vars, Len(runs') > Len(runs)
    PROVE  \E i \in Item : CreateRun(i)
<1>1. SUFFICES ASSUME \A i \in Item : ~CreateRun(i)
      PROVE  Len(runs') = Len(runs)
  BY LenProperties DEF TypeOK
<1>2. CASE runs' = runs
  BY <1>2
<1>3. ASSUME NEW r, NEW x, runs' = [runs EXCEPT ![r] = x]
      PROVE  Len(runs') = Len(runs)
  <2>1. DOMAIN runs' = DOMAIN runs /\ DOMAIN runs = 1..Len(runs) /\ Len(runs) \in Nat
    BY <1>3, LenProperties DEF TypeOK
  <2>2. runs' \in Seq(RunRecord)
    BY StepType DEF TypeOK
  <2>3. DOMAIN runs' = 1..Len(runs') /\ Len(runs') \in Nat
    BY <2>2, LenProperties
  <2>4. QED
    BY <2>1, <2>3
<1>4. ASSUME NEW i \in Item, RunnerStep(i)
      PROVE  Len(runs') = Len(runs)
  BY <1>1, <1>2, <1>3, <1>4
  DEF RunnerStep, TransportError, Respond, PersistMetadata, RawWriteFails, Interpret,
      AppendPage, ObservePage, ObserverFails, FinishRun, StoreFails, PersistFailure,
      Report, ReportFails, durable
<1>5. CASE Invoke \/ CoordinatorStep \/ Kill \/ UNCHANGED vars
  BY <1>2, <1>5
  DEF Invoke, CoordinatorStep, Submit, JoinWorkers, BuildComparable, FinishBuild, Kill,
      vars, durable
<1>6. QED
  BY <1>4, <1>5 DEF Next, Stopped

(* A new run has begun and asks for its query. *)
LEMMA CreatedRun ==
    ASSUME TypeOK, NEW i \in Item, CreateRun(i)
    PROVE  /\ Len(runs') = Len(runs) + 1
           /\ \A r \in Run : runs'[r] = runs[r]
           /\ runs'[Len(runs')] = NewRun(i, clock')
           /\ clock' \in 1..MaxTime
           /\ item'[i].pc = "request" /\ item'[i].run = Len(runs')
<1>1. PICK t \in Readings : runs' = Append(runs, NewRun(i, t)) /\ clock' = t
  BY DEF CreateRun
<1>2. t \in 1..MaxTime
  BY ReadingsType
<1>3. NewRun(i, t) \in RunRecord /\ runs \in Seq(RunRecord)
  BY <1>2, NewRunType DEF TypeOK
<1>4. /\ Len(runs') = Len(runs) + 1
      /\ \A r \in Run : runs'[r] = runs[r]
      /\ runs'[Len(runs) + 1] = NewRun(i, t)
  BY <1>1, <1>3, AppendProperties DEF Run
<1>5. item'[i] = [Idle EXCEPT !.pc = "request", !.attempt = item[i].attempt, !.run = Len(runs) + 1]
  BY DEF CreateRun, TypeOK
<1>6. item'[i].pc = "request" /\ item'[i].run = Len(runs) + 1
  BY <1>5 DEF Idle
<1>7. QED
  BY <1>1, <1>2, <1>4, <1>6

(* finish_run accepts the failure of an open run, in _run's handler, or    *)
(* the completion time is before the last page, and so is the clock.       *)
LEMMA FailuresArePersisted ==
    ASSUME OpenInv, NEW i \in Item, PersistFailure(i)
    PROVE  /\ item'[i].run = None /\ item'[i].pc \notin HoldsRun
           /\ \/ runs'[item[i].run].status # "running"
              \/ FailedTooEarly(item[i].run)
<1>0. /\ TypeOK /\ References /\ RunIsOpen(item[i])
      /\ item[i].pc = "fail" /\ item[i].pc \in HoldsRun
  BY DEF OpenInv, EvidenceInv, PersistFailure, At, HoldsRun, Working
<1>1. PICK r : r = item[i].run
  OBVIOUS
<1>2. /\ r \in Run /\ runs[r].status = "running" /\ runs[r] \in RunRecord
      /\ runs \in Seq(RunRecord)
  BY <1>0, <1>1, ElementOfSeq DEF References, RefersToStored, RunIsOpen, TypeOK, Run
<1>3. PICK t \in Readings :
        /\ clock' = t
        /\ LET done == CompletionTime(i, t)
               status == IF runs[r].pages = <<>> THEN "failed" ELSE "partial" IN
           runs' = IF MayFinish(runs[r], status, done)
                   THEN [runs EXCEPT ![r] = Finished(@, status, done, item[i].error)]
                   ELSE runs
  BY <1>1 DEF PersistFailure
<1>4. PICK done, status : /\ done = CompletionTime(i, t)
                          /\ status = IF runs[r].pages = <<>> THEN "failed" ELSE "partial"
  OBVIOUS
<1>5. /\ done \in Nat /\ t \in Nat
      /\ done >= runs[r].started /\ done >= t
  <2>1. t \in 1..MaxTime
    BY <1>0, ReadingsType
  <2>2. runs[r].started \in 1..MaxTime /\ item[i].last \in 0..MaxTime
    BY <1>0, <1>2 DEF RunRecord, TypeOK, ItemRecord
  <2>3. done \in {t, runs[r].started, item[i].last} /\ done >= t /\ done >= runs[r].started
    <3>1. PICK a, b, c : a = t /\ b = runs[r].started /\ c = item[i].last
      OBVIOUS
    <3>2. done = LatestTime({a, b, c})
      BY <1>1, <1>4, <3>1 DEF CompletionTime
    <3>3. a \in Nat /\ b \in Nat /\ c \in Nat
      BY <2>1, <2>2, <3>1, LimitAssumption
    <3>4. QED
      BY <3>1, <3>2, <3>3, LatestTimeOfThree
  <2>4. QED
    BY <2>1, <2>2, <2>3
<1>6. runs[r].pages \in Seq(PageRecord)
  BY <1>2 DEF RunRecord
<1>7. /\ Len(runs[r].pages) \in Nat
      /\ runs[r].pages = <<>> <=> Len(runs[r].pages) = 0
  BY <1>6, EmptySeq, LenProperties
<1>8. item'[i].run = None /\ item'[i].pc \notin HoldsRun
  <2>1. PICK x \in AfterFailure(i) : item' = [item EXCEPT ![i] = x]
    BY DEF PersistFailure
  <2>2. item'[i] = x
    BY <1>0, <2>1 DEF TypeOK
  <2>3. QED
    BY <2>1, <2>2 DEF AfterFailure, Failed, Idle, HoldsRun, Working
<1>9. CASE Len(runs[r].pages) > 0 => done >= runs[r].pages[Len(runs[r].pages)].at
  <2>1. MayFinish(runs[r], status, done)
    BY <1>2, <1>4, <1>5, <1>7, <1>9 DEF MayFinish
  <2>2. runs' = [runs EXCEPT ![r] = Finished(runs[r], status, done, item[i].error)]
    BY <1>3, <1>4, <2>1
  <2>3. runs'[r] = Finished(runs[r], status, done, item[i].error)
    BY <1>2, <2>2, LenProperties DEF Run
  <2>4. runs'[r].status = status /\ status # "running"
    BY <1>2, <1>4, <2>3 DEF Finished, RunRecord
  <2>5. QED
    BY <1>1, <1>8, <2>4
<1>10. CASE /\ Len(runs[r].pages) > 0
            /\ ~(done >= runs[r].pages[Len(runs[r].pages)].at)
  <2>1. runs' = runs
    BY <1>3, <1>4, <1>10 DEF MayFinish
  <2>2. PICK n \in Nat : n = Len(runs[r].pages)
    BY <1>7
  <2>3. runs[r].pages[n] \in PageRecord
    BY <1>6, <1>10, <2>2, ElementOfSeq
  <2>4. runs[r].pages[n].at \in Nat
    BY <2>3 DEF PageRecord
  <2>5. clock' < runs[r].pages[n].at
    BY <1>3, <1>5, <1>10, <2>2, <2>4
  <2>6. QED
    BY <1>1, <1>7, <1>8, <1>10, <2>1, <2>2, <2>5 DEF FailedTooEarly
<1>11. QED
  BY <1>9, <1>10

(* A worker keeps its run open until it finishes it. *)
LEMMA WorkerStaysOpen ==
    ASSUME OpenInv, NEW i \in Item, RunnerStep(i) \/ Submit(i)
    PROVE  RunIsOpen(item[i])'
<1>0. /\ TypeOK /\ References /\ RunIsOpen(item[i]) /\ item \in [Item -> ItemRecord]
      /\ item[i] \in ItemRecord
      /\ item[i].pc \in HoldsRun => item[i].run \in Run
      /\ runs \in Seq(RunRecord) /\ \A r \in Run : runs[r] \in RunRecord
  BY ElementOfSeq DEF OpenInv, EvidenceInv, TypeOK, References, RefersToStored, Run
<1>1. ASSUME item'[i].pc \notin HoldsRun, item'[i].run = None
      PROVE  RunIsOpen(item[i])'
  BY <1>1 DEF RunIsOpen
<1>2. ASSUME item[i].pc \in HoldsRun \ {"report"}, item'[i].run = item[i].run,
             item'[i].pc \in HoldsRun, runs'[item[i].run].status = runs[item[i].run].status
      PROVE  RunIsOpen(item[i])'
  BY <1>0, <1>2 DEF RunIsOpen
<1>3. CASE Submit(i)
  <2>1. item[i].run = None
    BY <1>0, <1>3 DEF Submit, At, RunIsOpen, HoldsRun, Working
  <2>2. item'[i].run = item[i].run /\ item'[i].pc = "create"
    BY <1>0, <1>3 DEF Submit, ItemRecord
  <2>3. QED
    BY <1>1, <2>1, <2>2 DEF HoldsRun
<1>4. CASE CreateRun(i)
  <2>1. item'[i].run = Len(runs') /\ runs'[Len(runs')] = NewRun(i, clock')
    BY <1>0, <1>4, CreatedRun
  <2>2. item'[i].pc \in HoldsRun
    BY <1>0, <1>4, CreatedRun DEF HoldsRun, Working
  <2>3. QED
    BY <2>1, <2>2 DEF RunIsOpen, NewRun
<1>5. CASE \/ TransportError(i) \/ Respond(i) \/ PersistMetadata(i) \/ RawWriteFails(i)
           \/ Interpret(i) \/ ObserverFails(i)
  <2>1. item[i].pc \in HoldsRun \ {"report"} /\ runs' = runs
    BY <1>5 DEF TransportError, Respond, PersistMetadata, RawWriteFails, Interpret,
                ObserverFails, At, HoldsRun, Working, durable
  <2>2. /\ item'[i].run = item[i].run
        /\ item'[i].pc \in {"fail", "raw", "interpret", "append", "observe"}
    <3>1. CASE TransportError(i)
      BY <1>0, <3>1 DEF TransportError, ItemRecord
    <3>2. CASE Respond(i)
      BY <1>0, <3>2 DEF Respond, ItemRecord
    <3>3. CASE PersistMetadata(i)
      BY <1>0, <3>3 DEF PersistMetadata, ItemRecord
    <3>4. CASE RawWriteFails(i) \/ Interpret(i) \/ ObserverFails(i)
      <4>1. PICK pc \in {"fail", "append"} : Goto(i, pc)
        BY <3>4 DEF RawWriteFails, Interpret, ObserverFails
      <4>2. QED
        BY <1>0, <4>1 DEF Goto, ItemRecord
    <3>5. QED
      BY <1>5, <3>1, <3>2, <3>3, <3>4
  <2>3. QED
    BY <1>2, <2>1, <2>2 DEF HoldsRun, Working
<1>6. CASE ObservePage(i)
  <2>1. item[i].pc \in HoldsRun \ {"report"} /\ runs' = runs
    BY <1>6 DEF ObservePage, At, HoldsRun, Working, durable
  <2>2. item'[i] = AfterPage(item[i], raw[item[i].snap])
    BY <1>0, <1>6 DEF ObservePage
  <2>3. item'[i].run = item[i].run /\ item'[i].pc \in {"finish", "fail", "request"}
    BY <1>0, <2>2 DEF AfterPage, ItemRecord
  <2>4. QED
    BY <1>2, <2>1, <2>3 DEF HoldsRun, Working
<1>7. CASE AppendPage(i)
  <2>1. /\ item[i].pc = "append" /\ item[i].pc \in HoldsRun \ {"report"}
        /\ item[i].run \in Run /\ item[i].snap \in 1..Len(raw)
    BY <1>0, <1>7 DEF AppendPage, At, HoldsRun, Working, HoldsSnapshot, References, RefersToStored
  <2>2. item'[i].run = item[i].run /\ item'[i].pc \in HoldsRun
    <3>1. PICK pc \in {"fail", "observe"} : Goto(i, pc)
      BY <1>7 DEF AppendPage
    <3>2. QED
      BY <1>0, <3>1 DEF Goto, ItemRecord, HoldsRun, Working
  <2>3. runs'[item[i].run].status = runs[item[i].run].status
    <3>1. CASE runs' = runs
      BY <3>1
    <3>2. CASE runs' = [runs EXCEPT ![item[i].run] = Extended(@, PageOf(item[i].snap))]
      <4>1. runs'[item[i].run] = Extended(runs[item[i].run], PageOf(item[i].snap))
        BY <1>0, <2>1, <3>2, LenProperties DEF Run
      <4>2. QED
        BY <1>0, <2>1, <4>1, PageOfType, RunExtendedType
    <3>3. QED
      BY <1>7, <3>1, <3>2 DEF AppendPage
  <2>4. QED
    BY <1>2, <2>1, <2>2, <2>3
<1>8. CASE FinishRun(i)
  <2>1. item[i].pc \in HoldsRun \ {"report"}
    BY <1>8 DEF FinishRun, At, HoldsRun, Working
  <2>2. CASE Goto(i, "report")
    <3>1. item'[i].pc = "report"
      BY <1>0, <2>2 DEF Goto, ItemRecord
    <3>2. QED
      BY <3>1 DEF RunIsOpen, HoldsRun, Working
  <2>3. CASE Goto(i, "fail") /\ runs' = runs
    <3>1. item'[i].run = item[i].run /\ item'[i].pc = "fail"
      BY <1>0, <2>3 DEF Goto, ItemRecord
    <3>2. QED
      BY <1>2, <2>1, <2>3, <3>1 DEF HoldsRun, Working
  <2>4. QED
    BY <1>8, <2>2, <2>3 DEF FinishRun
<1>9. CASE StoreFails(i)
  <2>1. CASE item' = [item EXCEPT ![i] = Failed]
    BY <1>0, <1>1, <2>1 DEF Failed, Idle, HoldsRun, Working
  <2>2. CASE item[i].pc \in {"interpret", "append", "finish"} /\ Goto(i, "fail")
    <3>1. item'[i].run = item[i].run /\ item'[i].pc = "fail"
      BY <1>0, <2>2 DEF Goto, ItemRecord
    <3>2. runs' = runs
      BY <1>9 DEF StoreFails, durable
    <3>3. QED
      BY <1>2, <2>2, <3>1, <3>2 DEF HoldsRun, Working
  <2>3. QED
    BY <1>9, <2>1, <2>2 DEF StoreFails
<1>10. CASE PersistFailure(i)
  BY <1>1, <1>10, FailuresArePersisted
<1>11. CASE Report(i) \/ ReportFails(i)
  BY <1>0, <1>1, <1>11 DEF Report, ReportFails, Failed, Idle, HoldsRun, Working
<1>12. QED
  BY <1>3, <1>4, <1>5, <1>6, <1>7, <1>8, <1>9, <1>10, <1>11 DEF RunnerStep

LEMMA OpenInit == Init => OpenInv
<1> SUFFICES ASSUME Init
             PROVE  OpenInv
  OBVIOUS
<1>1. EvidenceInv /\ SelectionInv
  BY EvidenceInit, SelectionInit
<1>2. \A i \in Item : RunIsOpen(item[i])
  BY DEF Init, RunIsOpen, Idle, HoldsRun, Working
<1>3. QED
  BY <1>1, <1>2 DEF OpenInv

LEMMA OpenStep ==
    ASSUME OpenInv, EvidenceInv', [Next]_vars
    PROVE  OpenInv'
<1>0. /\ EvidenceInv /\ SelectionInv /\ TypeOK /\ References /\ Apart
      /\ StatusMatchesEvidence /\ \A i \in Item : RunIsOpen(item[i])
  BY DEF OpenInv, EvidenceInv
<1>1. SelectionInv'
  BY <1>0, SelectionStep
<1>2. ASSUME NEW i \in Item, RunnerStep(i) \/ Submit(i), NEW j \in Item
      PROVE  RunIsOpen(item[j])'
  <2>1. CASE j = i
    BY <1>2, <2>1, WorkerStaysOpen
  <2>2. CASE j # i
    <3>1. item'[j] = item[j]
      BY <1>0, <1>2, <2>2
      DEF TypeOK, RunnerStep, Submit, CreateRun, TransportError, Respond, PersistMetadata,
          RawWriteFails, Interpret, AppendPage, ObservePage, ObserverFails, FinishRun,
          StoreFails, PersistFailure, Report, ReportFails, Goto
    <3>2. OthersFrame(item[i])
      BY <1>0, <1>2, WorkerFrame DEF RunsFrame
    <3>3. item[j].pc \in HoldsRun => runs'[item[j].run] = runs[item[j].run]
      BY <1>0, <2>2, <3>2 DEF OthersFrame, Apart, References, RefersToStored, Run
    <3>4. QED
      BY <1>0, <3>1, <3>3 DEF RunIsOpen
  <2>3. QED
    BY <2>1, <2>2
<1>3. ASSUME runs' = runs, item' = item \/ item' \in [Item -> {Idle, Waiting}], NEW j \in Item
      PROVE  RunIsOpen(item[j])'
  <2>1. CASE item' = item
    BY <1>0, <1>3, <2>1 DEF RunIsOpen
  <2>2. CASE item' \in [Item -> {Idle, Waiting}]
    BY <2>2 DEF RunIsOpen, Idle, Waiting, HoldsRun, Working
  <2>3. QED
    BY <1>3, <2>1, <2>2
<1>4. CASE Invoke \/ JoinWorkers \/ FinishBuild \/ Kill \/ UNCHANGED vars
  <2>1. runs' = runs /\ (item' = item \/ item' \in [Item -> {Idle, Waiting}])
    BY <1>4 DEF Invoke, JoinWorkers, FinishBuild, Kill, Leave, vars, durable, local
  <2>2. QED
    BY <1>0, <1>1, <1>3, <2>1 DEF OpenInv
<1>5. ASSUME NEW f \in Families, BuildComparable(f)
      PROVE  OpenInv'
  <2>1. runs' = runs /\ (item' = item \/ item' \in [Item -> {Idle, Waiting}])
    BY <1>5 DEF BuildComparable, Leave, local
  <2>2. QED
    BY <1>0, <1>1, <1>3, <2>1 DEF OpenInv
<1>6. QED
  BY <1>1, <1>2, <1>4, <1>5 DEF OpenInv, Next, CoordinatorStep, Stopped

(* A worker leaves a run only by reporting it or by persisting its failure. *)
LEMMA LeftRunsAreTerminal ==
    ASSUME OpenInv, [Next]_vars, NEW j \in Item,
           item[j].pc \in Working, item[j].run # None, phase' = phase
    PROVE  \/ item'[j].run = item[j].run
           \/ runs'[item[j].run].status # "running"
           \/ FailedTooEarly(item[j].run)
<1>0. /\ TypeOK /\ References /\ RunIsOpen(item[j]) /\ item \in [Item -> ItemRecord]
      /\ WorkerKnows(j)
  BY DEF OpenInv, EvidenceInv, TypeOK, SelectionInv
<1>1. item[j].pc \in HoldsRun
  BY <1>0 DEF RunIsOpen
<1>2. ASSUME NEW i \in Item, RunnerStep(i) \/ Submit(i)
      PROVE  \/ item'[j].run = item[j].run
             \/ runs'[item[j].run].status # "running"
             \/ FailedTooEarly(item[j].run)
  <2>1. ItemChange(j)
    BY <1>0, <1>2, ItemChanges
  <2>2. CASE PersistFailure(j)
    BY <2>2, FailuresArePersisted
  <2>3. CASE Report(j) \/ ReportFails(j)
    BY <1>0, <2>3 DEF Report, ReportFails, At, WorkerKnows, durable
  <2>4. CASE j # i \/ ~(PersistFailure(j) \/ Report(j) \/ ReportFails(j))
    <3>1. CASE j # i
      BY <1>0, <1>2, <3>1
      DEF RunnerStep, Submit, CreateRun, TransportError, Respond, PersistMetadata,
          RawWriteFails, Interpret, AppendPage, ObservePage, ObserverFails, FinishRun,
          StoreFails, PersistFailure, Report, ReportFails, Goto
    <3>2. CASE j = i /\ ~(PersistFailure(j) \/ Report(j) \/ ReportFails(j))
      <4>1. item'[j] = item[j] \/ item'[j].pc \in HoldsRun
        <5>1. ~(item'[j].pc = "idle" /\ Report(j))
          BY <3>2
        <5>2. ~CreateRun(j)
          BY <1>1 DEF CreateRun, At, HoldsRun
        <5>3. ASSUME item'[j].pc \in {"create", "failed"}
              PROVE  FALSE
          <6>1. ~StoreFails(j) \/ item'[j].pc = "fail"
            BY <1>0, <1>1 DEF StoreFails, At, HoldsRun, Goto, TypeOK, ItemRecord
          <6>2. ~ObservePage(j) \/ item'[j].pc \in {"finish", "fail", "request"}
            <7>1. ObservePage(j) => item'[j] = AfterPage(item[j], raw[item[j].snap])
              BY <1>0 DEF ObservePage
            <7>2. item[j] \in ItemRecord
              BY <1>0
            <7>3. QED
              BY <7>1, <7>2 DEF AfterPage, ItemRecord
          <6>3. ~Submit(j)
            BY <1>1 DEF Submit, At, HoldsRun, Working
          <6>4. ~(TransportError(j) \/ Respond(j) \/ PersistMetadata(j) \/ RawWriteFails(j)
                  \/ Interpret(j) \/ AppendPage(j) \/ ObserverFails(j) \/ FinishRun(j))
            BY <1>0, <5>3
            DEF TransportError, Respond, PersistMetadata, RawWriteFails, Interpret,
                AppendPage, ObserverFails, FinishRun, Goto, ItemRecord
          <6>5. QED
            BY <1>2, <3>2, <5>2, <5>3, <6>1, <6>2, <6>3, <6>4 DEF RunnerStep
        <5>4. QED
          BY <2>1, <5>1, <5>2, <5>3 DEF ItemChange
      <4>2. QED
        BY <2>1, <3>2, <4>1, <1>1 DEF ItemChange, HoldsRun, Working, CreateRun, At
    <3>3. QED
      BY <2>4, <3>1, <3>2
  <2>5. QED
    BY <2>2, <2>3, <2>4
<1>3. CASE Invoke
  BY <1>3 DEF Invoke
<1>4. CASE JoinWorkers \/ FinishBuild \/ Kill \/ UNCHANGED vars
  BY <1>4 DEF JoinWorkers, FinishBuild, Kill, Leave, vars, local
<1>5. ASSUME NEW f \in Families, BuildComparable(f)
      PROVE  item'[j].run = item[j].run
  BY <1>5 DEF BuildComparable, Leave, local
<1>6. QED
  BY <1>2, <1>3, <1>4, <1>5 DEF Next, CoordinatorStep, Stopped

(* _run, finish_run: whatever fails, and however the clock is set, a worker *)
(* that is not killed leaves a run RUNNING behind only when the clock reads *)
(* a time before the last page of that run.                                 *)
THEOREM RunsAreLeftOpenByTheClock == Spec => OnlyTheClockLeavesRunsOpen
<1>1. OpenInv /\ [Next]_vars =>
        \A i \in Item :
            item[i].pc \in Working /\ item[i].run # None /\ phase' = phase =>
                LET r == item[i].run
                    pages == runs'[r].pages IN
                \/ item'[i].run = r
                \/ runs'[r].status # "running"
                \/ pages # <<>> /\ clock' < pages[Len(pages)].at
  BY LeftRunsAreTerminal DEF FailedTooEarly
<1>2. OpenInv /\ StatusMatchesEvidence' /\ [Next]_vars => OpenInv'
  BY OpenStep, EvidenceStep DEF OpenInv
<1>3. RunsAreSound => StatusMatchesEvidence
  BY DEF RunsAreSound
<1>4. QED
  BY <1>1, <1>2, <1>3, OpenInit, StoredRunsAreSound, PTL DEF Spec, OnlyTheClockLeavesRunsOpen

-----------------------------------------------------------------------------
(***************************************************************************)
(* With a clock that is never set back no page is later than the clock, so *)
(* no run is left open.                                                    *)
(***************************************************************************)

(* Nothing stored is later than the clock. *)
Timely ==
    /\ \A r \in Run : /\ runs[r].started <= clock
                      /\ \A k \in 1..Len(runs[r].pages) : runs[r].pages[k].at <= clock
    /\ \A s \in 1..Len(raw) : raw[s].at <= clock

(* The clock of the readings is the one that is read. *)
LEMMA ClockAdvances ==
    ASSUME ClockStepsBack = FALSE, TypeOK, [Next]_vars
    PROVE  clock' \in Nat /\ clock \in Nat /\ clock' >= clock
<1>1. clock' = clock \/ clock' \in Readings
  <2>1. ASSUME NEW i \in Item, RunnerStep(i)
        PROVE  clock' = clock \/ clock' \in Readings
    <3>1. CASE CreateRun(i) \/ Respond(i) \/ FinishRun(i) \/ PersistFailure(i)
      BY <3>1 DEF CreateRun, Respond, FinishRun, PersistFailure
    <3>2. QED
      BY <2>1, <3>1
      DEF RunnerStep, TransportError, PersistMetadata, RawWriteFails, Interpret, AppendPage,
          ObservePage, ObserverFails, StoreFails, Report, ReportFails
  <2>2. CASE Invoke \/ CoordinatorStep \/ Kill \/ UNCHANGED vars
    BY <2>2
    DEF Invoke, CoordinatorStep, Submit, JoinWorkers, BuildComparable, FinishBuild, Kill, vars
  <2>3. QED
    BY <2>1, <2>2 DEF Next, Stopped
<1>2. clock \in 1..MaxTime /\ MaxTime \in Nat
  BY LimitAssumption DEF TypeOK
<1>3. QED
  BY <1>1, <1>2 DEF Readings

(* A response is received when the clock is read. *)
LEMMA ResponsesAreTimely ==
    ASSUME TypeOK, References, [Next]_vars, NEW s \in 1..Len(raw')
    PROVE  (s \in 1..Len(raw) /\ raw'[s].at = raw[s].at) \/ raw'[s].at = clock'
<1>1. CASE s \in 1..Len(raw)
  BY <1>1, RawStep DEF RawKept
<1>2. CASE s \notin 1..Len(raw)
  <2>0. Len(raw) \in Nat /\ raw \in Seq(SnapshotRecord)
    BY LenProperties DEF TypeOK
  <2>1. raw' # raw
    BY <1>2
  <2>2. CASE Kill
    <3>1. raw' = [q \in 1..Len(raw) |-> raw'[q]]
      BY <2>2 DEF Kill
    <3>2. raw' \in Seq(SnapshotRecord)
      BY StepType DEF TypeOK
    <3>3. DOMAIN raw' = 1..Len(raw') /\ DOMAIN raw' = 1..Len(raw)
      BY <3>1, <3>2, LenProperties
    <3>4. QED
      BY <1>2, <3>3
  <2>3. ASSUME NEW i \in Item, PersistMetadata(i)
        PROVE  FALSE
    <3>1. DOMAIN raw' = DOMAIN raw /\ raw' \in Seq(SnapshotRecord)
      BY <2>3, StepType DEF PersistMetadata, TypeOK
    <3>2. DOMAIN raw' = 1..Len(raw') /\ DOMAIN raw = 1..Len(raw)
      BY <2>0, <3>1, LenProperties
    <3>3. QED
      BY <1>2, <3>1, <3>2
  <2>4. ASSUME NEW i \in Item, Respond(i)
        PROVE  raw'[s].at = clock'
    <3>1. PICK t \in Readings, k \in Kind, more \in BOOLEAN, next \in {None, Len(raw) + 1} :
              /\ raw' = Append(raw, NewSnapshot(k, t, item[i].token, more, next))
              /\ clock' = t
      BY <2>4 DEF Respond
    <3>2. t \in 1..MaxTime /\ item[i].token \in Nat
      BY ReadingsType DEF TypeOK, ItemRecord
    <3>3. NewSnapshot(k, t, item[i].token, more, next) \in SnapshotRecord
      BY <2>0, <3>2 DEF NewSnapshot, SnapshotRecord, None
    <3>4. /\ Len(raw') = Len(raw) + 1
          /\ raw'[Len(raw) + 1] = NewSnapshot(k, t, item[i].token, more, next)
      BY <2>0, <3>1, <3>3, AppendProperties
    <3>5. s = Len(raw) + 1
      BY <1>2, <2>0, <3>4
    <3>6. QED
      BY <3>1, <3>4, <3>5 DEF NewSnapshot
  <2>5. ASSUME NEW i \in Item, RunnerStep(i), ~Respond(i), ~PersistMetadata(i)
        PROVE  FALSE
    BY <2>1, <2>5
    DEF RunnerStep, CreateRun, TransportError, RawWriteFails, Interpret, AppendPage,
        ObservePage, ObserverFails, FinishRun, StoreFails, PersistFailure, Report,
        ReportFails, durable
  <2>6. CASE Invoke \/ CoordinatorStep \/ UNCHANGED vars
    BY <2>1, <2>6
    DEF Invoke, CoordinatorStep, Submit, JoinWorkers, BuildComparable, FinishBuild, vars, durable
  <2>7. QED
    BY <2>2, <2>3, <2>4, <2>5, <2>6 DEF Next, Stopped
<1>3. QED
  BY <1>1, <1>2

(* A run that was there keeps its start, a new one starts now. *)
LEMMA RunsStartTimely ==
    ASSUME TypeOK, References, [Next]_vars, NEW r \in 1..Len(runs')
    PROVE  (r \in Run /\ runs'[r].started = runs[r].started) \/ runs'[r].started = clock'
<1>1. CASE r \in Run
  <2>1. RunChange(runs[r], runs'[r]) /\ runs[r] \in RunRecord
    BY <1>1, StepType, RunsStepEffect, ElementOfSeq DEF TypeOK, Run
  <2>2. QED
    BY <1>1, <2>1, RunExtendedType, RunEndedType DEF RunChange
<1>2. CASE r \notin Run
  <2>1. Len(runs') > Len(runs) /\ Len(runs) \in Nat
    BY <1>2, LenProperties, StepType DEF Run, TypeOK
  <2>2. PICK i \in Item : CreateRun(i)
    BY <2>1, OnlyCreateAdds
  <2>3. Len(runs') = Len(runs) + 1 /\ runs'[Len(runs')] = NewRun(i, clock')
    BY <2>2, CreatedRun
  <2>4. r = Len(runs')
    BY <1>2, <2>1, <2>3 DEF Run
  <2>5. QED
    BY <2>3, <2>4 DEF NewRun
<1>3. QED
  BY <1>1, <1>2

(* Each page was there, or was made of a response that was. *)
LEMMA PagesAreTimely ==
    ASSUME EvidenceInv, Timely, [Next]_vars,
           NEW r \in 1..Len(runs'), NEW k \in 1..Len(runs'[r].pages)
    PROVE  runs'[r].pages[k].at <= clock
<1>0. TypeOK /\ References /\ StatusMatchesEvidence
  BY DEF EvidenceInv
<1>1. ASSUME NEW w, PagesFrame(w), w.pc = "append" => w.snap \in 1..Len(raw)
      PROVE  runs'[r].pages[k].at <= clock
  <2>1. CASE r \in Run /\ k \in 1..Len(runs[r].pages) /\ runs'[r].pages[k] = runs[r].pages[k]
    BY <2>1 DEF Timely
  <2>2. CASE w.pc = "append" /\ runs'[r].pages[k] = PageOf(w.snap)
    <3>1. PageOf(w.snap).at = raw[w.snap].at
      BY DEF PageOf
    <3>2. QED
      BY <1>1, <2>2, <3>1 DEF Timely
  <2>3. QED
    BY <1>1, <2>1, <2>2 DEF PagesFrame
<1>2. ASSUME NEW i \in Item, RunnerStep(i) \/ Submit(i)
      PROVE  runs'[r].pages[k].at <= clock
  <2>1. PagesFrame(item[i])
    BY <1>0, <1>2, WorkerFrame DEF RunsFrame
  <2>2. item[i].pc = "append" => item[i].snap \in 1..Len(raw)
    BY <1>0 DEF References, RefersToStored, HoldsSnapshot
  <2>3. QED
    BY <1>1, <2>1, <2>2
<1>3. CASE runs' = runs
  BY <1>3 DEF Timely, Run
<1>4. CASE Invoke \/ JoinWorkers \/ FinishBuild \/ Kill \/ UNCHANGED vars
  BY <1>3, <1>4 DEF Invoke, JoinWorkers, FinishBuild, Kill, vars, durable
<1>5. ASSUME NEW f \in Families, BuildComparable(f)
      PROVE  runs'[r].pages[k].at <= clock
  BY <1>3, <1>5 DEF BuildComparable
<1>6. QED
  BY <1>2, <1>4, <1>5 DEF Next, CoordinatorStep, Stopped

LEMMA TimelyStep ==
    ASSUME ClockStepsBack = FALSE, EvidenceInv, Timely, [Next]_vars
    PROVE  Timely'
<1>0. TypeOK /\ References /\ TypeOK'
  BY StepType DEF EvidenceInv
<1>1. clock' \in Nat /\ clock \in Nat /\ clock' >= clock
  BY <1>0, ClockAdvances
<1>2. ASSUME NEW s \in 1..Len(raw')
      PROVE  raw'[s].at <= clock'
  <2>1. CASE raw'[s].at = clock'
    BY <1>1, <2>1
  <2>2. CASE s \in 1..Len(raw) /\ raw'[s].at = raw[s].at
    <3>1. raw[s] \in SnapshotRecord
      BY <1>0, <2>2, ElementOfSeq DEF TypeOK
    <3>2. raw[s].at \in Nat /\ raw[s].at <= clock
      BY <2>2, <3>1 DEF SnapshotRecord, Timely
    <3>3. QED
      BY <1>1, <2>2, <3>2
  <2>3. QED
    BY <1>0, <2>1, <2>2, ResponsesAreTimely
<1>3. ASSUME NEW r \in 1..Len(runs')
      PROVE  runs'[r].started <= clock'
  <2>1. CASE runs'[r].started = clock'
    BY <1>1, <2>1
  <2>2. CASE r \in Run /\ runs'[r].started = runs[r].started
    <3>1. runs[r] \in RunRecord
      BY <1>0, <2>2, ElementOfSeq DEF TypeOK, Run
    <3>2. runs[r].started \in Nat /\ runs[r].started <= clock
      BY <2>2, <3>1 DEF RunRecord, Timely
    <3>3. QED
      BY <1>1, <2>2, <3>2
  <2>3. QED
    BY <1>0, <2>1, <2>2, RunsStartTimely
<1>4. ASSUME NEW r \in 1..Len(runs'), NEW k \in 1..Len(runs'[r].pages)
      PROVE  runs'[r].pages[k].at <= clock'
  <2>1. runs'[r].pages[k].at <= clock
    BY PagesAreTimely
  <2>2. runs'[r] \in RunRecord
    BY <1>0, ElementOfSeq DEF TypeOK
  <2>3. runs'[r].pages[k] \in PageRecord
    BY <2>2, ElementOfSeq DEF RunRecord
  <2>4. runs'[r].pages[k].at \in Nat
    BY <2>3 DEF PageRecord
  <2>5. QED
    BY <1>1, <2>1, <2>4
<1>5. QED
  BY <1>2, <1>3, <1>4 DEF Timely, Run

(* _run, finish_run: unless it is killed, a worker leaves no run RUNNING   *)
(* behind, if the clock is not set back.                                   *)
THEOREM EndedRunsStayTerminal ==
    ASSUME ClockStepsBack = FALSE
    PROVE  Spec => EndedRunsAreTerminal
<1> DEFINE Inv == OpenInv /\ Timely
<1>1. ASSUME Inv, [Next]_vars, NEW i \in Item,
             item[i].pc \in Working, item[i].run # None, phase' = phase
      PROVE  item'[i].run = item[i].run \/ runs'[item[i].run].status # "running"
  <2>0. /\ TypeOK /\ EvidenceInv /\ RunIsOpen(item[i]) /\ References
        /\ TypeOK' /\ RunsStep
    BY <1>1, StepType DEF OpenInv, EvidenceInv
  <2>1. PICK r : r = item[i].run
    OBVIOUS
  <2>2. r \in 1..Len(runs')
    BY <1>1, <2>0, <2>1, RunsAreKept DEF RunIsOpen, References, RefersToStored
  <2>3. runs'[r].pages \in Seq(PageRecord)
    <3>1. runs'[r] \in RunRecord
      BY <2>0, <2>2, ElementOfSeq DEF TypeOK
    <3>2. QED
      BY <3>1 DEF RunRecord
  <2>4. ~FailedTooEarly(r)
    <3> SUFFICES ASSUME runs'[r].pages # <<>>
                 PROVE  ~(clock' < runs'[r].pages[Len(runs'[r].pages)].at)
      BY DEF FailedTooEarly
    <3>1. PICK n \in Nat : n = Len(runs'[r].pages)
      BY <2>3, LenProperties
    <3>2. n \in 1..Len(runs'[r].pages)
      BY <2>3, <3>1, EmptySeq
    <3>3. runs'[r].pages[n].at <= clock
      BY <1>1, <2>0, <2>2, <3>2, PagesAreTimely
    <3>4. runs'[r].pages[n] \in PageRecord
      BY <2>3, <3>2, ElementOfSeq
    <3>5. runs'[r].pages[n].at \in Nat
      BY <3>4 DEF PageRecord
    <3>6. clock' \in Nat /\ clock \in Nat /\ clock' >= clock
      BY <1>1, <2>0, ClockAdvances
    <3>7. QED
      BY <3>1, <3>3, <3>5, <3>6
  <2>5. QED
    BY <1>1, <2>1, <2>4, LeftRunsAreTerminal
<1>2. Inv /\ [Next]_vars =>
        \A i \in Item :
            item[i].pc \in Working /\ item[i].run # None /\ phase' = phase =>
                \/ item'[i].run = item[i].run
                \/ runs'[item[i].run].status # "running"
  BY <1>1
<1>3. Inv /\ StatusMatchesEvidence' /\ [Next]_vars => Inv'
  BY OpenStep, EvidenceStep, TimelyStep DEF OpenInv
<1>4. Init => Inv
  BY OpenInit DEF Init, Timely, Run
<1>5. RunsAreSound => StatusMatchesEvidence
  BY DEF RunsAreSound
<1>6. QED
  BY <1>2, <1>3, <1>4, <1>5, StoredRunsAreSound, PTL DEF Spec, EndedRunsAreTerminal

-----------------------------------------------------------------------------
(***************************************************************************)
(* That a query is collected only while no stored run of it can be reused, *)
(* as long as no two queries share a text.                                 *)
(***************************************************************************)

Seeking == {"waiting"} \cup (Working \ {"report"})

(* No run of the query that is sought can be reused. *)
Misses(j) ==
    item[j].pc \in Seeking =>
        \A r \in Run : runs[r].text = TextOf[j] => ~Reusable(r)

(* A snapshot without metadata cannot have been damaged by a power failure, *)
(* which ends its worker.                                                   *)
IsUnfinished(w) == w.pc = "raw" => raw[w.snap].state = "body"

MissingInv ==
    /\ EvidenceInv
    /\ SelectionInv
    /\ \A j \in Item : Misses(j) /\ IsUnfinished(item[j])

TextsDiffer == \A i, j \in Item : TextOf[i] = TextOf[j] => i = j

(* A worker that is to seek its query was seeking it. *)
LEMMA StillSeeking ==
    ASSUME TypeOK, NEW i \in Item, RunnerStep(i) \/ Submit(i), NEW j \in Item,
           item'[j].pc \in Seeking
    PROVE  item[j].pc \in Seeking
<1>0. item \in [Item -> ItemRecord]
  BY DEF TypeOK
<1>1. CASE j # i
  <2>1. item'[j] = item[j]
    BY <1>0, <1>1
    DEF RunnerStep, Submit, CreateRun, TransportError, Respond, PersistMetadata,
        RawWriteFails, Interpret, AppendPage, ObservePage, ObserverFails, FinishRun,
        StoreFails, PersistFailure, Report, ReportFails, Goto
  <2>2. QED
    BY <2>1
<1>2. CASE j = i /\ (Report(i) \/ ReportFails(i))
  BY <1>0, <1>2 DEF Report, ReportFails, Failed, Idle, Seeking, Working
<1>3. CASE j = i /\ ~(Report(i) \/ ReportFails(i))
  BY <1>3
  DEF RunnerStep, Submit, CreateRun, TransportError, Respond, PersistMetadata,
      RawWriteFails, Interpret, AppendPage, ObservePage, ObserverFails, FinishRun,
      StoreFails, PersistFailure, At, Seeking, Working
<1>4. QED
  BY <1>1, <1>2, <1>3

(* A response that is read back whole was whole before, or is the one that *)
(* a worker completes.                                                     *)
LEMMA WholeWasWhole ==
    ASSUME TypeOK, References, NEW i \in Item, RunnerStep(i) \/ Submit(i),
           NEW s \in 1..Len(raw), raw'[s].state # raw[s].state
    PROVE  item[i].pc = "raw" /\ s = item[i].snap
<1>0. raw \in Seq(SnapshotRecord) /\ Len(raw) \in Nat
  BY LenProperties DEF TypeOK
<1>1. raw' # raw
  OBVIOUS
<1>2. CASE PersistMetadata(i)
  <2>1. item[i].pc = "raw" /\ item[i].snap \in 1..Len(raw)
    BY <1>2 DEF PersistMetadata, At, References, RefersToStored, HoldsSnapshot
  <2>2. s # item[i].snap => raw'[s] = raw[s]
    BY <1>0, <1>2, LenProperties DEF PersistMetadata
  <2>3. QED
    BY <2>1, <2>2
<1>3. CASE Respond(i)
  <2>1. PICK t \in Readings, k \in Kind, more \in BOOLEAN, next \in {None, Len(raw) + 1} :
            raw' = Append(raw, NewSnapshot(k, t, item[i].token, more, next))
    BY <1>3 DEF Respond
  <2>2. t \in 1..MaxTime /\ item[i].token \in Nat
    BY ReadingsType DEF TypeOK, ItemRecord
  <2>3. NewSnapshot(k, t, item[i].token, more, next) \in SnapshotRecord
    BY <1>0, <2>2 DEF NewSnapshot, SnapshotRecord, None
  <2>4. raw'[s] = raw[s]
    BY <1>0, <2>1, <2>3, AppendProperties
  <2>5. QED
    BY <2>4
<1>4. CASE ~PersistMetadata(i) /\ ~Respond(i)
  BY <1>1, <1>4
  DEF RunnerStep, Submit, CreateRun, TransportError, RawWriteFails, Interpret, AppendPage,
      ObservePage, ObserverFails, FinishRun, StoreFails, PersistFailure, Report,
      ReportFails, durable
<1>5. QED
  BY <1>2, <1>3, <1>4

(* What a run cites is read back as before, unless it was lost. *)
LEMMA ReplaysAsBefore ==
    ASSUME MissingInv, NEW i \in Item, RunnerStep(i) \/ Submit(i), RawKept,
           NEW r \in Run, runs'[r] = runs[r], Reusable(r)'
    PROVE  Reusable(r)
<1>0. TypeOK /\ References /\ PagesRestOnRawEvidence
  BY DEF MissingInv, EvidenceInv
<1>1. ASSUME NEW k \in 1..Len(runs[r].pages)
      PROVE  Replays(runs[r].pages[k])
  <2>1. PICK p : p = runs[r].pages[k]
    OBVIOUS
  <2>2. p.snap \in analysed /\ raw[p.snap].kind = "page" /\ p = PageOf(p.snap)
        /\ raw[p.snap].state # "body"
    BY <1>0, <2>1 DEF PagesRestOnRawEvidence
  <2>3. p.snap \in 1..Len(raw)
    BY <1>0, <2>2 DEF TypeOK
  <2>4. raw'[p.snap].state = "whole"
    BY <2>1 DEF Reusable, Replays
  <2>5. raw[p.snap].state = "whole"
    <3>1. item[i].pc = "raw" => p.snap # item[i].snap
      BY <2>2 DEF MissingInv, IsUnfinished
    <3>2. raw'[p.snap].state = raw[p.snap].state
      BY <1>0, <2>3, <3>1, WholeWasWhole
    <3>3. QED
      BY <2>4, <3>2
  <2>6. QED
    BY <2>1, <2>2, <2>5 DEF Replays
<1>2. QED
  BY <1>1 DEF Reusable

(* A run is completed by finish_run only, whose worker then reports it. *)
LEMMA CompletedIsReported ==
    ASSUME EvidenceInv, NEW i \in Item, RunnerStep(i) \/ Submit(i),
           NEW r \in Run, runs'[r] # runs[r], runs'[r].status = "completed"
    PROVE  item[i].pc \in HoldsRun /\ r = item[i].run /\ item'[i].pc = "report"
<1>0. /\ TypeOK /\ References /\ StatusMatchesEvidence /\ item \in [Item -> ItemRecord]
      /\ runs \in Seq(RunRecord) /\ runs[r] \in RunRecord /\ DOMAIN runs = Run
  BY ElementOfSeq, LenProperties DEF EvidenceInv, TypeOK, Run
<1>1. item[i].pc \in HoldsRun /\ r = item[i].run
  <2>1. OthersFrame(item[i])
    BY <1>0, WorkerFrame DEF RunsFrame
  <2>2. QED
    BY <2>1 DEF OthersFrame
<1>2. CASE FinishRun(i)
  <2>1. Goto(i, "report")
    BY <1>2 DEF FinishRun
  <2>2. QED
    BY <1>0, <1>1, <2>1 DEF Goto, ItemRecord
<1>3. CASE AppendPage(i)
  <2>1. item[i].snap \in 1..Len(raw)
    BY <1>0, <1>3 DEF AppendPage, At, HoldsSnapshot, References, RefersToStored
  <2>2. PageOf(item[i].snap) \in PageRecord
    BY <1>0, <2>1, PageOfType
  <2>3. /\ runs[r].status = "running"
        /\ runs' = [runs EXCEPT ![r] = Extended(@, PageOf(item[i].snap))]
    BY <1>1, <1>3 DEF AppendPage, Continues
  <2>4. runs'[r] = Extended(runs[r], PageOf(item[i].snap))
    BY <1>0, <2>3
  <2>5. runs'[r].status = "running"
    BY <1>0, <2>2, <2>3, <2>4, RunExtendedType
  <2>6. QED
    BY <2>5
<1>4. CASE PersistFailure(i)
  <2>1. PICK t \in Readings : LET done == CompletionTime(i, t)
               status == IF runs[r].pages = <<>> THEN "failed" ELSE "partial" IN
             runs' = IF MayFinish(runs[r], status, done)
                     THEN [runs EXCEPT ![r] = Finished(@, status, done, item[i].error)]
                     ELSE runs
    BY <1>1, <1>4 DEF PersistFailure
  <2>2. PICK status, done : /\ status \in {"failed", "partial"}
                            /\ runs' = [runs EXCEPT ![r] = Finished(@, status, done, item[i].error)]
    BY <2>1
  <2>3. runs'[r] = Finished(runs[r], status, done, item[i].error)
    BY <1>0, <2>2
  <2>4. runs'[r].status = status
    BY <1>0, <2>3 DEF Finished, RunRecord
  <2>5. QED
    BY <2>2, <2>4
<1>5. CASE CreateRun(i)
  BY <1>0, <1>5, CreatedRun
<1>6. CASE ~(FinishRun(i) \/ AppendPage(i) \/ PersistFailure(i) \/ CreateRun(i))
  BY <1>6
  DEF RunnerStep, Submit, TransportError, Respond, PersistMetadata, RawWriteFails, Interpret,
      ObservePage, ObserverFails, StoreFails, Report, ReportFails, durable
<1>7. QED
  BY <1>1, <1>2, <1>3, <1>4, <1>5, <1>6

LEMMA StillMisses ==
    ASSUME TextsDiffer, MissingInv, NEW i \in Item, RunnerStep(i) \/ Submit(i), RawKept, RunsStep,
           [Next]_vars, NEW j \in Item
    PROVE  Misses(j)'
<1>0. TypeOK /\ References /\ EvidenceInv /\ WorkerKnows(i) /\ Misses(j) /\ RunsStep
  BY DEF MissingInv, EvidenceInv, SelectionInv
<1> SUFFICES ASSUME item'[j].pc \in Seeking, NEW r \in 1..Len(runs'),
                    runs'[r].text = TextOf[j], Reusable(r)'
             PROVE  FALSE
  BY DEF Misses, Run
<1>1. item[j].pc \in Seeking
  BY <1>0, StillSeeking
<1>2. runs'[r].status = "completed"
  BY DEF Reusable
<1>3. CASE r \in Run
  <2>1. runs[r].text = TextOf[j]
    BY <1>0, <1>3, RunsAreKept DEF Run
  <2>2. ~Reusable(r)
    BY <1>0, <1>1, <1>3, <2>1 DEF Misses
  <2>3. runs'[r] # runs[r]
    BY <1>3, <2>2, ReplaysAsBefore
  <2>4. item[i].pc \in HoldsRun /\ r = item[i].run /\ item'[i].pc = "report"
    BY <1>0, <1>2, <1>3, <2>3, CompletedIsReported
  <2>5. TextOf[i] = TextOf[j]
    BY <1>0, <2>1, <2>4 DEF WorkerKnows
  <2>6. i = j
    BY <2>5 DEF TextsDiffer
  <2>7. QED
    BY <2>4, <2>6 DEF Seeking, Working
<1>4. CASE r \notin Run
  <2>1. Len(runs') > Len(runs) /\ Len(runs) \in Nat
    BY <1>0, <1>4, LenProperties, StepType DEF Run, TypeOK
  <2>2. PICK k \in Item : CreateRun(k)
    BY <1>0, <2>1, OnlyCreateAdds
  <2>3. Len(runs') = Len(runs) + 1 /\ runs'[Len(runs')] = NewRun(k, clock')
    BY <1>0, <2>2, CreatedRun
  <2>4. r = Len(runs')
    BY <1>4, <2>1, <2>3 DEF Run
  <2>5. QED
    BY <1>2, <2>3, <2>4 DEF NewRun
<1>5. QED
  BY <1>3, <1>4

LEMMA StaysUnfinished ==
    ASSUME MissingInv, NEW i \in Item, RunnerStep(i) \/ Submit(i), NEW j \in Item
    PROVE  IsUnfinished(item[j])'
<1>0. /\ TypeOK /\ References /\ Apart /\ IsUnfinished(item[j]) /\ item \in [Item -> ItemRecord]
      /\ item[j] \in ItemRecord
  BY DEF MissingInv, EvidenceInv, TypeOK
<1> SUFFICES ASSUME item'[j].pc = "raw"
             PROVE  raw'[item'[j].snap].state = "body"
  BY DEF IsUnfinished
<1>1. CASE j # i
  <2>1. item'[j] = item[j]
    BY <1>0, <1>1
    DEF RunnerStep, Submit, CreateRun, TransportError, Respond, PersistMetadata,
        RawWriteFails, Interpret, AppendPage, ObservePage, ObserverFails, FinishRun,
        StoreFails, PersistFailure, Report, ReportFails, Goto
  <2>2. item[j].snap \in 1..Len(raw) /\ raw[item[j].snap].state = "body"
    BY <1>0, <2>1 DEF References, RefersToStored, HoldsSnapshot, IsUnfinished
  <2>3. item[i].pc = "raw" => item[i].snap # item[j].snap
    BY <1>0, <1>1, <2>1 DEF Apart, Held
  <2>4. raw'[item[j].snap].state = raw[item[j].snap].state
    BY <1>0, <2>2, <2>3, WholeWasWhole
  <2>5. QED
    BY <2>1, <2>2, <2>4
<1>2. CASE j = i /\ Respond(i)
  <2>1. PICK t \in Readings, k \in Kind, more \in BOOLEAN, next \in {None, Len(raw) + 1} :
            raw' = Append(raw, NewSnapshot(k, t, item[i].token, more, next))
    BY <1>2 DEF Respond
  <2>2. t \in 1..MaxTime /\ item[i].token \in Nat /\ raw \in Seq(SnapshotRecord)
        /\ Len(raw) \in Nat
    BY <1>0, ReadingsType, LenProperties DEF TypeOK, ItemRecord
  <2>3. NewSnapshot(k, t, item[i].token, more, next) \in SnapshotRecord
    BY <2>2 DEF NewSnapshot, SnapshotRecord, None
  <2>4. raw'[Len(raw) + 1] = NewSnapshot(k, t, item[i].token, more, next)
    BY <2>1, <2>2, <2>3, AppendProperties
  <2>5. item'[j].snap = Len(raw) + 1
    BY <1>0, <1>2 DEF Respond, ItemRecord
  <2>6. QED
    BY <2>4, <2>5 DEF NewSnapshot
<1>3. CASE j = i /\ ~Respond(i)
  <2>1. ~ObservePage(i)
    <3>1. ObservePage(i) => item'[i] = AfterPage(item[i], raw[item[i].snap])
      BY <1>0 DEF ObservePage
    <3>2. QED
      BY <1>0, <1>3, <3>1 DEF AfterPage, ItemRecord
  <2>2. ~PersistFailure(i)
    <3>1. ASSUME PersistFailure(i)
          PROVE  FALSE
      <4>1. PICK x \in AfterFailure(i) : item' = [item EXCEPT ![i] = x]
        BY <3>1 DEF PersistFailure
      <4>2. item'[i] = x
        BY <1>0, <4>1
      <4>3. x.pc \in {"create", "failed"}
        BY <4>1 DEF AfterFailure, Failed, Idle
      <4>4. QED
        BY <1>3, <4>2, <4>3
    <3>2. QED
      BY <3>1
  <2>3. ~(CreateRun(i) \/ StoreFails(i) \/ Report(i) \/ ReportFails(i) \/ Submit(i))
    <3>1. ~CreateRun(i)
      BY <1>0, <1>3, CreatedRun
    <3>2. ~StoreFails(i)
      BY <1>0, <1>3 DEF StoreFails, Goto, Failed, Idle, ItemRecord
    <3>3. ~(Report(i) \/ ReportFails(i))
      BY <1>0, <1>3 DEF Report, ReportFails, Failed, Idle
    <3>4. ~Submit(i)
      BY <1>0, <1>3 DEF Submit, ItemRecord
    <3>5. QED
      BY <3>1, <3>2, <3>3, <3>4
  <2>4. ~(TransportError(i) \/ PersistMetadata(i) \/ RawWriteFails(i) \/ Interpret(i)
          \/ AppendPage(i) \/ ObserverFails(i) \/ FinishRun(i))
    BY <1>0, <1>3
    DEF TransportError, PersistMetadata, RawWriteFails, Interpret, AppendPage,
        ObserverFails, FinishRun, Goto, ItemRecord
  <2>5. QED
    BY <1>3, <2>1, <2>2, <2>3, <2>4 DEF RunnerStep
<1>4. QED
  BY <1>1, <1>2, <1>3

(* What resume does not reuse is missing. *)
LEMMA InvokedAreMissing ==
    ASSUME MissingInv, Invoke, NEW j \in Item
    PROVE  Misses(j)' /\ IsUnfinished(item[j])'
<1>0. TypeOK /\ Misses(j) /\ IsUnfinished(item[j])
  BY DEF MissingInv, EvidenceInv
<1>1. runs' = runs /\ raw' = raw
  BY DEF Invoke, durable
<1>2. \A r : Reusable(r)' <=> Reusable(r)
  BY <1>1 DEF Reusable, Replays, PageOf
<1>3. CASE item' = item
  BY <1>0, <1>1, <1>2, <1>3 DEF Misses, IsUnfinished, Run
<1>4. CASE /\ \A i \in Item : selected'[i] \in Choices(i)
           /\ item' = [i \in Item |-> IF selected'[i] = None THEN Waiting ELSE Idle]
  <2>1. item'[j] \in {Idle, Waiting} /\ (item'[j].pc \in Seeking => selected'[j] = None)
    BY <1>4 DEF Idle, Waiting, Seeking, Working
  <2>2. IsUnfinished(item[j])'
    BY <2>1 DEF IsUnfinished, Idle, Waiting
  <2>3. ASSUME selected'[j] = None, NEW r \in Run, runs[r].text = TextOf[j], Reusable(r)
        PROVE  FALSE
    <3>1. r \in Candidates(j)
      BY <2>3 DEF Candidates, Run
    <3>2. None \in Choices(j)
      BY <1>4, <2>3
    <3>3. None \in BestCandidates(j)
      BY <3>1, <3>2 DEF Choices
    <3>4. None \in 1..Len(runs)
      BY <3>3 DEF BestCandidates, Candidates
    <3>5. QED
      BY <1>0, <3>4, LenProperties DEF None, TypeOK
  <2>4. Misses(j)'
    BY <1>1, <1>2, <2>1, <2>3 DEF Misses, Run
  <2>5. QED
    BY <2>2, <2>4
<1>5. QED
  BY <1>3, <1>4 DEF Invoke

LEMMA MissingStep ==
    ASSUME TextsDiffer, MissingInv, EvidenceInv', [Next]_vars
    PROVE  MissingInv'
<1>0. /\ TypeOK /\ References /\ SelectionInv
      /\ \A j \in Item : Misses(j) /\ IsUnfinished(item[j])
  BY DEF MissingInv, EvidenceInv
<1>1. SelectionInv' /\ RunsStep /\ RawKept
  BY <1>0, SelectionStep, StepType, RawStep
<1>2. ASSUME NEW i \in Item, RunnerStep(i) \/ Submit(i), NEW j \in Item
      PROVE  Misses(j)' /\ IsUnfinished(item[j])'
  BY <1>1, <1>2, StillMisses, StaysUnfinished
<1>3. ASSUME item' \in [Item -> {Idle, Waiting}], \A i \in Item : item'[i].pc # "waiting",
             NEW j \in Item
      PROVE  Misses(j)' /\ IsUnfinished(item[j])'
  <2>1. item'[j].pc = "idle"
    BY <1>3 DEF Idle, Waiting
  <2>2. QED
    BY <2>1 DEF Misses, IsUnfinished, Seeking, Working
<1>4. ASSUME item' = item, runs' = runs, raw' = raw, NEW j \in Item
      PROVE  Misses(j)' /\ IsUnfinished(item[j])'
  <2>1. \A r : Reusable(r)' <=> Reusable(r)
    BY <1>4 DEF Reusable, Replays, PageOf
  <2>2. QED
    BY <1>0, <1>4, <2>1 DEF Misses, IsUnfinished, Run
<1>5. ASSUME NEW p, Leave(p)
      PROVE  item' \in [Item -> {Idle, Waiting}] /\ \A i \in Item : item'[i].pc # "waiting"
  BY <1>5 DEF Leave, Idle
<1>6. CASE JoinWorkers \/ FinishBuild \/ Kill \/ UNCHANGED vars
  <2>1. (\E p : Leave(p)) \/ (item' = item /\ runs' = runs /\ raw' = raw)
    BY <1>6 DEF JoinWorkers, FinishBuild, Kill, vars, local, durable
  <2>2. QED
    BY <1>1, <1>3, <1>4, <1>5, <2>1 DEF MissingInv
<1>7. ASSUME NEW f \in Families, BuildComparable(f)
      PROVE  MissingInv'
  <2>1. (\E p : Leave(p)) \/ (item' = item /\ runs' = runs /\ raw' = raw)
    BY <1>7 DEF BuildComparable, local
  <2>2. QED
    BY <1>1, <1>3, <1>4, <1>5, <2>1 DEF MissingInv
<1>8. CASE Invoke
  BY <1>1, <1>8, InvokedAreMissing DEF MissingInv
<1>9. QED
  BY <1>1, <1>2, <1>6, <1>7, <1>8 DEF MissingInv, Next, CoordinatorStep, Stopped

LEMMA MissingInit == Init => MissingInv
<1> SUFFICES ASSUME Init
             PROVE  MissingInv
  OBVIOUS
<1>1. \A j \in Item : Misses(j) /\ IsUnfinished(item[j])
  BY DEF Init, Misses, IsUnfinished, Idle, Seeking, Working
<1>2. QED
  BY <1>1, EvidenceInit, SelectionInit DEF MissingInv

(* select_reusable_run, _search_query: through any failures, kills, damage *)
(* and resumes, and with any number of workers, no query is collected once *)
(* more while a stored run of it can be reused.                            *)
THEOREM OnlyMissingAreCollected ==
    ASSUME TextsDiffer
    PROVE  Spec => OnlyMissingQueriesAreCollected
<1>1. ASSUME MissingInv, [Next]_vars, Len(runs') > Len(runs), NEW r \in Run, Reusable(r)
      PROVE  runs[r].text # runs'[Len(runs')].text
  <2>1. TypeOK /\ References
    BY <1>1 DEF MissingInv, EvidenceInv
  <2>2. PICK i \in Item : CreateRun(i)
    BY <1>1, <2>1, OnlyCreateAdds
  <2>3. item[i].pc \in Seeking
    BY <2>2 DEF CreateRun, At, Seeking, Working
  <2>4. runs'[Len(runs')].text = TextOf[i]
    <3>1. runs'[Len(runs')] = NewRun(i, clock')
      BY <2>1, <2>2, CreatedRun
    <3>2. QED
      BY <3>1 DEF NewRun
  <2>5. QED
    BY <1>1, <2>3, <2>4 DEF MissingInv, Misses
<1>2. MissingInv /\ [Next]_vars =>
        (Len(runs') > Len(runs) =>
            \A r \in Run : Reusable(r) => runs[r].text # runs'[Len(runs')].text)
  BY <1>1
<1>3. MissingInv /\ StatusMatchesEvidence' /\ [Next]_vars => MissingInv'
  BY MissingStep, EvidenceStep DEF MissingInv
<1>4. RunsAreSound => StatusMatchesEvidence
  BY DEF RunsAreSound
<1>5. QED
  BY <1>2, <1>3, <1>4, MissingInit, StoredRunsAreSound, PTL DEF Spec, OnlyMissingQueriesAreCollected

-----------------------------------------------------------------------------
(***************************************************************************)
(* That what an invocation selects or has bound rests on responses that    *)
(* are still there: a power failure ends the invocation, and the next one  *)
(* reads every response of a run before it goes on with it.                *)
(***************************************************************************)

(* A worker has the response it reads and those its run cites. *)
HasEvidence(w) ==
    /\ w.pc \in HoldsRun => EvidenceIsThere(w.run)
    /\ w.pc \in {"interpret", "append", "observe"} => raw[w.snap].state = "whole"

ChoicesAreThere ==
    phase \in {"search", "build"} =>
        \A i \in Item : \A r \in {selected[i], bound[i]} \ {None} : EvidenceIsThere(r)

ThereInv ==
    /\ EvidenceInv
    /\ SelectionInv
    /\ \A i \in Item : HasEvidence(item[i])
    /\ ChoicesAreThere

(* No worker takes a response away. *)
LEMMA WholeStaysWhole ==
    ASSUME TypeOK, References, NEW i \in Item, RunnerStep(i) \/ Submit(i),
           NEW s \in 1..Len(raw), raw[s].state = "whole"
    PROVE  raw'[s].state = "whole"
<1>1. SUFFICES ASSUME raw'[s].state # raw[s].state
               PROVE  raw'[s].state = "whole"
  OBVIOUS
<1>2. item[i].pc = "raw" /\ s = item[i].snap
  BY <1>1, WholeWasWhole
<1>3. PersistMetadata(i)
  BY <1>1, <1>2
  DEF RunnerStep, Submit, CreateRun, TransportError, Respond, RawWriteFails, Interpret,
      AppendPage, ObservePage, ObserverFails, FinishRun, StoreFails, PersistFailure, Report,
      ReportFails, At, durable
<1>4. raw[s] \in SnapshotRecord /\ raw \in Seq(SnapshotRecord)
  BY ElementOfSeq DEF TypeOK
<1>5. raw'[s] = [raw[s] EXCEPT !.state = "whole"]
  BY <1>2, <1>3, <1>4, LenProperties DEF PersistMetadata
<1>6. QED
  BY <1>4, <1>5 DEF SnapshotRecord

(* The page a worker appends is of a response it has. *)
LEMMA EvidenceStays ==
    ASSUME EvidenceInv, NEW i \in Item, RunnerStep(i) \/ Submit(i),
           HasEvidence(item[i]), NEW r \in Run, EvidenceIsThere(r)
    PROVE  EvidenceIsThere(r)'
<1>0. /\ TypeOK /\ References /\ TypeOK' /\ RunsStep /\ PagesFrame(item[i])
      /\ item[i].pc = "append" => item[i].snap \in 1..Len(raw)
  BY StepType, WorkerFrame
  DEF EvidenceInv, RunsFrame, References, RefersToStored, HoldsSnapshot, Next, CoordinatorStep
<1>1. r \in 1..Len(runs')
  BY <1>0, RunsAreKept DEF Run
<1>2. ASSUME NEW k \in 1..Len(runs'[r].pages)
      PROVE  raw'[runs'[r].pages[k].snap].state = "whole"
  <2>1. PICK s : s = runs'[r].pages[k].snap
    OBVIOUS
  <2>2. CASE k \in 1..Len(runs[r].pages) /\ runs'[r].pages[k] = runs[r].pages[k]
    <3>1. raw[s].state = "whole"
      BY <2>1, <2>2 DEF EvidenceIsThere
    <3>2. s \in 1..Len(raw)
      BY <1>0, <2>1, <2>2 DEF EvidenceInv, PagesRestOnRawEvidence, TypeOK
    <3>3. QED
      BY <1>0, <2>1, <3>1, <3>2, WholeStaysWhole
  <2>3. CASE item[i].pc = "append" /\ runs'[r].pages[k] = PageOf(item[i].snap)
    <3>1. s = item[i].snap /\ s \in 1..Len(raw)
      BY <1>0, <2>1, <2>3, PageCites
    <3>2. raw[s].state = "whole"
      BY <2>3, <3>1 DEF HasEvidence
    <3>3. QED
      BY <1>0, <2>1, <3>1, <3>2, WholeStaysWhole
  <2>4. QED
    BY <1>0, <1>1, <2>2, <2>3 DEF PagesFrame
<1>3. QED
  BY <1>2 DEF EvidenceIsThere

(* A worker reads the response that it completed itself. *)
LEMMA WorkerReadsWhole ==
    ASSUME EvidenceInv, NEW i \in Item, RunnerStep(i) \/ Submit(i), HasEvidence(item[i]),
           item'[i].pc \in {"interpret", "append", "observe"}
    PROVE  raw'[item'[i].snap].state = "whole"
<1>0. /\ TypeOK /\ References /\ item \in [Item -> ItemRecord] /\ item[i] \in ItemRecord
      /\ raw \in Seq(SnapshotRecord)
  BY DEF EvidenceInv, TypeOK
<1>1. CASE PersistMetadata(i)
  <2>1. PICK s : s = item[i].snap
    OBVIOUS
  <2>2. s \in 1..Len(raw)
    BY <1>0, <1>1, <2>1 DEF PersistMetadata, At, References, RefersToStored, HoldsSnapshot
  <2>3. raw[s] \in SnapshotRecord
    BY <1>0, <2>2, ElementOfSeq
  <2>4. raw'[s] = [raw[s] EXCEPT !.state = "whole"]
    BY <1>0, <1>1, <2>1, <2>2, LenProperties DEF PersistMetadata
  <2>5. item'[i].snap = s
    BY <1>0, <1>1, <2>1 DEF PersistMetadata, ItemRecord
  <2>6. QED
    BY <2>3, <2>4, <2>5 DEF SnapshotRecord
<1>2. CASE Interpret(i) \/ AppendPage(i)
  <2>1. /\ item[i].pc \in {"interpret", "append"} /\ UNCHANGED raw
        /\ \E pc \in {"append", "fail", "observe"} : Goto(i, pc)
    BY <1>2 DEF Interpret, AppendPage, At
  <2>2. item'[i].snap = item[i].snap
    BY <1>0, <2>1 DEF Goto, ItemRecord
  <2>3. QED
    BY <2>1, <2>2 DEF HasEvidence
<1>3. CASE TransportError(i) \/ Respond(i) \/ RawWriteFails(i) \/ ObserverFails(i) \/ FinishRun(i)
  <2>1. CASE TransportError(i) \/ Respond(i)
    BY <1>0, <2>1 DEF TransportError, Respond, ItemRecord
  <2>2. CASE \E pc \in {"fail", "report"} : Goto(i, pc)
    BY <1>0, <2>2 DEF Goto, ItemRecord
  <2>3. QED
    BY <1>3, <2>1, <2>2 DEF RawWriteFails, ObserverFails, FinishRun
<1>4. CASE ObservePage(i)
  <2>1. item'[i] = AfterPage(item[i], raw[item[i].snap])
    BY <1>0, <1>4 DEF ObservePage
  <2>2. QED
    BY <1>0, <2>1 DEF AfterPage, ItemRecord
<1>5. CASE CreateRun(i)
  BY <1>0, <1>5, CreatedRun
<1>6. CASE Submit(i)
  BY <1>0, <1>6 DEF Submit, ItemRecord
<1>7. CASE StoreFails(i)
  <2>1. item'[i] = Failed \/ Goto(i, "fail")
    BY <1>0, <1>7 DEF StoreFails
  <2>2. QED
    BY <1>0, <2>1 DEF Goto, Failed, Idle, ItemRecord
<1>8. CASE PersistFailure(i)
  <2>1. PICK x \in AfterFailure(i) : item' = [item EXCEPT ![i] = x]
    BY <1>8 DEF PersistFailure
  <2>2. x.pc \in {"create", "failed"}
    BY <2>1 DEF AfterFailure, Failed, Idle
  <2>3. QED
    BY <1>0, <2>1, <2>2
<1>9. CASE Report(i) \/ ReportFails(i)
  BY <1>0, <1>9 DEF Report, ReportFails, Failed, Idle
<1>10. QED
  BY <1>1, <1>2, <1>3, <1>4, <1>5, <1>6, <1>7, <1>8, <1>9 DEF RunnerStep

(* So every worker keeps what it needs. *)
LEMMA WorkersHaveEvidence ==
    ASSUME ThereInv, NEW i \in Item, RunnerStep(i) \/ Submit(i), NEW j \in Item
    PROVE  HasEvidence(item[j])'
<1>0. /\ EvidenceInv /\ TypeOK /\ References /\ item \in [Item -> ItemRecord]
      /\ HasEvidence(item[i]) /\ HasEvidence(item[j])
      /\ item[j].pc \in HoldsRun => item[j].run \in Run
      /\ item[j].pc \in HoldsSnapshot => item[j].snap \in 1..Len(raw)
  BY DEF ThereInv, EvidenceInv, TypeOK, References, RefersToStored, Run
<1>1. ASSUME NEW r, r = item'[j].run, item'[j].pc \in HoldsRun
      PROVE  EvidenceIsThere(r)'
  <2>1. ItemChange(j)
    BY <1>0, ItemChanges
  <2>2. CASE item[j].pc \in HoldsRun /\ item'[j].run = item[j].run
    <3>1. r \in Run /\ EvidenceIsThere(r)
      BY <1>0, <1>1, <2>2 DEF HasEvidence
    <3>2. QED
      BY <1>0, <3>1, EvidenceStays
  <2>3. CASE CreateRun(j)
    <3>1. runs'[r] = NewRun(j, clock')
      BY <1>0, <1>1, <2>3, CreatedRun
    <3>2. Len(runs'[r].pages) = 0
      BY <3>1 DEF NewRun
    <3>3. QED
      BY <3>2 DEF EvidenceIsThere
  <2>4. QED
    BY <1>1, <2>1, <2>2, <2>3 DEF ItemChange, HoldsRun, Working
<1>2. ASSUME item'[j].pc \in {"interpret", "append", "observe"}
      PROVE  raw'[item'[j].snap].state = "whole"
  <2>1. CASE j = i
    BY <1>0, <1>2, <2>1, WorkerReadsWhole
  <2>2. CASE j # i
    <3>1. item'[j] = item[j]
      BY <1>0, <2>2
      DEF RunnerStep, Submit, CreateRun, TransportError, Respond, PersistMetadata,
          RawWriteFails, Interpret, AppendPage, ObservePage, ObserverFails, FinishRun,
          StoreFails, PersistFailure, Report, ReportFails, Goto
    <3>2. item[j].snap \in 1..Len(raw) /\ raw[item[j].snap].state = "whole"
      BY <1>0, <1>2, <3>1 DEF HasEvidence, HoldsSnapshot
    <3>3. QED
      BY <1>0, <3>1, <3>2, WholeStaysWhole
  <2>3. QED
    BY <2>1, <2>2
<1>3. ASSUME NEW x, x = item'[j]
      PROVE  HasEvidence(x)'
  BY <1>1, <1>2, <1>3 DEF HasEvidence
<1>4. QED
  BY <1>3 DEF HasEvidence, EvidenceIsThere

(* What resume chooses it has read. *)
LEMMA ChoicesReplay ==
    ASSUME BoundRunsReplay, NEW i \in Item, NEW r \in Choices(i) \cup {bound[i]}, r # None
    PROVE  EvidenceIsThere(r)
<1>1. Reusable(r)
  <2>1. CASE r = bound[i]
    BY <2>1 DEF BoundRunsReplay, Anchored
  <2>2. CASE r \in Choices(i) /\ bound[i] = None
    BY <2>2 DEF Choices, BestCandidates, Candidates
  <2>3. QED
    BY <2>1, <2>2 DEF Choices
<1>2. QED
  BY <1>1 DEF Reusable, Replays, EvidenceIsThere

(* Each step keeps it: evidence is lost only when the invocation ends.     *)
LEMMA ThereStep ==
    ASSUME ThereInv, EvidenceInv', [Next]_vars
    PROVE  ThereInv'
<1>0. /\ EvidenceInv /\ SelectionInv /\ TypeOK /\ References /\ ChoicesAreThere
      /\ \A i \in Item : HasEvidence(item[i])
  BY DEF ThereInv, EvidenceInv
<1>1. SelectionInv'
  BY <1>0, SelectionStep
<1>2. ASSUME NEW i \in Item, RunnerStep(i) \/ Submit(i)
      PROVE  ThereInv'
  <2>1. \A j \in Item : HasEvidence(item[j])'
    BY <1>2, WorkersHaveEvidence
  <2>2. ASSUME phase' \in {"search", "build"}, NEW j \in Item,
               NEW r \in {selected'[j], bound'[j]} \ {None}
        PROVE  EvidenceIsThere(r)'
    <3>1. /\ UNCHANGED <<bound, phase>>
          /\ selected'[j] = selected[j] \/ Report(j)
      BY <1>0, <1>2, ItemChanges
    <3>2. r \in Run /\ EvidenceIsThere(r)
      <4>1. CASE r \in {selected[j], bound[j]}
        BY <1>0, <2>2, <3>1, <4>1 DEF ChoicesAreThere, TypeOK, None, Run
      <4>2. CASE Report(j) /\ r = selected'[j]
        <5>1. r = item[j].run /\ item[j].pc \in HoldsRun
          BY <1>0, <4>2 DEF Report, At, HoldsRun, Working, TypeOK
        <5>2. QED
          BY <1>0, <5>1 DEF HasEvidence, References, RefersToStored, Run
      <4>3. QED
        BY <2>2, <3>1, <4>1, <4>2
    <3>3. QED
      BY <1>0, <1>2, <3>2, EvidenceStays
  <2>3. ChoicesAreThere'
    BY <2>2 DEF ChoicesAreThere, EvidenceIsThere
  <2>4. QED
    BY <1>1, <2>1, <2>3 DEF ThereInv
<1>3. ASSUME item' \in [Item -> {Idle, Waiting}]
      PROVE  \A j \in Item : HasEvidence(item[j])'
  BY <1>3 DEF HasEvidence, Idle, Waiting, HoldsRun, Working
<1>4. ASSUME NEW p \in {"failed", "done", "killed"}, Leave(p)
      PROVE  ThereInv'
  <2>1. ChoicesAreThere'
    BY <1>4 DEF Leave, ChoicesAreThere
  <2>2. item' \in [Item -> {Idle, Waiting}]
    BY <1>4 DEF Leave
  <2>3. QED
    BY <1>1, <1>3, <2>1, <2>2 DEF ThereInv
<1>5. ASSUME UNCHANGED <<runs, raw, item, selected>>,
             \A j \in Item : bound'[j] \in {bound[j], selected[j]},
             phase' \in {"search", "build"} => phase \in {"search", "build"}
      PROVE  ThereInv'
  <2>1. \A j \in Item : HasEvidence(item[j])'
    BY <1>0, <1>5 DEF HasEvidence, EvidenceIsThere
  <2>2. ASSUME phase' \in {"search", "build"}, NEW j \in Item,
               NEW r \in {selected'[j], bound'[j]} \ {None}
        PROVE  EvidenceIsThere(r)'
    <3>1. r \in {selected[j], bound[j]}
      BY <1>5, <2>2
    <3>2. EvidenceIsThere(r)
      BY <1>0, <1>5, <2>2, <3>1 DEF ChoicesAreThere
    <3>3. QED
      BY <1>5, <3>2 DEF EvidenceIsThere
  <2>3. ChoicesAreThere'
    BY <2>2 DEF ChoicesAreThere, EvidenceIsThere
  <2>4. QED
    BY <1>1, <2>1, <2>3 DEF ThereInv
<1>6. CASE Invoke
  <2>1. UNCHANGED <<runs, raw, bound>>
    BY <1>6 DEF Invoke, durable
  <2>2. CASE phase' = "failed" /\ UNCHANGED <<item, selected>>
    BY <1>5, <2>1, <2>2
  <2>3. CASE /\ BoundRunsReplay
             /\ \A i \in Item : selected'[i] \in Choices(i)
             /\ item' = [i \in Item |-> IF selected'[i] = None THEN Waiting ELSE Idle]
    <3>1. ASSUME NEW j \in Item, NEW r \in {selected'[j], bound'[j]} \ {None}
          PROVE  EvidenceIsThere(r)'
      <4>1. EvidenceIsThere(r)
        BY <2>1, <2>3, <3>1, ChoicesReplay
      <4>2. QED
        BY <2>1, <4>1 DEF EvidenceIsThere
    <3>2. ChoicesAreThere'
      BY <3>1 DEF ChoicesAreThere, EvidenceIsThere
    <3>3. QED
      BY <1>1, <1>3, <2>3, <3>2 DEF ThereInv
  <2>4. QED
    BY <1>6, <2>2, <2>3 DEF Invoke
<1>7. CASE JoinWorkers
  <2>1. CASE Leave("failed")
    BY <1>4, <2>1
  <2>2. CASE UNCHANGED <<item, selected>>
    BY <1>5, <1>7, <2>2 DEF JoinWorkers, durable
  <2>3. QED
    BY <1>7, <2>1, <2>2 DEF JoinWorkers
<1>8. ASSUME NEW f \in Families, BuildComparable(f)
      PROVE  ThereInv'
  <2>1. CASE Leave("failed")
    BY <1>4, <2>1
  <2>2. CASE /\ UNCHANGED local
             /\ bound' = [i \in Item |-> IF i \in Members(f) THEN selected[i] ELSE bound[i]]
    <3>1. \A j \in Item : bound'[j] \in {bound[j], selected[j]}
      BY <2>2
    <3>2. UNCHANGED <<runs, raw>>
      BY <1>8 DEF BuildComparable
    <3>3. QED
      BY <1>5, <2>2, <3>1, <3>2 DEF local
  <2>3. QED
    BY <1>8, <2>1, <2>2 DEF BuildComparable
<1>9. CASE FinishBuild \/ Kill
  BY <1>4, <1>9 DEF FinishBuild, Kill
<1>10. CASE UNCHANGED vars
  BY <1>5, <1>10 DEF vars, durable, local
<1>11. QED
  BY <1>2, <1>6, <1>7, <1>8, <1>9, <1>10 DEF Next, CoordinatorStep, Stopped

(* Section 12.4 and 13 of the experiment spec, for every value of the      *)
(* constants: what is selected for a comparable, or bound into one, is a   *)
(* completed run of that very query, families are bound as a whole, and    *)
(* while an invocation works every response these runs rest on is there,   *)
(* whatever a power failure took before.                                   *)
THEOREM SelectionIsSound == Spec => []OnlyCompletedRunsAreSelected
<1>1. Init => ThereInv
  <2>1. ASSUME Init
        PROVE  ThereInv
    <3>1. EvidenceInv /\ SelectionInv
      BY <2>1, EvidenceInit, SelectionInit
    <3>2. ChoicesAreThere /\ \A i \in Item : HasEvidence(item[i])
      BY <2>1 DEF Init, ChoicesAreThere, HasEvidence, Idle, HoldsRun, Working
    <3>3. QED
      BY <3>1, <3>2 DEF ThereInv
  <2>2. QED
    BY <2>1
<1>2. ThereInv /\ StatusMatchesEvidence' /\ [Next]_vars => ThereInv'
  BY ThereStep, EvidenceStep DEF ThereInv
<1>3. ThereInv => OnlyCompletedRunsAreSelected
  BY DEF ThereInv, ChoicesAreThere, SelectionInv, EveryChoiceIsCompleted, CompletedFor,
         EndedItemsAreSelected, FamiliesAreBoundWhole, OnlyCompletedRunsAreSelected
<1>4. RunsAreSound => StatusMatchesEvidence
  BY DEF RunsAreSound
<1>5. QED
  BY <1>1, <1>2, <1>3, <1>4, StoredRunsAreSound, PTL DEF Spec
=============================================================================
