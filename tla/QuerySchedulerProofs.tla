------------------------ MODULE QuerySchedulerProofs ------------------------
(***************************************************************************)
(* Proofs about QueryScheduler, for every number of queries and of         *)
(* workers: the delivery of futures, the first failure, and that the       *)
(* scheduler implements QueryBatch.                                        *)
(***************************************************************************)
EXTENDS QueryScheduler, FiniteSetTheorems, TLAPS

-----------------------------------------------------------------------------
(* The FIFO as a set.                                                      *)

Elements(s) == {s[k] : k \in 1..Len(s)}
NoRepeats(s) == \A k, l \in 1..Len(s) : s[k] = s[l] => k = l

(* Putting a new element adds it. *)
LEMMA AppendElements ==
    ASSUME NEW S, NEW s \in Seq(S), NEW e \in S
    PROVE  /\ Append(s, e) \in Seq(S)
           /\ Elements(Append(s, e)) = Elements(s) \cup {e}
           /\ NoRepeats(s) /\ e \notin Elements(s) => NoRepeats(Append(s, e))
<1> DEFINE t == Append(s, e)
<1>1. /\ Append(s, e) \in Seq(S)
      /\ Len(t) = Len(s) + 1 /\ Len(s) \in Nat
      /\ \A k \in 1..Len(s) : t[k] = s[k]
      /\ t[Len(s) + 1] = e
    OBVIOUS
<1>2. Elements(t) = Elements(s) \cup {e}
    <2>1. ASSUME NEW x \in Elements(t) PROVE x \in Elements(s) \cup {e}
        <3>1. PICK k \in 1..(Len(s) + 1) : x = t[k]
            BY <1>1, <2>1 DEF Elements
        <3>2. k \in 1..Len(s) \/ k = Len(s) + 1
            BY <1>1
        <3> QED
            BY <1>1, <3>1, <3>2 DEF Elements
    <2>2. ASSUME NEW k \in 1..Len(s) PROVE s[k] \in Elements(t)
        <3>1. k \in 1..Len(t) /\ t[k] = s[k]
            BY <1>1
        <3> QED
            BY <3>1 DEF Elements
    <2>3. e \in Elements(t)
        <3>1. Len(s) + 1 \in 1..Len(t)
            BY <1>1
        <3> QED
            BY <1>1, <3>1 DEF Elements
    <2> QED
        BY <2>1, <2>2, <2>3 DEF Elements
<1>3. ASSUME NoRepeats(s), e \notin Elements(s) PROVE NoRepeats(t)
    <2> SUFFICES ASSUME NEW k \in 1..Len(t), NEW l \in 1..Len(t), t[k] = t[l]
                 PROVE  k = l
        BY DEF NoRepeats
    <2>1. \A m \in 1..Len(s) : t[m] # e
        BY <1>1, <1>3 DEF Elements
    <2>2. /\ k \in 1..Len(s) \/ k = Len(s) + 1
          /\ l \in 1..Len(s) \/ l = Len(s) + 1
        BY <1>1
    <2> QED
        BY <1>1, <1>3, <2>1, <2>2 DEF NoRepeats
<1> QED
    BY <1>1, <1>2, <1>3

(* Taking the first element removes it. *)
LEMMA TailElements ==
    ASSUME NEW S, NEW s \in Seq(S), s # << >>, NoRepeats(s)
    PROVE  /\ Head(s) \in S
           /\ Head(s) \in Elements(s)
           /\ Tail(s) \in Seq(S)
           /\ Elements(Tail(s)) = Elements(s) \ {Head(s)}
           /\ NoRepeats(Tail(s))
<1> DEFINE t == Tail(s)
<1>1. /\ Head(s) = s[1] /\ Len(s) \in Nat /\ Len(s) >= 1
      /\ s[1] \in S
      /\ t \in Seq(S)
      /\ Len(t) = Len(s) - 1
      /\ \A k \in 1..Len(t) : t[k] = s[k + 1]
    OBVIOUS
<1>2. 1 \in 1..Len(s)
    BY <1>1
<1>3. \A k \in 1..Len(t) : k + 1 \in 1..Len(s)
    BY <1>1
<1>4. \A k \in 1..Len(s) : k = 1 \/ (k - 1 \in 1..Len(t) /\ t[k - 1] = s[k])
    BY <1>1
<1>5. \A k \in 1..Len(t) : t[k] \in Elements(s) /\ t[k] # s[1]
    <2> SUFFICES ASSUME NEW k \in 1..Len(t) PROVE t[k] \in Elements(s) /\ t[k] # s[1]
        OBVIOUS
    <2>1. k + 1 \in 1..Len(s) /\ t[k] = s[k + 1] /\ k + 1 # 1
        BY <1>1, <1>3
    <2> QED
        BY <1>2, <2>1 DEF Elements, NoRepeats
<1>6. \A k \in 1..Len(s) : s[k] # s[1] => s[k] \in Elements(t)
    BY <1>4 DEF Elements
<1>7. Elements(t) = Elements(s) \ {s[1]}
    BY <1>5, <1>6 DEF Elements
<1>8. NoRepeats(t)
    <2> SUFFICES ASSUME NEW k \in 1..Len(t), NEW l \in 1..Len(t), t[k] = t[l]
                 PROVE  k = l
        BY DEF NoRepeats
    <2>1. k + 1 \in 1..Len(s) /\ l + 1 \in 1..Len(s) /\ s[k + 1] = s[l + 1]
        BY <1>1, <1>3
    <2>2. k + 1 = l + 1
        BY <2>1 DEF NoRepeats
    <2> QED
        BY <2>2
<1>9. s[1] \in Elements(s)
    BY <1>2 DEF Elements
<1> QED
    BY <1>1, <1>7, <1>8, <1>9

-----------------------------------------------------------------------------
(* The inductive invariant.                                                *)

AtRegister == pc \in {"register_wave", "register"}
InWave == pc \in {"wave", "register_wave"}

(* Which future has its callback, and what holds where the main thread is:  *)
(* above all, it waits for more only while something is active.            *)
PlacesInv ==
    /\ registered = {i \in Query : i < next /\ (AtRegister => i # next - 1)}
    /\ AtRegister => next - 1 \in active
    /\ InWave => next <= Workers + 1 /\ active = 1..(next - 1)
    /\ pc = "submit" => next <= N /\ Cardinality(active) < Workers
    /\ InWave \/ pc \in {"submit", "register"} => firstError = None
    /\ pc = "wait" /\ firstError = None /\ next <= N => active # {}

(* The iterator separates the pending queries from the others, and what is *)
(* not finished is waited for.                                             *)
StatusInv ==
    /\ \A i \in Query : status[i] = "pending" <=> i >= next
    /\ \A i \in Query : status[i] \in {"queued", "running"} => i \in active
    /\ \A i \in active : i < next

DeliveryInv ==
    /\ NoRepeats(completed)
    /\ Elements(completed) = {i \in active \cap registered : status[i] \in Done}
    /\ results = {i \in Query \ active : status[i] = "ok"}
    /\ Cardinality(active) <= Workers

(* A failure that was taken is remembered.                                 *)
FailureInv ==
    /\ firstError = None => \A i \in Query \ active : status[i] # "failed"
    /\ firstError # None => status[firstError] = "failed"

Inv == TypeOK /\ PlacesInv /\ StatusInv /\ DeliveryInv /\ FailureInv

LEMMA Waited ==
    ASSUME TypeOK
    PROVE  IsFiniteSet(active) /\ Cardinality(active) \in Nat
<1>1. IsFiniteSet(1..N)
    BY FS_Interval, SchedulerAssumption
<1>2. active \subseteq 1..N
    BY DEF TypeOK, Query
<1> QED
    BY <1>1, <1>2, FS_Subset, FS_CardinalityType

LEMMA InitInv == Init => Inv
<1> SUFFICES ASSUME Init PROVE Inv
    OBVIOUS
<1> USE SchedulerAssumption
<1>1. TypeOK
    BY DEF Init, TypeOK, Query, None
<1>2. PlacesInv
    BY DEF Init, PlacesInv, AtRegister, InWave, Query, None
<1>3. StatusInv
    BY DEF Init, StatusInv, Query
<1>4. DeliveryInv
    <2>1. NoRepeats(completed) /\ Elements(completed) = {}
        BY DEF Init, NoRepeats, Elements
    <2>2. Cardinality(active) = 0
        BY FS_EmptySet DEF Init
    <2> QED
        BY <2>1, <2>2 DEF Init, DeliveryInv, Query
<1>5. FailureInv
    BY DEF Init, FailureInv, Query, None
<1> QED
    BY <1>1, <1>2, <1>3, <1>4, <1>5 DEF Inv

-----------------------------------------------------------------------------
(* Every action preserves it.                                              *)

LEMMA SubmitNextInv ==
    ASSUME Inv, NEW after \in {"register_wave", "register"}, SubmitNext(after),
           UNCHANGED <<registered, completed, results, firstError>>,
           next <= N, firstError = None, Cardinality(active) < Workers,
           registered = {i \in Query : i < next},
           after = "register_wave" => next <= Workers /\ active = 1..(next - 1)
    PROVE  Inv'
<1> USE SchedulerAssumption
<1>1. next \in Query /\ next' = next + 1
    BY DEF Inv, TypeOK, SubmitNext, Query
<1>2. TypeOK'
    BY <1>1 DEF Inv, TypeOK, SubmitNext, Query, None
<1>3. next \notin active /\ next \notin registered
    BY <1>1 DEF Inv, TypeOK, StatusInv, Query
<1>4. PlacesInv'
    <2>1. registered' = {i \in Query : i < next' /\ (AtRegister' => i # next' - 1)}
        BY <1>1 DEF SubmitNext, AtRegister, Query
    <2>2. next' - 1 \in active'
        BY <1>1 DEF SubmitNext, Query
    <2>3. InWave' => next' <= Workers + 1 /\ active' = 1..(next' - 1)
        BY <1>1 DEF SubmitNext, InWave, Query
    <2> QED
        BY <2>1, <2>2, <2>3 DEF PlacesInv, SubmitNext, InWave
<1>5. StatusInv'
    BY <1>1 DEF Inv, TypeOK, StatusInv, SubmitNext, Query, Done
<1>6. DeliveryInv'
    <2>1. \A i \in Query : i # next => status'[i] = status[i] /\ (i \in active' <=> i \in active)
        BY <1>1 DEF Inv, TypeOK, SubmitNext
    <2>2. status'[next] = "queued" /\ status[next] = "pending" /\ next \in active'
        BY <1>1 DEF Inv, TypeOK, StatusInv, SubmitNext, Query
    <2>3. {i \in active' \cap registered' : status'[i] \in Done}
            = {i \in active \cap registered : status[i] \in Done}
        BY <1>3, <2>1 DEF Inv, TypeOK
    <2>4. {i \in Query \ active' : status'[i] = "ok"} = {i \in Query \ active : status[i] = "ok"}
        BY <2>1, <2>2
    <2>5. Cardinality(active') <= Workers
        <3>1. active' = active \cup {next}
            BY DEF SubmitNext
        <3>2. IsFiniteSet(active) /\ Cardinality(active) \in Nat
            BY Waited DEF Inv
        <3>3. Cardinality(active') = Cardinality(active) + 1
            BY <1>3, <3>1, <3>2, FS_AddElement
        <3> QED
            BY <3>2, <3>3
    <2> QED
        BY <2>3, <2>4, <2>5 DEF Inv, DeliveryInv
<1>7. FailureInv'
    <2>1. \A i \in Query \ active' : i \in Query \ active /\ status'[i] = status[i]
        BY <1>1 DEF Inv, TypeOK, SubmitNext
    <2> QED
        BY <2>1 DEF Inv, FailureInv
<1> QED
    BY <1>2, <1>4, <1>5, <1>6, <1>7 DEF Inv

LEMMA SubmitWaveInv == ASSUME Inv, SubmitWave PROVE Inv'
<1> USE SchedulerAssumption
<1>1. CASE next <= SmallerOf(Workers, N)
    <2>1. next <= Workers /\ next <= N /\ next \in Nat /\ next >= 1
        BY <1>1 DEF SmallerOf, Inv, TypeOK
    <2>2. SubmitNext("register_wave") /\ UNCHANGED <<registered, completed, results, firstError>>
        BY <1>1 DEF SubmitWave
    <2>3. active = 1..(next - 1) /\ firstError = None
          /\ registered = {i \in Query : i < next}
        BY DEF SubmitWave, Inv, PlacesInv, InWave, AtRegister
    <2>4. Cardinality(active) = next - 1
        <3>1. 1 \in Int /\ next - 1 \in Int /\ (1 > next - 1 => next - 1 = 0)
            BY <2>1
        <3> QED
            BY <2>1, <2>3, <3>1, FS_Interval
    <2> QED
        BY <2>1, <2>2, <2>3, <2>4, SubmitNextInv
<1>2. CASE next > SmallerOf(Workers, N)
    <2>1. /\ pc = "wave" /\ pc' = "wait"
          /\ UNCHANGED <<next, status, registered, active, completed, results, firstError>>
        BY <1>2 DEF SubmitWave, SmallerOf, Inv, TypeOK
    <2>2. TypeOK'
        BY <2>1 DEF Inv, TypeOK
    <2>3. PlacesInv'
        <3>1. next <= N => 1 \in active
            BY <1>2, <2>1 DEF SmallerOf, Inv, TypeOK, PlacesInv, InWave
        <3> QED
            BY <2>1, <3>1 DEF Inv, PlacesInv, AtRegister, InWave
    <2>4. StatusInv' /\ DeliveryInv' /\ FailureInv'
        BY <2>1 DEF Inv, StatusInv, DeliveryInv, FailureInv
    <2> QED
        BY <2>2, <2>3, <2>4 DEF Inv
<1>3. next \in Int /\ SmallerOf(Workers, N) \in Int
    BY DEF SmallerOf, Inv, TypeOK
<1> QED
    BY <1>1, <1>2, <1>3

LEMMA RegisterInv ==
    ASSUME Inv, NEW after, Register(after),
           \/ pc = "register_wave" /\ after = "wave"
           \/ pc = "register" /\ after = "wait"
    PROVE  Inv'
<1> DEFINE i == next - 1
<1> USE SchedulerAssumption
<1>1. i \in Query /\ i \in active /\ i \notin registered
    BY DEF Inv, TypeOK, PlacesInv, AtRegister
<1>2. /\ pc' = after
      /\ registered' = registered \cup {i}
      /\ completed' = IF status[i] \in Done THEN Append(completed, i) ELSE completed
      /\ UNCHANGED <<next, status, active, results, firstError>>
    BY DEF Register
<1>3. i \notin Elements(completed) /\ completed \in Seq(Query)
    BY <1>1 DEF Inv, TypeOK, DeliveryInv
<1>4. /\ Append(completed, i) \in Seq(Query)
      /\ Elements(Append(completed, i)) = Elements(completed) \cup {i}
      /\ NoRepeats(Append(completed, i))
    BY <1>1, <1>3, AppendElements DEF Inv, DeliveryInv
<1>5. TypeOK'
    BY <1>1, <1>2, <1>4 DEF Inv, TypeOK
<1>6. PlacesInv'
    <2>1. registered' = {j \in Query : j < next'}
        BY <1>1, <1>2 DEF Inv, TypeOK, PlacesInv, AtRegister, Query
    <2> QED
        BY <1>1, <1>2, <2>1 DEF Inv, TypeOK, PlacesInv, AtRegister, InWave
<1>7. StatusInv'
    BY <1>2 DEF Inv, StatusInv
<1>8. DeliveryInv'
    <2>1. CASE status[i] \in Done
        BY <1>1, <1>2, <1>4, <2>1 DEF Inv, DeliveryInv
    <2>2. CASE status[i] \notin Done
        BY <1>1, <1>2, <2>2 DEF Inv, DeliveryInv
    <2> QED
        BY <2>1, <2>2
<1>9. FailureInv'
    BY <1>2 DEF Inv, FailureInv
<1> QED
    BY <1>5, <1>6, <1>7, <1>8, <1>9 DEF Inv

LEMMA StartQueryInv ==
    ASSUME Inv, NEW i \in Query, StartQuery(i)
    PROVE  Inv'
<1>1. /\ status[i] = "queued" /\ status' = [status EXCEPT ![i] = "running"]
      /\ UNCHANGED <<pc, next, registered, active, completed, results, firstError>>
    BY DEF StartQuery
<1>2. status'[i] = "running" /\ \A j \in Query : j # i => status'[j] = status[j]
    BY <1>1 DEF Inv, TypeOK
<1>3. TypeOK'
    BY <1>1 DEF Inv, TypeOK
<1>4. PlacesInv'
    BY <1>1 DEF Inv, PlacesInv, AtRegister, InWave
<1>5. StatusInv'
    BY <1>1, <1>2 DEF Inv, TypeOK, StatusInv
<1>6. i \in active
    BY <1>1 DEF Inv, StatusInv
<1>7. DeliveryInv'
    <2>1. \A j \in Query : status'[j] \in Done <=> status[j] \in Done
        BY <1>1, <1>2 DEF Done
    <2> QED
        BY <1>1, <1>2, <1>6, <2>1 DEF Inv, TypeOK, DeliveryInv
<1>8. FailureInv'
    BY <1>1, <1>2, <1>6 DEF Inv, TypeOK, FailureInv, None
<1> QED
    BY <1>3, <1>4, <1>5, <1>7, <1>8 DEF Inv

LEMMA FinishQueryInv ==
    ASSUME Inv, NEW i \in Query, FinishQuery(i)
    PROVE  Inv'
<1>1. PICK d \in Done : status' = [status EXCEPT ![i] = d]
    BY DEF FinishQuery
<1>2. /\ status[i] = "running"
      /\ completed' = IF i \in registered THEN Append(completed, i) ELSE completed
      /\ UNCHANGED <<pc, next, registered, active, results, firstError>>
    BY DEF FinishQuery
<1>3. status'[i] = d /\ \A j \in Query : j # i => status'[j] = status[j]
    BY <1>1 DEF Inv, TypeOK
<1>4. i \in active /\ i \notin Elements(completed) /\ completed \in Seq(Query)
    BY <1>2 DEF Inv, TypeOK, StatusInv, DeliveryInv, Done
<1>5. /\ Append(completed, i) \in Seq(Query)
      /\ Elements(Append(completed, i)) = Elements(completed) \cup {i}
      /\ NoRepeats(Append(completed, i))
    BY <1>4, AppendElements DEF Inv, DeliveryInv
<1>6. TypeOK'
    BY <1>1, <1>2, <1>5 DEF Inv, TypeOK
<1>7. PlacesInv'
    BY <1>2 DEF Inv, PlacesInv, AtRegister, InWave
<1>8. StatusInv'
    BY <1>2, <1>3 DEF Inv, TypeOK, StatusInv, Done
<1>9. DeliveryInv'
    <2>1. results' = {j \in Query \ active' : status'[j] = "ok"}
        BY <1>2, <1>3, <1>4 DEF Inv, DeliveryInv
    <2>2. CASE i \in registered
        BY <1>2, <1>3, <1>4, <1>5, <2>1, <2>2 DEF Inv, TypeOK, DeliveryInv
    <2>3. CASE i \notin registered
        BY <1>2, <1>3, <1>4, <2>1, <2>3 DEF Inv, TypeOK, DeliveryInv
    <2> QED
        BY <2>2, <2>3
<1>10. FailureInv'
    BY <1>2, <1>3, <1>4 DEF Inv, TypeOK, FailureInv, None
<1> QED
    BY <1>6, <1>7, <1>8, <1>9, <1>10 DEF Inv

(* What the main thread takes from the FIFO was active and announced.      *)
LEMMA Taken ==
    ASSUME Inv, completed # << >>
    PROVE  LET h == Head(completed) IN
           /\ h \in active \cap registered /\ h \in Query /\ status[h] \in Done
           /\ Tail(completed) \in Seq(Query) /\ NoRepeats(Tail(completed))
           /\ Elements(Tail(completed)) = Elements(completed) \ {h}
           /\ Cardinality(active \ {h}) = Cardinality(active) - 1
<1>1. completed \in Seq(Query) /\ NoRepeats(completed)
    BY DEF Inv, TypeOK, DeliveryInv
<1>2. /\ Head(completed) \in Query /\ Head(completed) \in Elements(completed)
      /\ Tail(completed) \in Seq(Query) /\ NoRepeats(Tail(completed))
      /\ Elements(Tail(completed)) = Elements(completed) \ {Head(completed)}
    BY <1>1, TailElements
<1>3. Head(completed) \in active \cap registered /\ status[Head(completed)] \in Done
    BY <1>2 DEF Inv, DeliveryInv
<1>4. Cardinality(active \ {Head(completed)}) = Cardinality(active) - 1
    BY <1>3, Waited, FS_RemoveElement DEF Inv
<1> QED
    BY <1>2, <1>3, <1>4

LEMMA TakeFailureInv == ASSUME Inv, TakeFailure PROVE Inv'
<1> DEFINE h == Head(completed)
<1> USE SchedulerAssumption
<1>1. /\ pc = "wait" /\ completed # << >> /\ status[h] = "failed"
      /\ active' = active \ {h} /\ completed' = Tail(completed)
      /\ firstError' = IF firstError = None THEN h ELSE firstError
      /\ UNCHANGED <<pc, next, status, registered, results>>
    BY DEF TakeFailure
<1>2. /\ h \in active \cap registered /\ h \in Query /\ status[h] \in Done
      /\ Tail(completed) \in Seq(Query) /\ NoRepeats(Tail(completed))
      /\ Elements(Tail(completed)) = Elements(completed) \ {h}
      /\ Cardinality(active \ {h}) = Cardinality(active) - 1
    BY <1>1, Taken
<1>3. TypeOK'
    BY <1>1, <1>2 DEF Inv, TypeOK
<1>4. firstError' # None
    BY <1>1, <1>2 DEF None, Query
<1>5. PlacesInv'
    BY <1>1, <1>4 DEF Inv, PlacesInv, AtRegister, InWave
<1>6. StatusInv'
    BY <1>1, <1>2 DEF Inv, StatusInv, Done
<1>7. DeliveryInv'
    <2>1. results' = {j \in Query \ active' : status'[j] = "ok"}
        BY <1>1 DEF Inv, DeliveryInv
    <2>2. Elements(completed') = {j \in active' \cap registered' : status'[j] \in Done}
        BY <1>1, <1>2 DEF Inv, DeliveryInv
    <2>3. Cardinality(active') <= Workers
        BY <1>1, <1>2, Waited DEF Inv, DeliveryInv
    <2> QED
        BY <1>1, <1>2, <2>1, <2>2, <2>3 DEF DeliveryInv
<1>8. FailureInv'
    BY <1>1, <1>4 DEF Inv, FailureInv
<1> QED
    BY <1>3, <1>5, <1>6, <1>7, <1>8 DEF Inv

LEMMA TakeResultInv == ASSUME Inv, TakeResult PROVE Inv'
<1> DEFINE h == Head(completed)
<1> USE SchedulerAssumption
<1>1. /\ pc = "wait" /\ completed # << >> /\ status[h] = "ok"
      /\ active' = active \ {h} /\ completed' = Tail(completed)
      /\ results' = results \cup {h}
      /\ pc' = IF firstError = None /\ next <= N THEN "submit" ELSE "wait"
      /\ UNCHANGED <<next, status, registered, firstError>>
    BY DEF TakeResult
<1>2. /\ h \in active \cap registered /\ h \in Query /\ status[h] \in Done
      /\ Tail(completed) \in Seq(Query) /\ NoRepeats(Tail(completed))
      /\ Elements(Tail(completed)) = Elements(completed) \ {h}
      /\ Cardinality(active \ {h}) = Cardinality(active) - 1
    BY <1>1, Taken
<1>3. Cardinality(active) <= Workers /\ Cardinality(active) \in Nat
    BY Waited DEF Inv, DeliveryInv
<1>4. TypeOK'
    BY <1>1, <1>2 DEF Inv, TypeOK
<1>5. PlacesInv'
    BY <1>1, <1>2, <1>3 DEF Inv, TypeOK, PlacesInv, AtRegister, InWave
<1>6. StatusInv'
    BY <1>1, <1>2 DEF Inv, StatusInv, Done
<1>7. DeliveryInv'
    <2>1. results' = {j \in Query \ active' : status'[j] = "ok"}
        BY <1>1, <1>2 DEF Inv, DeliveryInv
    <2>2. Elements(completed') = {j \in active' \cap registered' : status'[j] \in Done}
        BY <1>1, <1>2 DEF Inv, DeliveryInv
    <2> QED
        BY <1>1, <1>2, <1>3, <2>1, <2>2 DEF DeliveryInv
<1>8. FailureInv'
    BY <1>1, <1>2 DEF Inv, FailureInv
<1> QED
    BY <1>4, <1>5, <1>6, <1>7, <1>8 DEF Inv

LEMMA SubmitAfterResultInv == ASSUME Inv, SubmitAfterResult PROVE Inv'
<1>1. /\ pc = "submit" /\ SubmitNext("register")
      /\ UNCHANGED <<registered, completed, results, firstError>>
    BY DEF SubmitAfterResult
<1>2. /\ next <= N /\ Cardinality(active) < Workers /\ firstError = None
      /\ registered = {i \in Query : i < next}
    BY <1>1 DEF Inv, PlacesInv, AtRegister, InWave
<1> QED
    BY <1>1, <1>2, SubmitNextInv

LEMMA LeaveInv == ASSUME Inv, Leave PROVE Inv'
<1>1. /\ pc = "wait" /\ pc' \in {"returned", "raised"}
      /\ UNCHANGED <<next, status, registered, active, completed, results, firstError>>
    BY DEF Leave
<1> QED
    BY <1>1 DEF Inv, TypeOK, PlacesInv, AtRegister, InWave, StatusInv, DeliveryInv, FailureInv

LEMMA StepInv == Inv /\ [Next]_vars => Inv'
<1> SUFFICES ASSUME Inv, [Next]_vars PROVE Inv'
    OBVIOUS
<1>1. CASE SubmitWave
    BY <1>1, SubmitWaveInv
<1>2. CASE RegisterWave
    BY <1>2, RegisterInv DEF RegisterWave
<1>3. CASE RegisterNext
    BY <1>3, RegisterInv DEF RegisterNext
<1>4. CASE TakeFailure
    BY <1>4, TakeFailureInv
<1>5. CASE TakeResult
    BY <1>5, TakeResultInv
<1>6. CASE SubmitAfterResult
    BY <1>6, SubmitAfterResultInv
<1>7. CASE Leave
    BY <1>7, LeaveInv
<1>8. CASE \E i \in Query : Pool(i)
    BY <1>8, StartQueryInv, FinishQueryInv DEF Pool
<1>9. CASE UNCHANGED vars
    BY <1>9 DEF vars, Inv, TypeOK, PlacesInv, AtRegister, InWave, StatusInv, DeliveryInv, FailureInv
<1> QED
    BY <1>1, <1>2, <1>3, <1>4, <1>5, <1>6, <1>7, <1>8, <1>9 DEF Next, Main, Ended

LEMMA Invariance == Spec => []Inv
<1>1. Init => Inv
    BY InitInv
<1>2. Inv /\ [Next]_vars => Inv'
    BY StepInv
<1> QED
    BY <1>1, <1>2, PTL DEF Spec

-----------------------------------------------------------------------------
(* The variables of run_bounded_query_workers keep their types             *)
(* (query_scheduler.py).                                                   *)
THEOREM TypesHold == Spec => []TypeOK
<1>1. Inv => TypeOK
    BY DEF Inv
<1> QED
    BY <1>1, Invariance, PTL

(* Whatever the race between a query that ends and add_done_callback, each *)
(* finished future is delivered once, and a delivered success is a result. *)
THEOREM FuturesAreDeliveredOnce == Spec => []EveryFutureIsDeliveredOnce
<1>1. Inv => EveryFutureIsDeliveredOnce
    BY DEF Inv, DeliveryInv, EveryFutureIsDeliveredOnce, NoRepeats, Elements, Order
<1> QED
    BY <1>1, Invariance, PTL

(* The error that is raised is that of the first failure the main thread   *)
(* took; nothing replaces it.                                              *)
THEOREM TheFirstFailureIsKept == Spec => FirstFailureIsKept
<1> DEFINE Keeps == IF firstError # None THEN firstError' = firstError
                    ELSE /\ \A i \in Query \ active : status[i] # "failed"
                         /\ firstError' # None => firstError' = Head(completed)
<1>1. Inv /\ [Next]_vars => [Keeps]_vars
    <2> SUFFICES ASSUME Inv, Next PROVE Keeps
        OBVIOUS
    <2>1. firstError = None => \A i \in Query \ active : status[i] # "failed"
        BY DEF Inv, FailureInv
    <2>2. CASE TakeFailure
        BY <2>1, <2>2 DEF TakeFailure
    <2>3. CASE ~TakeFailure
        <3>1. UNCHANGED firstError
            BY <2>3 DEF Next, Main, SubmitWave, RegisterWave, RegisterNext, Register, TakeResult,
                        SubmitAfterResult, Leave, Pool, StartQuery, FinishQuery, Ended, vars
        <3> QED
            BY <2>1, <3>1
    <2> QED
        BY <2>2, <2>3
<1> QED
    BY <1>1, Invariance, PTL DEF Spec, FirstFailureIsKept

-----------------------------------------------------------------------------
(* The scheduler implements QueryBatch.                                    *)

Shown == [i \in Query |-> IF status[i] \in {"queued", "running"} THEN "active" ELSE status[i]]
Ending == pc \in {"returned", "raised"}
Outcome == IF Ending THEN pc ELSE "none"

LEMMA ShownStatus ==
    ASSUME TypeOK
    PROVE  /\ \A i \in Query : Shown[i] = "active" <=> status[i] \in {"queued", "running"}
           /\ \A i \in Query : Shown[i] = "pending" <=> status[i] = "pending"
           /\ \A i \in Query : Shown[i] = "ok" <=> status[i] = "ok"
           /\ \A i \in Query : Shown[i] = "failed" <=> status[i] = "failed"
BY DEF Shown, TypeOK, Done

(* What the promise counts as active is a part of what is waited for.      *)
LEMMA ActiveShown ==
    ASSUME Inv
    PROVE  {i \in Query : Shown[i] = "active"} \subseteq active
BY ShownStatus DEF Inv, StatusInv

(* QueryBatch counts with its own instance of FiniteSets.                  *)
LEMMA SameCardinality == \A S : Batch!Cardinality(S) = Cardinality(S)
BY DEF Batch!Cardinality, Cardinality

LEMMA StartIsShown ==
    ASSUME Inv, NEW after \in {"register_wave", "register"}, SubmitNext(after),
           UNCHANGED firstError, ~Ending, next <= N, firstError = None,
           Cardinality(active) < Workers
    PROVE  Batch!Next
<1> USE SchedulerAssumption
<1>1. PICK q \in Query : q = next
    BY DEF Inv, TypeOK, Query
<1>2. Shown[q] = "pending" /\ \A j \in 1..(q - 1) : Shown[j] # "pending"
    BY <1>1, ShownStatus DEF Inv, TypeOK, StatusInv, Query
<1>3. Cardinality({i \in Query : Shown[i] = "active"}) < Workers
    <2>1. IsFiniteSet(active) /\ Cardinality(active) \in Nat
        BY Waited DEF Inv
    <2>2. /\ IsFiniteSet({i \in Query : Shown[i] = "active"})
          /\ Cardinality({i \in Query : Shown[i] = "active"}) <= Cardinality(active)
        BY <2>1, ActiveShown, FS_Subset
    <2>3. Cardinality({i \in Query : Shown[i] = "active"}) \in Nat
        BY <2>2, FS_CardinalityType
    <2> QED
        BY <2>1, <2>2, <2>3
<1>4. Shown' = [Shown EXCEPT ![q] = "active"]
    BY <1>1 DEF Inv, TypeOK, SubmitNext, Shown
<1>5. Outcome = "none" /\ Outcome' = "none" /\ (firstError # None)' = FALSE
    BY DEF SubmitNext, Outcome, Ending
<1>6. Batch!Start(q)
    BY <1>2, <1>3, <1>4, <1>5, SameCardinality
    DEF Batch!Start, Batch!Having, Batch!Query, Query, Shown, Outcome, Ending
<1> QED
    BY <1>1, <1>6 DEF Batch!Next, Batch!Query, Query

LEMMA LeaveIsShown ==
    ASSUME Inv, Leave
    PROVE  Batch!Next
<1> USE SchedulerAssumption
<1>1. /\ pc = "wait" /\ active = {}
      /\ pc' = IF firstError = None /\ results = Query THEN "returned" ELSE "raised"
      /\ UNCHANGED <<next, status, registered, active, completed, results, firstError>>
    BY DEF Leave
<1>2. Shown' = Shown /\ Outcome = "none" /\ Outcome' = pc'
    BY <1>1 DEF Shown, Outcome, Ending
<1>3. {i \in Query : Shown[i] = "active"} = {}
    BY <1>1, ActiveShown
<1>4. CASE firstError = None /\ results = Query
    <2>1. \A i \in Query : Shown[i] = "ok"
        BY <1>4, ShownStatus DEF Inv, DeliveryInv
    <2>2. Batch!Return
        BY <1>1, <1>2, <1>4, <2>1 DEF Batch!Return, Batch!Having, Batch!Query, Query,
                                      Shown, Outcome, Ending
    <2> QED
        BY <2>2 DEF Batch!Next
<1>5. CASE firstError = None /\ results # Query
    <2>1. next > N
        BY <1>1, <1>5 DEF Inv, TypeOK, PlacesInv
    <2>2. \A i \in Query : status[i] = "ok"
        BY <1>1, <1>5, <2>1 DEF Inv, TypeOK, StatusInv, FailureInv, Query, Done
    <2>3. results = Query
        BY <1>1, <2>2 DEF Inv, DeliveryInv
    <2> QED
        BY <1>5, <2>3
<1>6. CASE firstError # None
    <2>1. Batch!Raise
        BY <1>1, <1>2, <1>3, <1>6 DEF Batch!Raise, Batch!Having, Batch!Query, Query,
                                      Shown, Outcome, Ending
    <2> QED
        BY <2>1 DEF Batch!Next
<1> QED
    BY <1>4, <1>5, <1>6

(* Whatever the threads do, run_bounded_query_workers shows its caller     *)
(* what QueryBatch promises: queries start in manifest order, at most      *)
(* Workers at a time and none after a failure was seen, and the call ends  *)
(* with all results or with the error of a query that failed.              *)
THEOREM SchedulerImplementsBatch == Spec => BatchSpec
<1>1. Init => Batch!Init
    BY DEF Init, Batch!Init, Batch!Query, Query, None
<1>2. Inv /\ [Next]_vars => [Batch!Next]_(Batch!vars)
    <2> SUFFICES ASSUME Inv, [Next]_vars PROVE Batch!Next \/ UNCHANGED Batch!vars
        OBVIOUS
    <2>1. CASE SubmitWave
        <3>1. CASE next <= SmallerOf(Workers, N)
            <4>1. /\ next <= N /\ next <= Workers /\ next \in Nat /\ next >= 1
                BY <3>1, SchedulerAssumption DEF SmallerOf, Inv, TypeOK
            <4>2. active = 1..(next - 1) /\ firstError = None /\ pc = "wave"
                BY <2>1 DEF SubmitWave, Inv, PlacesInv, InWave
            <4>3. Cardinality(active) = next - 1
                <5>1. 1 \in Int /\ next - 1 \in Int /\ (1 > next - 1 => next - 1 = 0)
                    BY <4>1
                <5> QED
                    BY <4>1, <4>2, <5>1, FS_Interval
            <4>4. Cardinality(active) < Workers /\ ~Ending
                BY <4>1, <4>2, <4>3, SchedulerAssumption DEF Ending
            <4>5. SubmitNext("register_wave") /\ UNCHANGED firstError
                BY <2>1, <3>1 DEF SubmitWave
            <4> QED
                BY <4>1, <4>2, <4>4, <4>5, StartIsShown
        <3>2. CASE ~(next <= SmallerOf(Workers, N))
            BY <2>1, <3>2 DEF SubmitWave, Batch!vars
        <3> QED
            BY <3>1, <3>2
    <2>2. CASE RegisterWave \/ RegisterNext
        BY <2>2 DEF RegisterWave, RegisterNext, Register, Batch!vars
    <2>3. CASE TakeFailure
        <3>1. /\ pc' = pc /\ status' = status /\ firstError' # None
              /\ Head(completed) \in Query /\ status[Head(completed)] = "failed"
            BY <2>3, Taken DEF TakeFailure, None, Query
        <3>2. Shown[Head(completed)] = "failed"
            BY <3>1, ShownStatus DEF Inv
        <3>3. Batch!Stop
            BY <3>1, <3>2 DEF Batch!Stop, Batch!Having, Batch!Query, Query, Shown
        <3> QED
            BY <3>3 DEF Batch!Next
    <2>4. CASE TakeResult
        BY <2>4 DEF TakeResult, Batch!vars
    <2>5. CASE SubmitAfterResult
        <3>1. /\ pc = "submit" /\ SubmitNext("register") /\ UNCHANGED firstError
            BY <2>5 DEF SubmitAfterResult
        <3>2. next <= N /\ Cardinality(active) < Workers /\ firstError = None /\ ~Ending
            BY <3>1 DEF Inv, PlacesInv, InWave, Ending
        <3> QED
            BY <3>1, <3>2, StartIsShown
    <2>6. CASE Leave
        BY <2>6, LeaveIsShown
    <2>7. ASSUME NEW i \in Query, StartQuery(i) PROVE UNCHANGED Batch!vars
        <3>1. status[i] = "queued" /\ status' = [status EXCEPT ![i] = "running"]
              /\ UNCHANGED <<pc, firstError>>
            BY <2>7 DEF StartQuery
        <3>2. Shown' = Shown
            BY <3>1 DEF Shown, Inv, TypeOK
        <3> QED
            BY <3>1, <3>2 DEF Batch!vars, Shown
    <2>8. ASSUME NEW i \in Query, FinishQuery(i) PROVE Batch!Next
        <3>1. PICK d \in Done : status' = [status EXCEPT ![i] = d]
            BY <2>8 DEF FinishQuery
        <3>2. status[i] = "running" /\ UNCHANGED <<pc, firstError>>
            BY <2>8 DEF FinishQuery
        <3>3. Shown' = [Shown EXCEPT ![i] = d] /\ Shown[i] = "active"
            BY <3>1, <3>2 DEF Shown, Inv, TypeOK, Done
        <3>4. Batch!End(i)
            BY <3>2, <3>3 DEF Batch!End, Batch!Query, Query, Shown, Done
        <3> QED
            BY <3>4 DEF Batch!Next, Batch!Query, Query
    <2>9. CASE UNCHANGED vars
        BY <2>9 DEF vars, Batch!vars
    <2> QED
        BY <2>1, <2>2, <2>3, <2>4, <2>5, <2>6, <2>7, <2>8, <2>9 DEF Next, Main, Pool, Ended
<1> QED
    BY <1>1, <1>2, Invariance, PTL DEF Spec, BatchSpec, Batch!Spec
=============================================================================
