------------------------- MODULE SessionStateProofs -------------------------
(***************************************************************************)
(* Proofs about SessionState, for any processes and any bounds: the types, *)
(* and, as long as no session is opened before the last one was closed,    *)
(* that a profile keeps its identity, its age and its cookies together and *)
(* can be opened whatever fails.                                           *)
(***************************************************************************)
EXTENDS SessionState, SequenceTheorems, TLAPS

Context(n) == [id : 0..n, jar : 0..n, created : Time]
Loading == {"expect_files", "expect_nothing", "load", "appeared", "absent",
            "read_metadata", "read_cookies"}
Holding == Saving \cup {"read_cookies"}
Place == Saving \cup Loading \cup {"closed"}

LEMMA LoadingIsNotSaving == Loading \cap Saving = {} /\ "closed" \notin Loading \cup Saving
BY DEF Loading, Saving

LEMMA SizesAreNumbers ==
    ASSUME TypeOK
    PROVE  /\ Len(data) \in Nat /\ Len(contexts) \in Nat
           /\ \A k \in 1..Len(data) : data[k] \in 0..Len(contexts)
           /\ \A s \in Session : contexts[s] \in Context(Len(contexts))
           /\ \A n \in Name : Present(n) => /\ file[n] \in 1..Len(data)
                                            /\ Held(n) \in 0..Len(contexts)
<1>1. data \in Seq(0..Len(contexts)) /\ contexts \in Seq(Context(Len(contexts)))
    BY DEF TypeOK, Context
<1>2. Len(data) \in Nat /\ Len(contexts) \in Nat
    BY <1>1, LenProperties
<1>3. \A k \in 1..Len(data) : data[k] \in 0..Len(contexts)
    BY <1>1, ElementOfSeq
<1>4. \A s \in Session : contexts[s] \in Context(Len(contexts))
    BY <1>1, ElementOfSeq DEF Session
<1>5. \A n \in Name : Present(n) => file[n] \in 1..Len(data)
    BY <1>2 DEF TypeOK, Present
<1> QED
    BY <1>2, <1>3, <1>4, <1>5 DEF Held

(* A session that is opened is the last one, and no other changes.         *)
LEMMA OneSessionIsOpened ==
    ASSUME TypeOK, NEW p \in Process, NEW id \in 0..(Len(contexts) + 1),
           NEW jar \in 0..Len(contexts), NEW created \in Time,
           Opened(p, id, jar, created)
    PROVE  /\ contexts' \in Seq(Context(Len(contexts')))
           /\ Len(contexts') = Len(contexts) + 1
           /\ contexts'[Len(contexts) + 1] = [id |-> id, jar |-> jar, created |-> created]
           /\ \A s \in Session : contexts'[s] = contexts[s]
<1> DEFINE n == Len(contexts)
           C == Context(n + 1)
           c == [id |-> id, jar |-> jar, created |-> created]
<1>1. n \in Nat
    BY SizesAreNumbers
<1>2. contexts \in Seq(Context(n)) /\ Context(n) \subseteq C /\ c \in C
    BY <1>1 DEF TypeOK, Context
<1>3. contexts \in Seq(C)
    BY <1>2, SeqMonotonic
<1>4. contexts' = Append(contexts, c)
    BY DEF Opened
<1> HIDE DEF C, c
<1>5. contexts' \in Seq(C) /\ Len(contexts') = n + 1
        /\ contexts'[n + 1] = c /\ \A s \in 1..n : contexts'[s] = contexts[s]
    BY <1>2, <1>3, <1>4, AppendProperties
<1> QED
    BY <1>5 DEF C, c, Session

(* Process p writes the file of this name at inode k, empty now.           *)
Empties(p, name, k) ==
    /\ Present(name) => k = file[name]
    /\ ~Present(name) => k = Len(data) + 1
    /\ file' = [file EXCEPT ![name] = k]
    /\ target' = [target EXCEPT ![p] = k]
    /\ data'[k] = 0
    /\ \A j \in 1..Len(data) : j # k => data'[j] = data[j]

(* Opening a file for writing leaves its name at an empty inode.           *)
LEMMA OneFileIsTruncated ==
    ASSUME TypeOK, NEW p \in Process, NEW from, NEW name \in Name, NEW to,
           Truncate(p, from, name, to)
    PROVE  /\ Len(data') \in Nat /\ Len(data') >= Len(data) /\ Len(data') <= MaxInodes
           /\ data' \in Seq(0..Len(contexts))
           /\ \E k \in 1..Len(data') : Empties(p, name, k)
<1>1. data \in Seq(0..Len(contexts)) /\ Len(data) \in Nat /\ 0 \in 0..Len(contexts)
        /\ file \in [Name -> 0..Len(data)] /\ Len(data) <= MaxInodes /\ MaxInodes \in Nat
    BY SizesAreNumbers, BoundAssumption DEF TypeOK
<1>2. CASE Present(name)
    <2>1. PICK k \in 1..Len(data) : k = file[name]
        BY <1>2, SizesAreNumbers
    <2>2. data' = [data EXCEPT ![k] = 0] /\ target' = [target EXCEPT ![p] = k] /\ file' = file
        BY <1>2, <2>1 DEF Truncate
    <2>3. data' \in Seq(0..Len(contexts)) /\ Len(data') = Len(data)
            /\ \A j \in 1..Len(data) : data'[j] = IF j = k THEN 0 ELSE data[j]
        BY <1>1, <2>2, ExceptSeq
    <2>4. file' = [file EXCEPT ![name] = k]
        BY <1>1, <2>1, <2>2
    <2> QED
        BY <1>1, <1>2, <2>1, <2>2, <2>3, <2>4 DEF Empties
<1>3. CASE ~Present(name)
    <2>1. PICK k \in Nat : k = Len(data) + 1
        BY <1>1
    <2>2. /\ data' = Append(data, 0) /\ target' = [target EXCEPT ![p] = k]
          /\ file' = [file EXCEPT ![name] = k] /\ Len(data) < MaxInodes
        BY <1>3, <2>1 DEF Truncate
    <2>3. data' \in Seq(0..Len(contexts)) /\ Len(data') = k
            /\ data'[k] = 0 /\ \A j \in 1..Len(data) : data'[j] = data[j]
        BY <1>1, <2>1, <2>2, AppendProperties
    <2> QED
        <3>1. k \in 1..Len(data')
            BY <2>1, <2>3
        <3>2. Len(data') >= Len(data) /\ Len(data') <= MaxInodes
            BY <1>1, <2>1, <2>2, <2>3
        <3> QED
            BY <1>3, <2>1, <2>2, <2>3, <3>1, <3>2 DEF Empties
<1> QED
    BY <1>2, <1>3
-----------------------------------------------------------------------------
(* A process goes somewhere else, with a session when it saves one.        *)
Moves(p) ==
    /\ \E l \in Place : pc' = [pc EXCEPT ![p] = l]
    /\ session' \in [Process -> 0..Len(contexts')]
    /\ \A q \in Process : pc'[q] \in Holding => session'[q] # 0

LEMMA OpeningTypes ==
    ASSUME TypeOK, NEW p \in Process, NEW id \in 0..(Len(contexts) + 1),
           NEW jar \in 0..Len(contexts), NEW created \in Time,
           Opened(p, id, jar, created), UNCHANGED <<disk, target>>
    PROVE  TypeOK'
<1> DEFINE n == Len(contexts)
<1>1. n \in Nat /\ 0..n \subseteq 0..(n + 1)
    BY SizesAreNumbers
<1>2. /\ contexts' \in Seq(Context(Len(contexts'))) /\ Len(contexts') = n + 1
      /\ contexts'[n + 1] = [id |-> id, jar |-> jar, created |-> created]
      /\ \A s \in 1..n : contexts'[s] = contexts[s]
    BY OneSessionIsOpened DEF Session
<1>3. \A s \in 1..Len(contexts') : contexts'[s].jar < s
    <2>1. contexts'[n + 1].jar < n + 1
        BY <1>1, <1>2
    <2>2. \A s \in 1..n : contexts'[s].jar < s
        BY <1>2 DEF TypeOK, Session
    <2> QED
        BY <1>1, <1>2, <2>1, <2>2
<1>4. data' \in Seq(0..Len(contexts'))
    <2>1. data \in Seq(0..(n + 1))
        BY <1>1, SeqMonotonic DEF TypeOK
    <2> QED
        BY <1>2, <2>1 DEF disk
<1>5. /\ session' \in [Process -> 0..Len(contexts')]
      /\ session'[p] # 0
      /\ \A q \in Process \ {p} : session'[q] = session[q]
    BY <1>1, <1>2 DEF TypeOK, Opened
<1>6. pc' \in [Process -> Place] /\ \A q \in Process \ {p} : pc'[q] = pc[q]
    BY DEF TypeOK, Opened, Goto, Place, Loading, Saving
<1>7. \A q \in Process : pc'[q] \in Holding => session'[q] # 0
    BY <1>5, <1>6 DEF TypeOK, Holding
<1> QED
    BY <1>2, <1>3, <1>4, <1>5, <1>6, <1>7
       DEF TypeOK, disk, Session, Context, Present, Place, Loading, Holding

LEMMA QuietTypes ==
    ASSUME TypeOK, NEW p \in Process, Moves(p), exists' \in {exists, TRUE},
           UNCHANGED <<file, data, contexts, target>>
    PROVE  TypeOK'
<1>1. pc' \in [Process -> Place]
    BY DEF TypeOK, Moves, Place, Loading, Holding
<1> QED
    BY <1>1 DEF TypeOK, Moves, Session, Present, Place, Loading, Holding

LEMMA TruncatingTypes ==
    ASSUME TypeOK, NEW p \in Process, NEW from, NEW name \in Name, NEW to \in Saving,
           from \in Saving, Truncate(p, from, name, to)
    PROVE  TypeOK'
<1>1. PICK k \in 1..Len(data') : Empties(p, name, k)
    BY OneFileIsTruncated
<1>2. /\ Len(data) \in Nat /\ Len(data') \in Nat /\ Len(data') >= Len(data)
      /\ Len(data') <= MaxInodes /\ data' \in Seq(0..Len(contexts))
    BY OneFileIsTruncated, SizesAreNumbers
<1>3. file' \in [Name -> 0..Len(data')] /\ target' \in [Process -> 0..Len(data')]
    BY <1>1, <1>2 DEF TypeOK, Empties
<1>4. /\ exists' = exists /\ exists = TRUE /\ contexts' = contexts /\ session' = session
      /\ pc' = [pc EXCEPT ![p] = to] /\ pc[p] \in Saving
    BY DEF Truncate, Goto, At, TypeOK
<1>5. pc' \in [Process -> Place] /\ \A q \in Process : pc'[q] \in Holding => session'[q] # 0
    BY <1>4 DEF TypeOK, Place, Loading, Holding
<1> QED
    BY <1>2, <1>3, <1>4, <1>5 DEF TypeOK, Session, Present, Place, Loading, Holding

LEMMA FillingTypes ==
    ASSUME TypeOK, NEW p \in Process, NEW from \in Saving, NEW to \in Saving, Fill(p, from, to)
    PROVE  TypeOK'
<1>1. PICK k \in 0..Len(data), s \in 0..Len(contexts) : k = target[p] /\ s = session[p]
    BY DEF TypeOK
<1>2. data' = [data EXCEPT ![k] = s] /\ data \in Seq(0..Len(contexts)) /\ Len(data) \in Nat
    BY <1>1, SizesAreNumbers DEF Fill, TypeOK
<1>3. data' \in Seq(0..Len(contexts)) /\ Len(data') = Len(data)
    <2>1. CASE k = 0
        <3>1. data' = data
            BY <1>2, <2>1, LenProperties
        <3> QED
            BY <1>2, <3>1
    <2>2. CASE k \in 1..Len(data)
        BY <1>2, <2>2, ExceptSeq
    <2> QED
        BY <1>2, <2>1, <2>2
<1>4. /\ UNCHANGED <<exists, file, contexts, session, target>>
      /\ pc' = [pc EXCEPT ![p] = to] /\ pc[p] \in Saving
    BY DEF Fill, Goto, At, TypeOK
<1>5. pc' \in [Process -> Place] /\ \A q \in Process : pc'[q] \in Holding => session'[q] # 0
    BY <1>4 DEF TypeOK, Place, Loading, Holding
<1> QED
    BY <1>3, <1>4, <1>5 DEF TypeOK, Session, Present, Place, Loading, Holding

LEMMA ReplacingTypes ==
    ASSUME TypeOK, NEW p \in Process, NEW from \in Saving, NEW name \in Name,
           NEW with \in Name, NEW to \in Saving \cup {"closed"},
           Replace(p, from, name, with, to)
    PROVE  TypeOK'
<1>1. /\ file' = [file EXCEPT ![name] = file[with], ![with] = 0]
      /\ UNCHANGED <<exists, data, contexts, target>> /\ file[with] # 0
      /\ pc' = [pc EXCEPT ![p] = to] /\ pc[p] \in Saving
      /\ session' = [session EXCEPT ![p] = IF to = "closed" THEN 0 ELSE session[p]]
    BY DEF Replace, Goto, At, Present, TypeOK
<1>2. Len(contexts) \in Nat /\ Len(data) \in Nat
    BY SizesAreNumbers
<1>3. file' \in [Name -> 0..Len(data)] /\ \A n \in Name : file'[n] # 0 => exists
    <2>1. file \in [Name -> 0..Len(data)] /\ \A n \in Name : file[n] # 0 => exists
        BY DEF TypeOK, Present
    <2>2. \A n \in Name : file'[n] \in {0, file[with], file[n]}
        BY <1>1, <2>1
    <2>3. file' \in [Name -> 0..Len(data)]
        BY <1>1, <1>2, <2>1
    <2> QED
        BY <1>1, <2>1, <2>2, <2>3
<1>4. session' \in [Process -> 0..Len(contexts)]
    BY <1>1, <1>2 DEF TypeOK
<1>5. pc' \in [Process -> Place] /\ \A q \in Process : pc'[q] \in Holding => session'[q] # 0
    BY <1>1, LoadingIsNotSaving DEF TypeOK, Place, Loading, Holding
<1> QED
    BY <1>1, <1>3, <1>4, <1>5 DEF TypeOK, Session, Present, Place, Loading, Holding

(* What the metadata and the jar say is of sessions that are recorded.     *)
LEMMA LoadingTypes ==
    ASSUME TypeOK, NEW p \in Process,
           LookForProfile(p) \/ LookForCookies(p) \/ LookForMetadata(p)
             \/ ReadMetadata(p) \/ ReadCookies(p)
    PROVE  TypeOK'
<1> DEFINE n == Len(contexts)
<1>1. n \in Nat /\ n + 1 \in 0..(n + 1) /\ 0..n \subseteq 0..(n + 1)
    BY SizesAreNumbers
<1>2. \A l \in Place \ Holding :
         pc' = [pc EXCEPT ![p] = l] /\ session' = session /\ contexts' = contexts => Moves(p)
    BY DEF TypeOK, Moves, Place, Loading, Holding
<1>3. /\ {"expect_files", "expect_nothing", "load", "closed", "appeared", "absent",
          "read_metadata"} \subseteq Place \ Holding
      /\ "read_cookies" \in Place
    BY DEF Place, Loading, Holding, Saving
<1>4. CASE LookForProfile(p)
    BY <1>2, <1>3, <1>4, QuietTypes DEF LookForProfile, Goto, disk
<1>5. CASE LookForCookies(p)
    BY <1>2, <1>3, <1>5, QuietTypes DEF LookForCookies, Goto, disk
<1>6. CASE LookForMetadata(p)
    <2>1. CASE \E now \in Time : Opened(p, NewIdentity, 0, now)
        BY <1>1, <1>6, <2>1, OpeningTypes DEF LookForMetadata, NewIdentity
    <2>2. CASE UNCHANGED <<contexts, session>> /\ (Goto(p, "closed") \/ Goto(p, "read_metadata"))
        BY <1>2, <1>3, <1>6, <2>2, QuietTypes DEF LookForMetadata, Goto, disk
    <2> QED
        BY <1>6, <2>1, <2>2 DEF LookForMetadata
<1>7. CASE ReadMetadata(p)
    <2>1. CASE UNCHANGED session /\ Goto(p, "closed")
        BY <1>2, <1>3, <1>7, <2>1, QuietTypes DEF ReadMetadata, Goto, disk
    <2>2. CASE /\ Present("metadata") /\ session' = [session EXCEPT ![p] = Held("metadata")]
               /\ Goto(p, "read_cookies")
        <3>1. Held("metadata") \in 0..n
            BY <2>2, SizesAreNumbers DEF Name
        <3>2. Moves(p)
            BY <1>3, <1>7, <2>2, <3>1 DEF Moves, ReadMetadata, Goto, TypeOK, Holding
        <3> QED
            BY <1>7, <3>2, QuietTypes DEF ReadMetadata, disk
    <2> QED
        BY <1>7, <2>1, <2>2 DEF ReadMetadata
<1>8. CASE ReadCookies(p)
    <2>1. CASE /\ session' = [session EXCEPT ![p] = 0] /\ Goto(p, "closed")
               /\ UNCHANGED contexts
        <3>1. pc' = [pc EXCEPT ![p] = "closed"] /\ "closed" \in Place \ Holding
            BY <1>3, <2>1 DEF Goto
        <3>2. \A q \in Process : pc'[q] \in Holding => session'[q] # 0
            BY <2>1, <3>1 DEF TypeOK, Holding
        <3>3. session' \in [Process -> 0..Len(contexts')]
            BY <1>1, <2>1 DEF TypeOK
        <3>4. Moves(p)
            BY <3>1, <3>2, <3>3 DEF Moves
        <3> QED
            BY <1>8, <2>1, <3>4, QuietTypes DEF ReadCookies, disk
    <2>2. CASE Present("cookies") /\ Held("cookies") # 0
        <3> DEFINE saved == contexts[session[p]]
                   id == IF saved.id # NoIdentity THEN saved.id ELSE NewIdentity
        <3>1. Opened(p, id, Held("cookies"), saved.created)
            BY <1>8, <2>2 DEF ReadCookies
        <3>2. Held("cookies") \in 0..n
            BY <2>2, SizesAreNumbers DEF Name
        <3>3. session[p] \in 1..n
            BY <1>1, <1>8 DEF TypeOK, ReadCookies, At
        <3>4. id \in 0..(n + 1) /\ saved.created \in Time
            BY <1>1, <3>3, SizesAreNumbers DEF Session, Context, NewIdentity
        <3> HIDE DEF id, saved
        <3> QED
            BY <1>8, <3>1, <3>2, <3>4, OpeningTypes DEF ReadCookies
    <2> QED
        BY <1>8, <2>1, <2>2 DEF ReadCookies
<1> QED
    BY <1>4, <1>5, <1>6, <1>7, <1>8

LEMMA SavingTypes ==
    ASSUME TypeOK, NEW p \in Process,
           \/ MakeDirectory(p) \/ OpenCookies(p) \/ WriteCookies(p)
           \/ OpenMetadata(p) \/ WriteMetadata(p)
           \/ ReplaceCookies(p) \/ ReplaceMetadata(p) \/ SaveFails(p) \/ Kill(p)
    PROVE  TypeOK'
<1>1. Len(contexts) \in Nat /\ Len(data) \in Nat
    BY SizesAreNumbers
<1>2. CASE MakeDirectory(p)
    <2>1. Moves(p)
        BY <1>2 DEF MakeDirectory, Goto, At, Moves, TypeOK, Place, Loading, Holding, Saving
    <2> QED
        BY <1>2, <2>1, QuietTypes DEF MakeDirectory
<1>3. CASE OpenCookies(p) \/ OpenMetadata(p)
    BY <1>3, TruncatingTypes DEF OpenCookies, OpenMetadata, Name, Saving
<1>4. CASE WriteCookies(p) \/ WriteMetadata(p)
    BY <1>4, FillingTypes DEF WriteCookies, WriteMetadata, Saving
<1>5. CASE ReplaceCookies(p) \/ ReplaceMetadata(p)
    BY <1>5, ReplacingTypes DEF ReplaceCookies, ReplaceMetadata, Name, Saving
<1>6. CASE Kill(p)
    <2>1. Moves(p)
        BY <1>1, <1>6 DEF Kill, Goto, Moves, TypeOK, Place, Loading, Holding, Saving
    <2> QED
        BY <1>6, <2>1, QuietTypes DEF Kill, disk
<1>7. CASE SaveFails(p)
    <2>1. /\ file' = [n \in Name |-> IF n \in Temporary THEN 0 ELSE file[n]]
          /\ session' = [session EXCEPT ![p] = 0] /\ pc' = [pc EXCEPT ![p] = "closed"]
          /\ UNCHANGED <<exists, data, contexts, target>>
        BY <1>7 DEF SaveFails, Goto
    <2>2. file' \in [Name -> 0..Len(data)] /\ \A n \in Name : file'[n] # 0 => exists
        BY <1>1, <2>1 DEF TypeOK, Present
    <2>3. /\ session' \in [Process -> 0..Len(contexts)] /\ pc' \in [Process -> Place]
          /\ \A q \in Process : pc'[q] \in Holding => session'[q] # 0
        BY <1>1, <2>1 DEF TypeOK, Place, Loading, Holding, Saving
    <2> QED
        BY <2>1, <2>2, <2>3 DEF TypeOK, Session, Present, Place, Loading, Holding
<1> QED
    BY <1>2, <1>3, <1>4, <1>5, <1>6, <1>7

LEMMA InitialTypes == Init => TypeOK
<1> SUFFICES ASSUME Init PROVE TypeOK
    OBVIOUS
<1>1. 1 \in Time /\ MaxInodes \in Nat /\ MaxInodes >= 2
    BY BoundAssumption DEF Time
<1>2. /\ pc = [p \in Process |-> "closed"] /\ session = [p \in Process |-> 0]
      /\ target = [p \in Process |-> 0]
    BY DEF Init
<1>3. CASE /\ exists = FALSE /\ file = [n \in Name |-> 0] /\ data = <<>> /\ contexts = <<>>
    <2>1. data \in Seq(0..0) /\ contexts \in Seq(Context(0)) /\ Len(data) = 0 /\ Len(contexts) = 0
        BY <1>3, EmptySeq
    <2>2. file \in [Name -> 0..0] /\ \A n \in Name : file[n] = 0
        BY <1>3
    <2>3. Session = {}
        BY <2>1 DEF Session
    <2>4. /\ data \in Seq(0..Len(contexts)) /\ contexts \in Seq(Context(Len(contexts)))
          /\ Len(data) <= MaxInodes
        BY <1>1, <2>1
    <2>5. /\ file \in [Name -> 0..Len(data)] /\ \A n \in Name : file[n] # 0 => exists
          /\ target \in [Process -> 0..Len(data)]
          /\ session \in [Process -> 0..Len(contexts)]
        BY <1>2, <2>1, <2>2
    <2>6. /\ pc \in [Process -> Place]
          /\ \A p \in Process : pc[p] \notin Holding
        BY <1>2 DEF Place, Holding, Saving
    <2> QED
        BY <1>3, <2>3, <2>4, <2>5, <2>6 DEF TypeOK, Context, Present, Place, Loading, Holding
<1>4. CASE /\ exists = TRUE /\ data = <<1, 1>> /\ contexts = <<Legacy>>
           /\ file = [n \in Name |-> IF n = "cookies" THEN 1
                                     ELSE IF n = "metadata" THEN 2 ELSE 0]
    <2>1. Len(data) = 2 /\ Len(contexts) = 1 /\ data \in Seq(0..1) /\ contexts[1] = Legacy
        BY <1>4
    <2>2. Legacy \in Context(1)
        BY <1>1 DEF Legacy, NoIdentity, Context
    <2>3. contexts \in Seq(Context(1))
        BY <1>4, <2>2
    <2>4. file \in [Name -> 0..2]
        BY <1>4
    <2>5. \A s \in 1..1 : contexts[s].jar < s
        BY <2>1 DEF Legacy
    <2> QED
        BY <1>1, <1>2, <1>4, <2>1, <2>3, <2>4, <2>5 DEF TypeOK, Context, Session, Present, Saving
<1> QED
    BY <1>3, <1>4 DEF Init

LEMMA StepTypes == TypeOK /\ [Next]_vars => TypeOK'
<1>1. ASSUME TypeOK, NEW p \in Process,
             \/ LookForProfile(p) \/ LookForCookies(p) \/ LookForMetadata(p)
             \/ ReadMetadata(p) \/ ReadCookies(p)
      PROVE  TypeOK'
    BY <1>1, LoadingTypes
<1>2. ASSUME TypeOK, NEW p \in Process,
             \/ MakeDirectory(p) \/ OpenCookies(p) \/ WriteCookies(p)
             \/ OpenMetadata(p) \/ WriteMetadata(p)
             \/ ReplaceCookies(p) \/ ReplaceMetadata(p) \/ SaveFails(p) \/ Kill(p)
      PROVE  TypeOK'
    BY <1>2, SavingTypes
<1>3. ASSUME TypeOK, Reset PROVE TypeOK'
    <2>1. file' = [n \in Name |-> 0] /\ exists' = FALSE
            /\ UNCHANGED <<data, contexts, pc, session, target>>
        BY <1>3 DEF Reset
    <2>2. Len(data) \in Nat
        BY <1>3, SizesAreNumbers
    <2>3. file' \in [Name -> 0..Len(data)] /\ \A n \in Name : file'[n] = 0
        BY <2>1, <2>2
    <2> QED
        BY <1>3, <2>1, <2>3 DEF TypeOK, Session, Present
<1>4. ASSUME TypeOK, UNCHANGED vars PROVE TypeOK'
    BY <1>4 DEF vars, disk, TypeOK, Session, Present
<1> QED
    BY <1>1, <1>2, <1>3, <1>4 DEF Next

(* The types hold whatever sessions overlap.                               *)
THEOREM SessionTypesHold == Spec => []TypeOK
BY InitialTypes, StepTypes, PTL DEF Spec

-----------------------------------------------------------------------------
(* One session after the other: nobody opens the profile while it is open. *)
SessionsDoNotOverlap ==
    \A p, q \in Process : ~At(p, "closed") /\ ~At(q, "closed") => p = q

NamesAreApart ==
    \A m, n \in Name : Present(m) /\ file[m] = file[n] => m = n

(* What a profile is opened by is never truncated.                         *)
ProfileIsFilled == \A n \in {"cookies", "metadata"} : Present(n) => Held(n) # 0

(* An identity is the number of the session that made it, so it is fresh.  *)
IdentitiesAreFresh ==
    \A s \in Session : contexts[s].id <= s /\ (contexts[s].id = NoIdentity => s = 1)

(* The metadata says nothing that session s would contradict.              *)
GoesOnAs(s) ==
    Present("metadata") => contexts[Held("metadata")].id \in {NoIdentity, contexts[s].id}

JarIsOfTheProfile == Present("cookies") /\ Present("metadata") => GoesOnAs(Held("cookies"))

(* What the one process that has the profile open knows of its files.      *)
Knows(p) ==
    /\ pc[p] # "appeared"
    /\ pc[p] \in {"expect_nothing", "absent"} => ~exists
    /\ pc[p] = "read_cookies" => Present("metadata") /\ session[p] = Held("metadata")
    /\ pc[p] \in Saving => GoesOnAs(session[p])
    /\ pc[p] = "write_cookies" => Present("cookies.tmp") /\ target[p] = file["cookies.tmp"]
    /\ pc[p] \in {"open_metadata", "write_metadata", "replace_cookies"} =>
          Present("cookies.tmp") /\ Held("cookies.tmp") = session[p]
    /\ pc[p] = "write_metadata" => Present("metadata.tmp") /\ target[p] = file["metadata.tmp"]
    /\ pc[p] \in {"replace_cookies", "replace_metadata"} =>
          Present("metadata.tmp") /\ Held("metadata.tmp") = session[p]
    /\ pc[p] = "replace_metadata" => Present("cookies") /\ Held("cookies") = session[p]

ProfileInv ==
    /\ NamesAreApart
    /\ ProfileIsFilled
    /\ IdentitiesAreFresh
    /\ CohortIsOneProfile
    /\ JarIsOfTheProfile
    /\ \A p \in Process : Knows(p)

LEMMA OthersAreClosed ==
    ASSUME TypeOK, SessionsDoNotOverlap, SessionsDoNotOverlap', NEW p \in Process,
           NEW l, pc' = [pc EXCEPT ![p] = l], pc[p] # "closed" \/ l # "closed", Knows(p)'
    PROVE  \A q \in Process : Knows(q)'
<1>1. \A q \in Process \ {p} : pc'[q] = "closed"
    BY DEF TypeOK, SessionsDoNotOverlap, At
<1> QED
    BY <1>1 DEF Knows, Saving

(* Steps that leave the profile and what is recorded alone. *)
KeepsProfile ==
    /\ contexts' = contexts
    /\ \A n \in {"cookies", "metadata"} :
         (Present(n)' <=> Present(n)) /\ (Present(n) => Held(n)' = Held(n))

LEMMA ProfileIsKept ==
    ASSUME ProfileInv, KeepsProfile
    PROVE  /\ ProfileIsFilled' /\ IdentitiesAreFresh' /\ CohortIsOneProfile' /\ JarIsOfTheProfile'
           /\ \A s \in Session : GoesOnAs(s) => GoesOnAs(s)'
<1>1. ProfileIsFilled'
    BY DEF ProfileInv, ProfileIsFilled, KeepsProfile
<1>2. IdentitiesAreFresh' /\ CohortIsOneProfile'
    BY DEF ProfileInv, IdentitiesAreFresh, CohortIsOneProfile, Session, KeepsProfile
<1>3. \A s : GoesOnAs(s) => GoesOnAs(s)'
    BY DEF GoesOnAs, KeepsProfile
<1>4. JarIsOfTheProfile'
    BY DEF ProfileInv, JarIsOfTheProfile, GoesOnAs, KeepsProfile
<1> QED
    BY <1>1, <1>2, <1>3, <1>4

LEMMA QuietKeeps ==
    ASSUME UNCHANGED <<file, data, contexts>>, NamesAreApart
    PROVE  KeepsProfile /\ NamesAreApart'
BY DEF KeepsProfile, NamesAreApart, Present, Held

LEMMA TruncatingKeeps ==
    ASSUME TypeOK, NamesAreApart, NEW p \in Process, NEW from, NEW name \in Temporary, NEW to,
           Truncate(p, from, name, to)
    PROVE  /\ KeepsProfile /\ NamesAreApart'
           /\ Present(name)' /\ target'[p] = file'[name]
           /\ \A n \in Name \ {name} : Present(n) => Present(n)' /\ Held(n)' = Held(n)
<1>1. name \in Name
    BY DEF Temporary, Name
<1>2. PICK k \in 1..Len(data') : Empties(p, name, k)
    BY <1>1, OneFileIsTruncated
<1>3. file \in [Name -> 0..Len(data)] /\ target \in [Process -> 0..Len(data)] /\ Len(data) \in Nat
    BY SizesAreNumbers DEF TypeOK
<1>4. file'[name] = k /\ target'[p] = k /\ \A n \in Name \ {name} : file'[n] = file[n]
    BY <1>1, <1>2, <1>3 DEF Empties
<1>5. k # 0 /\ \A n \in Name \ {name} : file[n] # k
    <2>1. k # 0
        BY <1>2
    <2>2. CASE Present(name)
        BY <1>1, <1>2, <2>1, <2>2 DEF Empties, NamesAreApart, Present
    <2>3. CASE ~Present(name)
        BY <1>2, <1>3, <2>3 DEF Empties
    <2> QED
        BY <2>1, <2>2, <2>3
<1>6. \A n \in Name \ {name} : Present(n) => data'[file[n]] = data[file[n]]
    BY <1>2, <1>3, <1>5, SizesAreNumbers DEF Empties
<1>7. \A n \in Name \ {name} : (Present(n)' <=> Present(n)) /\ (Present(n) => Held(n)' = Held(n))
    BY <1>4, <1>6 DEF Present, Held
<1>8. KeepsProfile
    BY <1>7 DEF KeepsProfile, Truncate, Temporary, Name
<1>9. NamesAreApart'
    BY <1>1, <1>4, <1>5 DEF NamesAreApart, Present
<1> QED
    BY <1>4, <1>5, <1>7, <1>8, <1>9 DEF Present

LEMMA FillingKeeps ==
    ASSUME TypeOK, NamesAreApart, NEW p \in Process, NEW from, NEW name \in Temporary, NEW to,
           Fill(p, from, to), Present(name), target[p] = file[name]
    PROVE  /\ KeepsProfile /\ NamesAreApart'
           /\ Present(name)' /\ Held(name)' = session[p]
           /\ \A n \in Name \ {name} : Present(n) => Present(n)' /\ Held(n)' = Held(n)
<1>1. name \in Name
    BY DEF Temporary, Name
<1>2. PICK k \in 1..Len(data) : k = file[name]
    BY <1>1, SizesAreNumbers
<1>3. data' = [data EXCEPT ![k] = session[p]] /\ file' = file /\ contexts' = contexts
    BY <1>2 DEF Fill
<1>4. data \in Seq(0..Len(contexts)) /\ session[p] \in 0..Len(contexts)
    BY DEF TypeOK
<1>5. \A j \in 1..Len(data) : data'[j] = IF j = k THEN session[p] ELSE data[j]
    BY <1>3, <1>4, ExceptSeq
<1>6. \A n \in Name \ {name} : Present(n) => file[n] \in 1..Len(data) /\ file[n] # k
    BY <1>1, <1>2, SizesAreNumbers DEF NamesAreApart
<1>7. \A n \in Name \ {name} : Present(n) => Held(n)' = Held(n)
    BY <1>3, <1>5, <1>6 DEF Held
<1>8. \A n \in Name : (Present(n)' <=> Present(n))
    BY <1>3 DEF Present
<1>9. KeepsProfile
    BY <1>3, <1>7, <1>8 DEF KeepsProfile, Temporary, Name
<1>10. NamesAreApart'
    BY <1>3 DEF NamesAreApart, Present
<1> QED
    BY <1>1, <1>2, <1>3, <1>5, <1>7, <1>8, <1>9, <1>10 DEF Held

(* A name takes the file of another one, no other file changes.            *)
Takes(name, with) ==
    /\ data' = data
    /\ file'[name] = file[with]
    /\ \A n \in Name : n # name /\ n # with => file'[n] = file[n]

LEMMA ReplacingMoves ==
    ASSUME TypeOK, NamesAreApart, NEW p \in Process, NEW from, NEW name \in Name,
           NEW with \in Name, with # name, NEW to, Replace(p, from, name, with, to)
    PROVE  NamesAreApart' /\ contexts' = contexts /\ file[with] # 0 /\ Takes(name, with)
<1>1. /\ file' = [file EXCEPT ![name] = file[with], ![with] = 0]
      /\ data' = data /\ contexts' = contexts /\ file[with] # 0
    BY DEF Replace, Present
<1>2. /\ file'[name] = file[with] /\ file'[with] = 0
      /\ \A n \in Name : n # name /\ n # with => file'[n] = file[n]
    BY <1>1 DEF TypeOK
<1>3. ASSUME NEW m \in Name, NEW n \in Name, file'[m] # 0, file'[m] = file'[n]
      PROVE  m = n
    <2>1. \A k \in Name : file[k] # 0 => \A j \in Name : file[k] = file[j] => k = j
        BY DEF NamesAreApart, Present
    <2>2. m # with /\ n # with
        BY <1>2, <1>3
    <2>3. CASE m = name \/ n = name
        BY <1>1, <1>2, <1>3, <2>1, <2>2, <2>3
    <2>4. CASE m # name /\ n # name
        BY <1>2, <1>3, <2>1, <2>2, <2>4
    <2> QED
        BY <2>3, <2>4
<1>4. NamesAreApart'
    BY <1>3 DEF NamesAreApart, Present
<1> QED
    BY <1>1, <1>2, <1>4 DEF Takes

-----------------------------------------------------------------------------
(* One lemma for each kind of step, under the same assumptions.            *)
LEMMA QuietStep ==
    ASSUME TypeOK, ProfileInv, SessionsDoNotOverlap, SessionsDoNotOverlap', NEW p \in Process,
           UNCHANGED <<file, data, contexts>>,
           NEW l, pc' = [pc EXCEPT ![p] = l], pc[p] # "closed" \/ l # "closed", Knows(p)'
    PROVE  ProfileInv'
<1>1. KeepsProfile /\ NamesAreApart'
    BY QuietKeeps DEF ProfileInv
<1> QED
    BY <1>1, ProfileIsKept, OthersAreClosed DEF ProfileInv

LEMMA OpeningStep ==
    ASSUME TypeOK, TypeOK', ProfileInv, SessionsDoNotOverlap, SessionsDoNotOverlap',
           NEW p \in Process, NEW id \in 0..(Len(contexts) + 1), NEW jar \in 0..Len(contexts),
           NEW created \in Time, Opened(p, id, jar, created), UNCHANGED disk,
           pc[p] # "closed",
           \/ /\ id = NewIdentity
              /\ Present("metadata") => contexts[Held("metadata")].id = NoIdentity
           \/ /\ Present("metadata") /\ Present("cookies") /\ jar = Held("cookies")
              /\ id = contexts[Held("metadata")].id /\ id # NoIdentity
              /\ created = contexts[Held("metadata")].created
    PROVE  ProfileInv'
<1> DEFINE n == Len(contexts)
           M == Held("metadata")
<1>1. /\ Len(contexts') = n + 1 /\ n \in Nat
      /\ contexts'[n + 1] = [id |-> id, jar |-> jar, created |-> created]
      /\ \A s \in 1..n : contexts'[s] = contexts[s]
    BY OneSessionIsOpened, SizesAreNumbers DEF Session
<1>2. /\ Present("metadata") => M \in 1..n
      /\ Present("cookies") => Held("cookies") \in 1..n
    BY SizesAreNumbers DEF ProfileInv, ProfileIsFilled, Name
<1>3. /\ file' = file /\ data' = data
      /\ \A m : Present(m)' = Present(m) /\ Held(m)' = Held(m)
    BY DEF disk, Present, Held
<1>4. NamesAreApart' /\ ProfileIsFilled'
    BY <1>3 DEF ProfileInv, NamesAreApart, ProfileIsFilled, Present
<1>5. \A s \in 1..n : /\ contexts[s].id <= s /\ contexts[s].id \in 0..n
                      /\ contexts[s].id = NoIdentity => s = 1
    BY SizesAreNumbers DEF ProfileInv, IdentitiesAreFresh, Session, Context
<1>6. contexts'[n + 1].id <= n + 1 /\ contexts'[n + 1].id # NoIdentity
    BY <1>1, <1>2, <1>5 DEF NewIdentity, NoIdentity
<1>7. IdentitiesAreFresh'
    BY <1>1, <1>5, <1>6 DEF IdentitiesAreFresh, Session
<1>8. \A r \in 1..n : contexts'[r].id = id => /\ contexts[r].id = id
                                             /\ id # NewIdentity
    BY <1>1, <1>5 DEF NewIdentity
<1>9. ASSUME NEW r \in 1..n, contexts[r].id = id
      PROVE  contexts[r].created = created
    <2>1. M \in 1..n /\ id = contexts[M].id /\ created = contexts[M].created
        BY <1>1, <1>2, <1>8, <1>9
    <2>2. contexts[r].created = contexts[M].created
        <3>1. r < M \/ r = M \/ M < r
            BY <1>1, <2>1
        <3>2. \A s, t \in 1..n : t < s /\ contexts[t].id = contexts[s].id =>
                 contexts[t].created = contexts[s].created
            BY <1>1 DEF ProfileInv, CohortIsOneProfile, Session
        <3> QED
            BY <1>9, <2>1, <3>1, <3>2
    <2> QED
        BY <2>1, <2>2
<1>10. id # NewIdentity /\ jar # 0 => contexts[jar].id \in {id, NoIdentity} /\ jar \in 1..n
    BY <1>1, <1>2 DEF ProfileInv, JarIsOfTheProfile, GoesOnAs
<1>11. CohortIsOneProfile'
    <2>1. \A s \in 1..n : \A r \in 1..(s - 1) : contexts'[r].id = contexts'[s].id =>
             /\ contexts'[r].created = contexts'[s].created
             /\ contexts'[s].jar # 0 =>
                   contexts'[contexts'[s].jar].id \in {contexts'[s].id, NoIdentity}
        <3> SUFFICES ASSUME NEW s \in 1..n, NEW r \in 1..(s - 1), contexts[r].id = contexts[s].id
                     PROVE  /\ contexts[r].created = contexts[s].created
                            /\ contexts[s].jar # 0 =>
                                 contexts'[contexts[s].jar].id \in {contexts[s].id, NoIdentity}
            BY <1>1
        <3>1. /\ contexts[r].created = contexts[s].created
              /\ contexts[s].jar # 0 =>
                   contexts[contexts[s].jar].id \in {contexts[s].id, NoIdentity}
            BY DEF ProfileInv, CohortIsOneProfile, Session
        <3>2. contexts[s].jar \in 0..n /\ contexts[s].jar < s
            BY <1>1, SizesAreNumbers DEF TypeOK, Session, Context
        <3> QED
            BY <1>1, <3>1, <3>2
    <2>2. \A r \in 1..n : contexts'[r].id = contexts'[n + 1].id =>
             /\ contexts'[r].created = contexts'[n + 1].created
             /\ contexts'[n + 1].jar # 0 =>
                   contexts'[contexts'[n + 1].jar].id \in {contexts'[n + 1].id, NoIdentity}
        BY <1>1, <1>8, <1>9, <1>10
    <2>3. \A s \in 1..(n + 1) : \A r \in 1..(s - 1) : contexts'[r].id = contexts'[s].id =>
             /\ contexts'[r].created = contexts'[s].created
             /\ contexts'[s].jar # 0 =>
                   contexts'[contexts'[s].jar].id \in {contexts'[s].id, NoIdentity}
        BY <1>1, <2>1, <2>2
    <2> HIDE DEF n
    <2> QED
        BY <1>1, <2>3 DEF CohortIsOneProfile, Session
<1>12. JarIsOfTheProfile'
    BY <1>1, <1>2, <1>3 DEF ProfileInv, JarIsOfTheProfile, GoesOnAs
<1>13. ASSUME NEW s, s = n + 1 PROVE GoesOnAs(s)'
    BY <1>1, <1>2, <1>3, <1>13 DEF GoesOnAs
<1>14. PICK s : s = n + 1
    OBVIOUS
<1>15. pc' = [pc EXCEPT ![p] = "open"] /\ session'[p] = s
    BY <1>14 DEF Opened, Goto, TypeOK
<1>16. Knows(p)'
    <2>1. pc'[p] = "open"
        BY <1>15 DEF TypeOK
    <2>2. GoesOnAs(s)'
        BY <1>13, <1>14
    <2>3. GoesOnAs(session[p])'
        BY <1>15, <2>2 DEF GoesOnAs
    <2> QED
        BY <2>1, <2>3 DEF Knows, Saving
<1> QED
    BY <1>4, <1>7, <1>11, <1>12, <1>15, <1>16, OthersAreClosed DEF ProfileInv

LEMMA LoadingStep ==
    ASSUME TypeOK, TypeOK', ProfileInv, SessionsDoNotOverlap, SessionsDoNotOverlap',
           NEW p \in Process,
           LookForProfile(p) \/ LookForCookies(p) \/ LookForMetadata(p)
             \/ ReadMetadata(p) \/ ReadCookies(p)
    PROVE  ProfileInv'
<1>1. pc \in [Process -> Place] /\ session \in [Process -> 0..Len(contexts)]
        /\ Len(contexts) \in Nat /\ Knows(p)
    BY SizesAreNumbers DEF TypeOK, Place, Loading, ProfileInv
<1>2. UNCHANGED disk /\ UNCHANGED <<file, data>>
    BY DEF LookForProfile, LookForCookies, LookForMetadata, ReadMetadata, ReadCookies, disk
<1>3. ~exists => ~Present("cookies") /\ ~Present("metadata")
    BY DEF TypeOK, Name
<1>4. CASE LookForProfile(p)
    <2>1. PICK l : l = IF exists THEN "expect_files" ELSE "expect_nothing"
        OBVIOUS
    <2>2. pc' = [pc EXCEPT ![p] = l] /\ contexts' = contexts /\ l # "closed"
        BY <1>4, <2>1 DEF LookForProfile, Goto
    <2>3. Knows(p)'
        BY <1>1, <1>2, <2>1, <2>2 DEF Knows, Saving, disk
    <2> QED
        BY <1>2, <2>2, <2>3, QuietStep
<1>5. CASE LookForCookies(p)
    <2>1. \/ pc[p] = "expect_files" /\ Goto(p, IF Present("cookies") THEN "load" ELSE "closed")
          \/ pc[p] = "expect_nothing" /\ Goto(p, IF Present("cookies") THEN "appeared" ELSE "absent")
        BY <1>5 DEF LookForCookies, At
    <2>2. PICK l : /\ pc' = [pc EXCEPT ![p] = l] /\ l \in {"load", "closed", "absent"}
                   /\ l = "absent" => ~exists
        BY <1>1, <1>3, <2>1 DEF Knows, Goto
    <2>3. pc[p] # "closed" /\ contexts' = contexts
        BY <1>5, <2>1 DEF LookForCookies
    <2>4. Knows(p)'
        BY <1>1, <1>2, <2>2 DEF Knows, Saving, disk
    <2> QED
        BY <1>2, <2>2, <2>3, <2>4, QuietStep
<1>6. CASE LookForMetadata(p)
    <2>1. pc[p] \in {"load", "absent"} /\ pc[p] # "closed"
        BY <1>1, <1>6 DEF LookForMetadata, Knows
    <2>2. CASE \E now \in Time : Opened(p, NewIdentity, 0, now)
        <3>1. PICK now \in Time : Opened(p, NewIdentity, 0, now)
            BY <2>2
        <3>2. ~Present("metadata")
            BY <1>1, <1>3, <1>6, <2>1, <3>1 DEF LookForMetadata, Knows, Opened, At, Goto
        <3>3. NewIdentity \in 0..(Len(contexts) + 1) /\ 0 \in 0..Len(contexts)
            BY <1>1 DEF NewIdentity
        <3> QED
            BY <1>2, <2>1, <3>1, <3>2, <3>3, OpeningStep
    <2>3. CASE UNCHANGED <<contexts, session>> /\ (Goto(p, "closed") \/ Goto(p, "read_metadata"))
        <3>1. PICK l : pc' = [pc EXCEPT ![p] = l] /\ l \in {"closed", "read_metadata"}
            BY <2>3 DEF Goto
        <3>2. Knows(p)'
            BY <1>1, <3>1 DEF Knows, Saving
        <3> QED
            BY <1>2, <2>1, <2>3, <3>1, <3>2, QuietStep
    <2> QED
        BY <1>6, <2>2, <2>3 DEF LookForMetadata
<1>7. CASE ReadMetadata(p)
    <2>1. pc[p] # "closed" /\ contexts' = contexts
        BY <1>7 DEF ReadMetadata, At
    <2>2. CASE Goto(p, "closed")
        <3>1. Knows(p)'
            BY <1>1, <2>2 DEF Knows, Saving, Goto
        <3> QED
            BY <1>2, <2>1, <2>2, <3>1, QuietStep DEF Goto
    <2>3. CASE /\ Present("metadata") /\ session' = [session EXCEPT ![p] = Held("metadata")]
               /\ Goto(p, "read_cookies")
        <3>1. Present("metadata")' /\ session'[p] = Held("metadata")'
            BY <1>1, <1>2, <2>3 DEF Present, Held
        <3>2. Knows(p)'
            BY <1>1, <2>3, <3>1 DEF Knows, Saving, Goto
        <3> QED
            BY <1>2, <2>1, <2>3, <3>2, QuietStep DEF Goto
    <2> QED
        BY <1>7, <2>2, <2>3 DEF ReadMetadata
<1>8. CASE ReadCookies(p)
    <2>1. /\ pc[p] = "read_cookies" /\ Present("metadata") /\ session[p] = Held("metadata")
          /\ session[p] \in 1..Len(contexts)
        BY <1>1, <1>8 DEF ReadCookies, At, Knows, TypeOK
    <2>2. CASE Goto(p, "closed") /\ UNCHANGED contexts
        <3>1. Knows(p)'
            BY <1>1, <2>2 DEF Knows, Saving, Goto
        <3> QED
            BY <1>2, <2>1, <2>2, <3>1, QuietStep DEF Goto
    <2>3. CASE Present("cookies") /\ Held("cookies") # 0
        <3> DEFINE saved == contexts[Held("metadata")]
                   id == IF saved.id # NoIdentity THEN saved.id ELSE NewIdentity
        <3>1. Opened(p, id, Held("cookies"), saved.created)
            BY <1>8, <2>1, <2>3 DEF ReadCookies
        <3>2. Held("cookies") \in 0..Len(contexts)
            BY <2>3, SizesAreNumbers DEF Name
        <3>3. saved \in Context(Len(contexts))
            BY <2>1, SizesAreNumbers DEF Session
        <3>4. id \in 0..(Len(contexts) + 1) /\ saved.created \in Time
            BY <1>1, <3>3 DEF Context, NewIdentity
        <3>5. \/ id = NewIdentity /\ saved.id = NoIdentity
              \/ id = saved.id /\ id # NoIdentity
            OBVIOUS
        <3> HIDE DEF id
        <3> QED
            BY <1>2, <2>1, <2>3, <3>1, <3>2, <3>4, <3>5, OpeningStep
    <2> QED
        BY <1>8, <2>2, <2>3 DEF ReadCookies
<1> QED
    BY <1>4, <1>5, <1>6, <1>7, <1>8

LEMMA SavingStep ==
    ASSUME TypeOK, ProfileInv, SessionsDoNotOverlap, SessionsDoNotOverlap', NEW p \in Process,
           \/ MakeDirectory(p) \/ OpenCookies(p) \/ WriteCookies(p)
           \/ OpenMetadata(p) \/ WriteMetadata(p)
           \/ ReplaceCookies(p) \/ ReplaceMetadata(p) \/ SaveFails(p) \/ Kill(p)
    PROVE  ProfileInv'
<1>1. pc \in [Process -> Place] /\ session \in [Process -> 0..Len(contexts)]
        /\ Knows(p) /\ NamesAreApart
        /\ (pc[p] \in Saving => session[p] \in Session)
    BY SizesAreNumbers DEF TypeOK, Place, Loading, ProfileInv, Session
<1>2. CASE MakeDirectory(p)
    <2>1. /\ pc[p] = "open" /\ pc' = [pc EXCEPT ![p] = "open_cookies"]
          /\ UNCHANGED <<file, data, contexts, session>>
        BY <1>2 DEF MakeDirectory, At, Goto
    <2>2. Knows(p)'
        BY <1>1, <2>1 DEF Knows, Saving, GoesOnAs, Present, Held
    <2> QED
        BY <2>1, <2>2, QuietStep
<1>3. CASE OpenCookies(p)
    <2>1. /\ pc[p] = "open_cookies" /\ pc' = [pc EXCEPT ![p] = "write_cookies"]
          /\ contexts' = contexts /\ session' = session
        BY <1>3 DEF OpenCookies, Truncate, At, Goto
    <2>2. /\ KeepsProfile /\ NamesAreApart' /\ Present("cookies.tmp")'
          /\ target'[p] = file'["cookies.tmp"]
        BY <1>1, <1>3, TruncatingKeeps DEF OpenCookies, Temporary
    <2>3. GoesOnAs(session[p])'
        BY <1>1, <2>1, <2>2, ProfileIsKept DEF Knows, Saving, GoesOnAs
    <2>4. Knows(p)'
        BY <1>1, <2>1, <2>2, <2>3 DEF Knows, Saving
    <2> QED
        BY <2>1, <2>2, <2>4, ProfileIsKept, OthersAreClosed DEF ProfileInv
<1>4. CASE WriteCookies(p)
    <2>1. /\ pc[p] = "write_cookies" /\ pc' = [pc EXCEPT ![p] = "open_metadata"]
          /\ contexts' = contexts /\ session' = session
        BY <1>4 DEF WriteCookies, Fill, At, Goto
    <2>2. Present("cookies.tmp") /\ target[p] = file["cookies.tmp"]
        BY <1>1, <2>1 DEF Knows
    <2>3. /\ KeepsProfile /\ NamesAreApart' /\ Present("cookies.tmp")'
          /\ Held("cookies.tmp")' = session[p]
        BY <1>1, <1>4, <2>2, FillingKeeps DEF WriteCookies, Temporary
    <2>4. GoesOnAs(session[p])'
        BY <1>1, <2>1, <2>3, ProfileIsKept DEF Knows, Saving, GoesOnAs
    <2>5. Knows(p)'
        BY <1>1, <2>1, <2>3, <2>4 DEF Knows, Saving
    <2> QED
        BY <2>1, <2>3, <2>5, ProfileIsKept, OthersAreClosed DEF ProfileInv
<1>5. CASE OpenMetadata(p)
    <2>1. /\ pc[p] = "open_metadata" /\ pc' = [pc EXCEPT ![p] = "write_metadata"]
          /\ contexts' = contexts /\ session' = session
        BY <1>5 DEF OpenMetadata, Truncate, At, Goto
    <2>2. /\ KeepsProfile /\ NamesAreApart' /\ Present("metadata.tmp")'
          /\ target'[p] = file'["metadata.tmp"]
          /\ \A n \in Name \ {"metadata.tmp"} : Present(n) => Present(n)' /\ Held(n)' = Held(n)
        BY <1>1, <1>5, TruncatingKeeps DEF OpenMetadata, Temporary
    <2>3. Present("cookies.tmp") /\ Held("cookies.tmp") = session[p]
        BY <1>1, <2>1 DEF Knows
    <2>4. Present("cookies.tmp")' /\ Held("cookies.tmp")' = session[p]
        BY <2>2, <2>3 DEF Name
    <2>5. GoesOnAs(session[p])'
        BY <1>1, <2>1, <2>2, ProfileIsKept DEF Knows, Saving, GoesOnAs
    <2>6. Knows(p)'
        BY <1>1, <2>1, <2>2, <2>4, <2>5 DEF Knows, Saving
    <2> QED
        BY <2>1, <2>2, <2>6, ProfileIsKept, OthersAreClosed DEF ProfileInv
<1>6. CASE WriteMetadata(p)
    <2>1. /\ pc[p] = "write_metadata" /\ pc' = [pc EXCEPT ![p] = "replace_cookies"]
          /\ contexts' = contexts /\ session' = session
        BY <1>6 DEF WriteMetadata, Fill, At, Goto
    <2>2. /\ Present("metadata.tmp") /\ target[p] = file["metadata.tmp"]
          /\ Present("cookies.tmp") /\ Held("cookies.tmp") = session[p]
        BY <1>1, <2>1 DEF Knows
    <2>3. /\ KeepsProfile /\ NamesAreApart' /\ Present("metadata.tmp")'
          /\ Held("metadata.tmp")' = session[p]
          /\ \A n \in Name \ {"metadata.tmp"} : Present(n) => Present(n)' /\ Held(n)' = Held(n)
        BY <1>1, <1>6, <2>2, FillingKeeps DEF WriteMetadata, Temporary
    <2>4. Present("cookies.tmp")' /\ Held("cookies.tmp")' = session[p]
        BY <2>2, <2>3 DEF Name
    <2>5. GoesOnAs(session[p])'
        BY <1>1, <2>1, <2>3, ProfileIsKept DEF Knows, Saving, GoesOnAs
    <2>6. Knows(p)'
        BY <1>1, <2>1, <2>3, <2>4, <2>5 DEF Knows, Saving
    <2> QED
        BY <2>1, <2>3, <2>6, ProfileIsKept, OthersAreClosed DEF ProfileInv
<1>7. CASE ReplaceCookies(p)
    <2>1. /\ pc[p] = "replace_cookies" /\ pc' = [pc EXCEPT ![p] = "replace_metadata"]
          /\ session' = session /\ session[p] \in Session /\ session[p] # 0
        BY <1>1, <1>7 DEF ReplaceCookies, Replace, At, Goto, TypeOK, Saving
    <2>2. /\ Present("metadata.tmp") /\ Held("metadata.tmp") = session[p]
          /\ Held("cookies.tmp") = session[p] /\ GoesOnAs(session[p])
        BY <1>1, <2>1 DEF Knows, Saving
    <2>3. /\ NamesAreApart' /\ contexts' = contexts
          /\ Present("cookies")' /\ Held("cookies")' = session[p]
          /\ \A n \in {"metadata", "metadata.tmp"} :
               (Present(n)' <=> Present(n)) /\ (Present(n) => Held(n)' = Held(n))
        <3>1. Replace(p, "replace_cookies", "cookies", "cookies.tmp", "replace_metadata")
            BY <1>7 DEF ReplaceCookies
        <3>2. "cookies" \in Name /\ "cookies.tmp" \in Name /\ "cookies.tmp" # "cookies"
                /\ {"metadata", "metadata.tmp"} \subseteq Name
            BY DEF Name
        <3>3. NamesAreApart' /\ contexts' = contexts /\ file["cookies.tmp"] # 0 /\ Takes("cookies", "cookies.tmp")
            BY <1>1, <3>1, <3>2, ReplacingMoves
        <3> QED
            BY <2>2, <3>2, <3>3 DEF Takes, Present, Held
    <2>4. PICK s \in Session : s = session[p] /\ s = session'[p]
        BY <2>1
    <2>5. GoesOnAs(s)'
        BY <2>2, <2>3, <2>4 DEF GoesOnAs
    <2>6. JarIsOfTheProfile' /\ GoesOnAs(session[p])'
        BY <2>3, <2>4, <2>5 DEF JarIsOfTheProfile, GoesOnAs
    <2>7. ProfileIsFilled'
        BY <2>1, <2>3 DEF ProfileInv, ProfileIsFilled
    <2>8. IdentitiesAreFresh' /\ CohortIsOneProfile'
        BY <2>3 DEF ProfileInv, IdentitiesAreFresh, CohortIsOneProfile, Session
    <2>9. Knows(p)'
        BY <1>1, <2>1, <2>2, <2>3, <2>6 DEF Knows, Saving
    <2> QED
        BY <2>1, <2>3, <2>6, <2>7, <2>8, <2>9, OthersAreClosed DEF ProfileInv
<1>8. CASE ReplaceMetadata(p)
    <2>1. /\ pc[p] = "replace_metadata" /\ pc' = [pc EXCEPT ![p] = "closed"]
          /\ session[p] # 0
        BY <1>1, <1>8 DEF ReplaceMetadata, Replace, At, Goto, TypeOK, Saving
    <2>2. /\ Held("metadata.tmp") = session[p]
          /\ Present("cookies") /\ Held("cookies") = session[p]
        BY <1>1, <2>1 DEF Knows
    <2>3. /\ NamesAreApart' /\ contexts' = contexts
          /\ Present("metadata")' /\ Held("metadata")' = session[p]
          /\ Present("cookies")' /\ Held("cookies")' = session[p]
        <3>1. Replace(p, "replace_metadata", "metadata", "metadata.tmp", "closed")
            BY <1>8 DEF ReplaceMetadata
        <3>2. "metadata" \in Name /\ "metadata.tmp" \in Name /\ "metadata.tmp" # "metadata"
                /\ "cookies" \in Name
            BY DEF Name
        <3>3. NamesAreApart' /\ contexts' = contexts /\ file["metadata.tmp"] # 0 /\ Takes("metadata", "metadata.tmp")
            BY <1>1, <3>1, <3>2, ReplacingMoves
        <3> QED
            BY <2>2, <3>2, <3>3 DEF Takes, Present, Held
    <2>4. ProfileIsFilled' /\ JarIsOfTheProfile'
        BY <2>1, <2>3 DEF ProfileIsFilled, JarIsOfTheProfile, GoesOnAs
    <2>5. IdentitiesAreFresh' /\ CohortIsOneProfile'
        BY <2>3 DEF ProfileInv, IdentitiesAreFresh, CohortIsOneProfile, Session
    <2>6. Knows(p)'
        BY <1>1, <2>1 DEF Knows, Saving
    <2> QED
        BY <2>1, <2>3, <2>4, <2>5, <2>6, OthersAreClosed DEF ProfileInv
<1>9. CASE SaveFails(p)
    <2>1. /\ pc[p] # "closed" /\ pc' = [pc EXCEPT ![p] = "closed"]
          /\ \A n \in Name : file'[n] = IF n \in Temporary THEN 0 ELSE file[n]
          /\ data' = data /\ contexts' = contexts
        BY <1>9 DEF SaveFails, Goto, Saving
    <2>2. KeepsProfile
        BY <2>1 DEF KeepsProfile, Present, Held, Name, Temporary
    <2>3. NamesAreApart'
        BY <1>1, <2>1 DEF NamesAreApart, Present
    <2>4. Knows(p)'
        BY <1>1, <2>1 DEF Knows, Saving
    <2> QED
        BY <2>1, <2>2, <2>3, <2>4, ProfileIsKept, OthersAreClosed DEF ProfileInv
<1>10. CASE Kill(p)
    <2>1. /\ pc[p] # "closed" /\ pc' = [pc EXCEPT ![p] = "closed"]
          /\ UNCHANGED <<file, data, contexts>>
        BY <1>10 DEF Kill, Goto, At, disk
    <2>2. Knows(p)'
        BY <1>1, <2>1 DEF Knows, Saving
    <2> QED
        BY <2>1, <2>2, QuietStep
<1> QED
    BY <1>2, <1>3, <1>4, <1>5, <1>6, <1>7, <1>8, <1>9, <1>10

LEMMA ResetStep ==
    ASSUME TypeOK, ProfileInv, Reset
    PROVE  ProfileInv'
<1>1. /\ \A n \in Name : file'[n] = 0
      /\ UNCHANGED <<contexts, pc>>
      /\ \A p \in Process : pc[p] = "closed"
    BY DEF Reset, At
<1>2. NamesAreApart' /\ ProfileIsFilled' /\ JarIsOfTheProfile'
    BY <1>1 DEF NamesAreApart, ProfileIsFilled, JarIsOfTheProfile, Present, Name
<1>3. IdentitiesAreFresh' /\ CohortIsOneProfile'
    BY <1>1 DEF ProfileInv, IdentitiesAreFresh, CohortIsOneProfile, Session
<1>4. \A p \in Process : Knows(p)'
    BY <1>1 DEF Knows, Saving
<1> QED
    BY <1>2, <1>3, <1>4 DEF ProfileInv

LEMMA ProfileInitially == Init => ProfileInv
<1> SUFFICES ASSUME Init PROVE ProfileInv
    OBVIOUS
<1>1. \A p \in Process : Knows(p)
    BY DEF Init, Knows, Saving
<1>2. CASE file = [n \in Name |-> 0] /\ contexts = <<>>
    <2>1. \A n \in Name : file[n] = 0
        BY <1>2
    <2>2. Session = {}
        BY <1>2 DEF Session
    <2> QED
        BY <1>1, <2>1, <2>2 DEF ProfileInv, NamesAreApart, ProfileIsFilled, Present, Name,
            IdentitiesAreFresh, CohortIsOneProfile, JarIsOfTheProfile
<1>3. CASE /\ data = <<1, 1>> /\ contexts = <<Legacy>>
           /\ file = [n \in Name |-> IF n = "cookies" THEN 1
                                     ELSE IF n = "metadata" THEN 2 ELSE 0]
    <2>1. /\ Session = {1} /\ contexts[1].id = NoIdentity /\ contexts[1].jar = 0
        BY <1>3 DEF Session, Legacy
    <2>2. /\ file["cookies"] = 1 /\ file["metadata"] = 2 /\ data[1] = 1 /\ data[2] = 1
          /\ \A n \in Name \ {"cookies", "metadata"} : file[n] = 0
        BY <1>3 DEF Name
    <2>3. NamesAreApart /\ ProfileIsFilled
        BY <2>2 DEF NamesAreApart, ProfileIsFilled, Present, Held
    <2>4. IdentitiesAreFresh /\ CohortIsOneProfile
        BY <2>1 DEF IdentitiesAreFresh, CohortIsOneProfile, NoIdentity
    <2>5. JarIsOfTheProfile
        BY <2>1, <2>2 DEF JarIsOfTheProfile, GoesOnAs, Held
    <2> QED
        BY <1>1, <2>3, <2>4, <2>5 DEF ProfileInv
<1> QED
    BY <1>2, <1>3 DEF Init

LEMMA ProfileStep ==
    TypeOK /\ ProfileInv /\ SessionsDoNotOverlap /\ SessionsDoNotOverlap' /\ [Next]_vars
        => ProfileInv'
<1> SUFFICES ASSUME TypeOK, ProfileInv, SessionsDoNotOverlap, SessionsDoNotOverlap', [Next]_vars
             PROVE  ProfileInv'
    OBVIOUS
<1>1. TypeOK'
    BY StepTypes
<1>2. ASSUME NEW p \in Process,
             \/ LookForProfile(p) \/ LookForCookies(p) \/ LookForMetadata(p)
             \/ ReadMetadata(p) \/ ReadCookies(p)
      PROVE  ProfileInv'
    BY <1>1, <1>2, LoadingStep
<1>3. ASSUME NEW p \in Process,
             \/ MakeDirectory(p) \/ OpenCookies(p) \/ WriteCookies(p)
             \/ OpenMetadata(p) \/ WriteMetadata(p)
             \/ ReplaceCookies(p) \/ ReplaceMetadata(p) \/ SaveFails(p) \/ Kill(p)
      PROVE  ProfileInv'
    BY <1>3, SavingStep
<1>4. CASE Reset
    BY <1>4, ResetStep
<1>5. CASE UNCHANGED vars
    <2>1. KeepsProfile /\ NamesAreApart'
        BY <1>5, QuietKeeps DEF vars, disk, ProfileInv
    <2>2. \A p \in Process : Knows(p)'
        BY <1>5 DEF vars, disk, ProfileInv, Knows, GoesOnAs, Present, Held
    <2> QED
        BY <2>1, <2>2, ProfileIsKept DEF ProfileInv
<1> QED
    BY <1>2, <1>3, <1>4, <1>5 DEF Next
-----------------------------------------------------------------------------
LEMMA ProfileInvHolds == Spec /\ []SessionsDoNotOverlap => []ProfileInv
BY ProfileInitially, ProfileStep, SessionTypesHold, PTL DEF Spec

(* YandexSessionProbeContextBuilder, _load and _persist: one identity is   *)
(* one profile, with one age and its own cookies, if sessions follow one   *)
(* another; any process may open the next.                                 *)
THEOREM CohortsAreOneProfile ==
    Spec /\ []SessionsDoNotOverlap => []CohortIsOneProfile
<1>1. ProfileInv => CohortIsOneProfile
    BY DEF ProfileInv
<1> QED
    BY <1>1, ProfileInvHolds, PTL

(* What can be opened can be opened after the step, with its identity.     *)
StaysUsable ==
    Usable => /\ Usable' \/ ~exists'
              /\ Usable' /\ Identity # NoIdentity => Identity' = Identity

LEMMA KeepingStep ==
    ASSUME TypeOK, ProfileInv, KeepsProfile
    PROVE  StaysUsable
BY DEF StaysUsable, KeepsProfile, Usable, Identity

LEMMA OpeningStaysUsable ==
    ASSUME TypeOK, NEW p \in Process, NEW id \in 0..(Len(contexts) + 1),
           NEW jar \in 0..Len(contexts), NEW created \in Time,
           Opened(p, id, jar, created), UNCHANGED disk
    PROVE  StaysUsable
<1>1. \A s \in Session : contexts'[s] = contexts[s]
    BY OneSessionIsOpened
<1>2. Usable => Held("metadata") \in Session
    BY SizesAreNumbers DEF Usable, Name, Session
<1>3. file' = file /\ data' = data
    BY DEF disk
<1> QED
    BY <1>1, <1>2, <1>3 DEF StaysUsable, Usable, Identity, Present, Held

LEMMA LoadingStaysUsable ==
    ASSUME TypeOK, ProfileInv, NEW p \in Process,
           LookForProfile(p) \/ LookForCookies(p) \/ LookForMetadata(p)
             \/ ReadMetadata(p) \/ ReadCookies(p)
    PROVE  StaysUsable
<1>1. UNCHANGED disk
    BY DEF LookForProfile, LookForCookies, LookForMetadata, ReadMetadata, ReadCookies
<1>2. CASE UNCHANGED contexts
    <2>1. KeepsProfile
        BY <1>1, <1>2, QuietKeeps DEF disk, ProfileInv
    <2> QED
        BY <2>1, KeepingStep
<1>3. CASE LookForMetadata(p) /\ contexts' # contexts
    <2>1. PICK now \in Time : Opened(p, NewIdentity, 0, now)
        BY <1>3 DEF LookForMetadata
    <2>2. NewIdentity \in 0..(Len(contexts) + 1) /\ 0 \in 0..Len(contexts)
        BY SizesAreNumbers DEF NewIdentity
    <2> QED
        BY <1>1, <2>1, <2>2, OpeningStaysUsable
<1>4. CASE ReadCookies(p) /\ contexts' # contexts
    <2> DEFINE saved == contexts[session[p]]
               id == IF saved.id # NoIdentity THEN saved.id ELSE NewIdentity
    <2>1. /\ Opened(p, id, Held("cookies"), saved.created) /\ Present("cookies")
          /\ pc[p] = "read_cookies"
        BY <1>4 DEF ReadCookies, At
    <2>2. session[p] \in Session /\ Len(contexts) \in Nat
        BY <2>1, SizesAreNumbers DEF TypeOK, Session
    <2>3. Held("cookies") \in 0..Len(contexts)
        BY <2>1, SizesAreNumbers DEF Name
    <2>4. id \in 0..(Len(contexts) + 1) /\ saved.created \in Time
        BY <2>2, SizesAreNumbers DEF Context, NewIdentity
    <2> HIDE DEF id, saved
    <2> QED
        BY <1>1, <2>1, <2>3, <2>4, OpeningStaysUsable
<1> QED
    BY <1>2, <1>3, <1>4 DEF LookForProfile, LookForCookies, ReadMetadata

LEMMA SavingStaysUsable ==
    ASSUME TypeOK, ProfileInv, NEW p \in Process,
           \/ MakeDirectory(p) \/ OpenCookies(p) \/ WriteCookies(p)
           \/ OpenMetadata(p) \/ WriteMetadata(p)
           \/ ReplaceCookies(p) \/ ReplaceMetadata(p) \/ SaveFails(p) \/ Kill(p)
    PROVE  StaysUsable
<1>1. Knows(p) /\ NamesAreApart
    BY DEF ProfileInv
<1>2. CASE MakeDirectory(p) \/ Kill(p)
    <2>1. KeepsProfile
        BY <1>1, <1>2, QuietKeeps DEF MakeDirectory, Kill, disk
    <2> QED
        BY <2>1, KeepingStep
<1>3. CASE OpenCookies(p) \/ OpenMetadata(p)
    <2>1. KeepsProfile
        BY <1>1, <1>3, TruncatingKeeps DEF OpenCookies, OpenMetadata, Temporary
    <2> QED
        BY <2>1, KeepingStep
<1>4. CASE WriteCookies(p)
    <2>1. Present("cookies.tmp") /\ target[p] = file["cookies.tmp"]
        BY <1>1, <1>4 DEF Knows, WriteCookies, Fill, At
    <2>2. KeepsProfile
        BY <1>1, <1>4, <2>1, FillingKeeps DEF WriteCookies, Temporary
    <2> QED
        BY <2>2, KeepingStep
<1>5. CASE WriteMetadata(p)
    <2>1. Present("metadata.tmp") /\ target[p] = file["metadata.tmp"]
        BY <1>1, <1>5 DEF Knows, WriteMetadata, Fill, At
    <2>2. KeepsProfile
        BY <1>1, <1>5, <2>1, FillingKeeps DEF WriteMetadata, Temporary
    <2> QED
        BY <2>2, KeepingStep
<1>6. CASE ReplaceCookies(p)
    <2>1. pc[p] = "replace_cookies"
        BY <1>6 DEF ReplaceCookies, Replace, At
    <2>2. Held("cookies.tmp") = session[p] /\ session[p] # 0
        BY <1>1, <2>1 DEF Knows, TypeOK, Saving
    <2>3. /\ contexts' = contexts /\ data' = data
          /\ file'["cookies"] = file["cookies.tmp"] /\ file["cookies.tmp"] # 0
          /\ file'["metadata"] = file["metadata"]
        BY <1>6 DEF ReplaceCookies, Replace, Present, TypeOK, Name
    <2> QED
        BY <2>2, <2>3 DEF StaysUsable, Usable, Identity, Present, Held
<1>7. CASE ReplaceMetadata(p)
    <2>1. pc[p] = "replace_metadata"
        BY <1>7 DEF ReplaceMetadata, Replace, At
    <2>2. /\ Held("metadata.tmp") = session[p] /\ session[p] # 0
          /\ GoesOnAs(session[p])
        BY <1>1, <2>1 DEF Knows, TypeOK, Saving
    <2>3. /\ contexts' = contexts /\ data' = data
          /\ file'["metadata"] = file["metadata.tmp"] /\ file["metadata.tmp"] # 0
          /\ file'["cookies"] = file["cookies"]
        BY <1>7 DEF ReplaceMetadata, Replace, Present, TypeOK, Name
    <2> QED
        BY <2>2, <2>3 DEF StaysUsable, Usable, Identity, GoesOnAs, Present, Held
<1>8. CASE SaveFails(p)
    <2>1. /\ contexts' = contexts /\ data' = data
          /\ file'["metadata"] = file["metadata"] /\ file'["cookies"] = file["cookies"]
        BY <1>8 DEF SaveFails, Name, Temporary
    <2> QED
        BY <2>1 DEF StaysUsable, Usable, Identity, Present, Held
<1> QED
    BY <1>2, <1>3, <1>4, <1>5, <1>6, <1>7, <1>8

LEMMA StepStaysUsable == TypeOK /\ ProfileInv /\ [Next]_vars => StaysUsable
<1> SUFFICES ASSUME TypeOK, ProfileInv, [Next]_vars PROVE StaysUsable
    OBVIOUS
<1>1. CASE Reset
    BY <1>1 DEF Reset, StaysUsable, Usable, Present, Name
<1>2. CASE UNCHANGED vars
    BY <1>2 DEF vars, disk, StaysUsable, Usable, Identity, Present, Held
<1> QED
    BY <1>1, <1>2, LoadingStaysUsable, SavingStaysUsable DEF Next

(* os.replace is atomic, and what it puts in place was written whole: a    *)
(* profile that can be opened stays so whatever fails, until it is deleted.*)
THEOREM ProfilesStayUsable ==
    Spec /\ []SessionsDoNotOverlap => ProfileStaysUsable
<1>1. TypeOK /\ ProfileInv /\ [Next]_vars => [Usable => Usable' \/ ~exists']_vars
    BY StepStaysUsable DEF StaysUsable
<1> QED
    BY <1>1, ProfileInvHolds, SessionTypesHold, PTL DEF Spec, ProfileStaysUsable

(* The identity is carried from the metadata that was loaded to those that *)
(* are saved: only deleting the profile changes it.                        *)
THEOREM IdentitiesAreKept ==
    Spec /\ []SessionsDoNotOverlap => IdentityChangesOnlyByReset
<1>1. TypeOK /\ ProfileInv /\ [Next]_vars =>
         [Usable /\ Usable' /\ Identity # NoIdentity => Identity' = Identity]_vars
    BY StepStaysUsable DEF StaysUsable
<1> QED
    BY <1>1, ProfileInvHolds, SessionTypesHold, PTL DEF Spec, IdentityChangesOnlyByReset
=============================================================================
