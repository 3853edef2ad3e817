------------------------- MODULE SchemaDriftProofs -------------------------
(***************************************************************************)
(* Proofs about SchemaDriftRegistry, for any processes, scopes, bodies,    *)
(* times and resolution of the clock: an analysis is final and the only    *)
(* one of its contract, only sound evidence is interpreted, and a baseline *)
(* is the nearest one to the second, of all where the texts of the times   *)
(* sort as the times do. How a body is profiled is not looked into: the    *)
(* events are what Evaluate returns.                                       *)
(***************************************************************************)
EXTENDS SchemaDriftRegistry, SequenceTheorems, TLAPS

Snapshot(n) == [body : Body, at : Nat, scope : Scope, known : 0..n]
Place == {"idle", "look", "insert", "decide", "record_failure"}

(* Everything recorded is a row of a sequence that only grows.             *)
IsListed == analyses \in Seq({analyses[k] : k \in DOMAIN analyses})

OneAnalysisEach ==
    \A k, j \in DOMAIN analyses :
        analyses[k].snapshot = analyses[j].snapshot
          /\ analyses[k].contract = analyses[j].contract => k = j

(* Who collected a snapshot is alone with it, until it was interpreted or  *)
(* its failure recorded.                                                   *)
Collects(p, s) == call[p].fresh /\ call[p].snapshot = s
CollectorIsAlone ==
    /\ \A p, q \in Process : \A s \in DOMAIN raw : Collects(p, s) /\ Collects(q, s) => p = q
    /\ \A p \in Process : \A s \in DOMAIN raw : Collects(p, s) =>
          s \notin interpreted /\ Existing(s, Parser) = {}
    /\ \A p \in Process : pc[p] \in {"decide", "record_failure"} => call[p].fresh

EvidenceInv ==
    /\ TypeOK
    /\ IsListed
    /\ OneAnalysisEach
    /\ CollectorIsAlone
    /\ OnlySoundEvidenceIsInterpreted

(* Analysis b, or none, is the latest that could be known of snapshot s, in *)
(* the order of the stored texts, which is the one the query looks for.     *)
Precedes(i, s) == Comparable(i, s) /\ TextBefore(At(i), raw[s].at)
IsLatest(b, s) ==
    /\ b # 0 => b \in DOMAIN analyses /\ Precedes(b, s)
    /\ \A i \in 1..raw[s].known : Precedes(i, s) => b # 0 /\ ~TextBefore(At(b), At(i))

(* So is the baseline of an analysis that is stored.                       *)
TextPast(k) == {j \in Candidates(k) : TextBefore(At(j), At(k))}
Explains(k, j) ==
    /\ j \in TextPast(k) \cup {0}
    /\ ExplainedBy(k, j)
    /\ \A i \in TextPast(k) \cap Known(k) : j # 0 /\ ~TextBefore(At(j), At(i))

DriftIsExplained == \A k \in Observations : \E j : Explains(k, j)

BaselineInv ==
    /\ \A p \in Process : pc[p] = "insert" => IsLatest(base[p], call[p].snapshot)
    /\ DriftIsExplained

-----------------------------------------------------------------------------
LEMMA SizesAreNumbers ==
    ASSUME TypeOK, IsListed
    PROVE  /\ Len(raw) \in Nat /\ DOMAIN raw = 1..Len(raw)
           /\ Len(analyses) \in Nat /\ DOMAIN analyses = 1..Len(analyses)
           /\ \A s \in DOMAIN raw : raw[s] \in Snapshot(Len(analyses))
<1>1. raw \in Seq(Snapshot(Len(analyses)))
    BY DEF TypeOK, Snapshot
<1>2. Len(raw) \in Nat /\ DOMAIN raw = 1..Len(raw)
    BY <1>1, LenProperties
<1>3. \A s \in DOMAIN raw : raw[s] \in Snapshot(Len(analyses))
    BY <1>1, <1>2, ElementOfSeq
<1>4. Len(analyses) \in Nat /\ DOMAIN analyses = 1..Len(analyses)
    BY LenProperties DEF IsListed
<1> QED
    BY <1>2, <1>3, <1>4

(* An analysis is appended, nothing else changes in the tables. *)
Records(row) ==
    /\ analyses' = Append(analyses, row)
    /\ UNCHANGED <<raw, interpreted>>

(* What stays of all that is stored, whatever is added to it.              *)
StoresGrow ==
    /\ DOMAIN raw \subseteq DOMAIN raw' /\ \A s \in DOMAIN raw : raw'[s] = raw[s]
    /\ DOMAIN analyses \subseteq DOMAIN analyses'
    /\ \A k \in DOMAIN analyses : analyses'[k] = analyses[k]
    /\ Len(analyses') \in Nat /\ Len(analyses') >= Len(analyses)
    /\ DOMAIN analyses' = 1..Len(analyses')

LEMMA OneRowIsAdded ==
    ASSUME TypeOK, IsListed, NEW row, analyses' = Append(analyses, row)
    PROVE  /\ IsListed'
           /\ Len(analyses') = Len(analyses) + 1
           /\ DOMAIN analyses' = DOMAIN analyses \cup {Len(analyses) + 1}
           /\ Len(analyses) + 1 \notin DOMAIN analyses
           /\ analyses'[Len(analyses) + 1] = row
           /\ \A k \in DOMAIN analyses : analyses'[k] = analyses[k]
<1> DEFINE S == {analyses[k] : k \in DOMAIN analyses}
           T == S \cup {row}
           n == Len(analyses)
<1>1. n \in Nat /\ DOMAIN analyses = 1..n
    BY SizesAreNumbers
<1>2. analyses \in Seq(T) /\ row \in T
    BY SeqMonotonic DEF IsListed
<1> HIDE DEF T
<1>3. analyses' \in Seq(T) /\ Len(analyses') = n + 1
        /\ analyses'[n + 1] = row /\ \A k \in 1..n : analyses'[k] = analyses[k]
    BY <1>1, <1>2, AppendProperties
<1>4. DOMAIN analyses' = 1..(n + 1)
    BY <1>3, LenProperties
<1>5. T \subseteq {analyses'[k] : k \in DOMAIN analyses'}
    BY <1>1, <1>3, <1>4 DEF T
<1>6. IsListed'
    BY <1>3, <1>5, SeqMonotonic DEF IsListed
<1> QED
    BY <1>1, <1>3, <1>4, <1>6

LEMMA OneSnapshotIsAdded ==
    ASSUME TypeOK, IsListed, NEW row \in Snapshot(Len(analyses)), raw' = Append(raw, row)
    PROVE  /\ raw' \in Seq(Snapshot(Len(analyses)))
           /\ Len(raw') = Len(raw) + 1
           /\ DOMAIN raw' = DOMAIN raw \cup {Len(raw) + 1}
           /\ Len(raw) + 1 \notin DOMAIN raw
           /\ raw'[Len(raw) + 1] = row
           /\ \A s \in DOMAIN raw : raw'[s] = raw[s]
<1> DEFINE T == Snapshot(Len(analyses))
           n == Len(raw)
<1>1. n \in Nat /\ DOMAIN raw = 1..n
    BY SizesAreNumbers
<1>2. raw \in Seq(T) /\ row \in T
    BY DEF TypeOK, Snapshot
<1> HIDE DEF T
<1>3. raw' \in Seq(T) /\ Len(raw') = n + 1
        /\ raw'[n + 1] = row /\ \A s \in 1..n : raw'[s] = raw[s]
    BY <1>1, <1>2, AppendProperties
<1>4. DOMAIN raw' = 1..(n + 1)
    BY <1>3, LenProperties
<1> QED
    BY <1>1, <1>3, <1>4 DEF T

-----------------------------------------------------------------------------
(* A process that is at l has call c, and compares it with analysis b.     *)
Fits(l, c, b) ==
    /\ l \in Place /\ c \in [snapshot : 0..Len(raw), fresh : BOOLEAN] /\ b \in 0..Len(analyses)
    /\ l = "idle" <=> c = NoCall
    /\ l # "idle" => c.snapshot \in DOMAIN raw
    /\ l \in {"decide", "record_failure"} => Existing(c.snapshot, Contract) # {} /\ c.fresh

AllFit == \A p \in Process : Fits(pc[p], call[p], base[p])

StoresAreTyped ==
    /\ raw \in Seq(Snapshot(Len(analyses)))
    /\ \A k \in DOMAIN analyses :
         /\ analyses[k].snapshot \in DOMAIN raw
         /\ analyses[k].contract \in {Contract, Parser}
    /\ interpreted \subseteq DOMAIN raw

LEMMA TypesAreParts ==
    ASSUME EvidenceInv
    PROVE  StoresAreTyped /\ AllFit
<1>1. StoresAreTyped
    BY DEF EvidenceInv, TypeOK, StoresAreTyped, Snapshot
<1>2. AllFit
    BY DEF EvidenceInv, TypeOK, CollectorIsAlone, AllFit, Fits, Place
<1> QED
    BY <1>1, <1>2

LEMMA FitsGrows ==
    ASSUME TypeOK, StoresGrow, Len(raw) \in Nat, Len(raw') \in Nat, Len(raw') >= Len(raw),
           Len(analyses) \in Nat, NEW l, NEW c, NEW b, Fits(l, c, b)
    PROVE  Fits(l, c, b)'
<1>1. c \in [snapshot : 0..Len(raw'), fresh : BOOLEAN] /\ b \in 0..Len(analyses')
    BY DEF Fits, StoresGrow
<1>2. \A s : Existing(s, Contract) \subseteq Existing(s, Contract)'
    BY DEF Existing, StoresGrow
<1> QED
    BY <1>1, <1>2 DEF Fits, StoresGrow

(* One process moves: the others keep what they are at.                    *)
Moves(p, l, c, b) ==
    /\ pc' = [pc EXCEPT ![p] = l]
    /\ call' = [call EXCEPT ![p] = c]
    /\ base' = [base EXCEPT ![p] = b]

LEMMA MovingTypes ==
    ASSUME EvidenceInv, StoresGrow, Len(raw') \in Nat, Len(raw') >= Len(raw), StoresAreTyped',
           NEW p \in Process, NEW l, NEW c, NEW b, Moves(p, l, c, b), Fits(l, c, b)'
    PROVE  TypeOK' /\ AllFit'
<1>1. /\ TypeOK /\ Len(raw) \in Nat /\ Len(analyses) \in Nat
      /\ pc \in [Process -> Place]
      /\ call \in [Process -> [snapshot : 0..Len(raw), fresh : BOOLEAN]]
      /\ base \in [Process -> 0..Len(analyses)]
    BY SizesAreNumbers DEF EvidenceInv, TypeOK, Place
<1>2. /\ pc'[p] = l /\ call'[p] = c /\ base'[p] = b
      /\ \A q \in Process \ {p} : pc'[q] = pc[q] /\ call'[q] = call[q] /\ base'[q] = base[q]
    BY <1>1 DEF Moves
<1>3. ASSUME NEW q \in Process PROVE Fits(pc[q], call[q], base[q])'
    <2>1. CASE q = p
        BY <1>2, <2>1 DEF Fits
    <2>2. CASE q # p
        <3>1. PICK l1, c1, b1 : l1 = pc[q] /\ c1 = call[q] /\ b1 = base[q]
            OBVIOUS
        <3>2. Fits(l1, c1, b1)
            BY <3>1, TypesAreParts DEF AllFit
        <3>3. Fits(l1, c1, b1)'
            BY <1>1, <3>2, FitsGrows
        <3>4. pc'[q] = l1 /\ call'[q] = c1 /\ base'[q] = b1
            BY <1>2, <2>2, <3>1
        <3> QED
            BY <3>3, <3>4 DEF Fits
    <2> QED
        BY <2>1, <2>2
<1>4. AllFit'
    BY <1>3 DEF AllFit
<1>5. /\ pc' \in [Process -> Place]
      /\ call' \in [Process -> [snapshot : 0..Len(raw'), fresh : BOOLEAN]]
      /\ base' \in [Process -> 0..Len(analyses')]
    BY <1>3, <1>1 DEF Fits, Moves
<1>6. TypeOK'
    BY <1>4, <1>5 DEF StoresAreTyped, AllFit, Fits, TypeOK, Snapshot, Place
<1> QED
    BY <1>4, <1>6

(* The call a process goes on with, if it does not return, is its own.     *)
NobodyElseCollects == \A q \in Process : \A s : Collects(q, s)' => Collects(q, s)

LEMMA NoNewCollector ==
    ASSUME TypeOK, NEW p \in Process, NEW l, NEW c, NEW b, Moves(p, l, c, b),
           c = call[p] \/ ~c.fresh
    PROVE  NobodyElseCollects
<1>1. \A q \in Process : call'[q] = IF q = p THEN c ELSE call[q]
    BY DEF TypeOK, Moves
<1> QED
    BY <1>1 DEF NobodyElseCollects, Collects

LEMMA StayingGrows ==
    ASSUME EvidenceInv, UNCHANGED <<raw, analyses>>
    PROVE  StoresGrow /\ Len(raw') \in Nat /\ Len(raw') >= Len(raw)
BY SizesAreNumbers DEF EvidenceInv, StoresGrow

(* Nothing is recorded: a process looks, returns, goes on or is killed.    *)
LEMMA QuietStep ==
    ASSUME EvidenceInv, UNCHANGED <<raw, analyses, interpreted>>, NEW p \in Process,
           NEW l, NEW c, NEW b, Moves(p, l, c, b), Fits(l, c, b), c = call[p] \/ ~c.fresh
    PROVE  EvidenceInv'
<1>1. TypeOK /\ NobodyElseCollects /\ StoresGrow /\ Len(raw') \in Nat /\ Len(raw') >= Len(raw)
    BY NoNewCollector, StayingGrows DEF EvidenceInv
<1>2. StoresAreTyped' /\ Fits(l, c, b)'
    BY TypesAreParts DEF StoresAreTyped, Fits, Existing
<1>3. TypeOK' /\ AllFit'
    BY <1>1, <1>2, MovingTypes
<1>4. IsListed' /\ OneAnalysisEach' /\ OnlySoundEvidenceIsInterpreted'
    BY DEF EvidenceInv, IsListed, OneAnalysisEach, OnlySoundEvidenceIsInterpreted, Existing
<1>5. CollectorIsAlone'
    <2>1. \A p1, q \in Process : \A s \in DOMAIN raw' : Collects(p1, s)' /\ Collects(q, s)' => p1 = q
        BY <1>1 DEF EvidenceInv, CollectorIsAlone, NobodyElseCollects
    <2>2. \A p1 \in Process : \A s \in DOMAIN raw' : Collects(p1, s)' =>
             s \notin interpreted' /\ Existing(s, Parser)' = {}
        BY <1>1 DEF EvidenceInv, CollectorIsAlone, NobodyElseCollects, Existing
    <2>3. \A q \in Process : pc'[q] \in {"decide", "record_failure"} => call'[q].fresh
        BY <1>3 DEF AllFit, Fits
    <2> QED
        BY <2>1, <2>2, <2>3 DEF CollectorIsAlone
<1> QED
    BY <1>3, <1>4, <1>5 DEF EvidenceInv

(* An analysis is recorded that did not exist.                             *)
LEMMA RecordingGrows ==
    ASSUME EvidenceInv, raw' = raw, interpreted' = interpreted,
           NEW s \in DOMAIN raw, NEW contract \in {Contract, Parser}, NEW events,
           analyses' = Append(analyses, Analysis(s, contract, events)),
           Existing(s, contract) = {}
    PROVE  /\ StoresGrow /\ Len(raw') \in Nat /\ Len(raw') >= Len(raw)
           /\ StoresAreTyped' /\ IsListed' /\ OneAnalysisEach'
           /\ Existing(s, contract)' = {Len(analyses')}
           /\ \A r, con : r # s \/ con # contract => Existing(r, con)' = Existing(r, con)
<1> DEFINE row == Analysis(s, contract, events)
           n == Len(analyses)
<1>1. /\ row.snapshot = s /\ row.contract = contract
    BY DEF Analysis
<1>2. TypeOK /\ IsListed
    BY DEF EvidenceInv
<1> HIDE DEF row
<1>3. /\ IsListed' /\ Len(analyses') = n + 1
      /\ DOMAIN analyses' = DOMAIN analyses \cup {n + 1} /\ n + 1 \notin DOMAIN analyses
      /\ analyses'[n + 1] = row /\ \A k \in DOMAIN analyses : analyses'[k] = analyses[k]
    BY <1>2, OneRowIsAdded DEF row
<1>4. n \in Nat /\ DOMAIN analyses = 1..n /\ Len(raw) \in Nat
    BY <1>2, SizesAreNumbers
<1>5. StoresGrow
    BY <1>3, <1>4 DEF StoresGrow
<1>6. StoresAreTyped'
    <2>1. raw \in Seq(Snapshot(n)) /\ Snapshot(n) \subseteq Snapshot(n + 1)
        BY <1>4, TypesAreParts DEF StoresAreTyped, Snapshot
    <2>2. raw \in Seq(Snapshot(n + 1))
        BY <2>1, SeqMonotonic
    <2>3. raw' \in Seq(Snapshot(Len(analyses')))
        BY <1>3, <2>2
    <2>4. \A k \in DOMAIN analyses' : /\ analyses'[k].snapshot \in DOMAIN raw
                                      /\ analyses'[k].contract \in {Contract, Parser}
        BY <1>1, <1>3, TypesAreParts DEF StoresAreTyped
    <2> QED
        BY <2>3, <2>4, TypesAreParts DEF StoresAreTyped
<1>7. Existing(s, contract)' = {n + 1}
    BY <1>1, <1>3 DEF Existing
<1>8. \A r, con : r # s \/ con # contract => Existing(r, con)' = Existing(r, con)
    BY <1>1, <1>3 DEF Existing
<1>9. OneAnalysisEach'
    <2>1. \A k \in DOMAIN analyses : ~(analyses[k].snapshot = s /\ analyses[k].contract = contract)
        BY DEF Existing
    <2> QED
        BY <1>1, <1>3, <2>1 DEF EvidenceInv, OneAnalysisEach
<1> QED
    BY <1>3, <1>4, <1>5, <1>6, <1>7, <1>8, <1>9

(* Insert: the analysis of the contract. *)
LEMMA ContractStep ==
    ASSUME EvidenceInv, raw' = raw, interpreted' = interpreted,
           NEW s \in DOMAIN raw, NEW events, Existing(s, Contract) = {},
           analyses' = Append(analyses, Analysis(s, Contract, events)),
           NEW p \in Process, NEW l, NEW c, NEW b, Moves(p, l, c, b), Fits(l, c, b)',
           c = call[p] \/ ~c.fresh
    PROVE  EvidenceInv'
<1>1. /\ StoresGrow /\ Len(raw') \in Nat /\ Len(raw') >= Len(raw)
      /\ StoresAreTyped' /\ IsListed' /\ OneAnalysisEach'
      /\ \A r, con : r # s \/ con # Contract => Existing(r, con)' = Existing(r, con)
    BY RecordingGrows
<1>2. TypeOK' /\ AllFit' /\ NobodyElseCollects
    BY <1>1, MovingTypes, NoNewCollector DEF EvidenceInv
<1>3. \A r : Existing(r, Parser)' = Existing(r, Parser)
    BY <1>1 DEF Contract, Parser
<1>4. \A r : \A k \in Existing(r, Contract) : k \in Existing(r, Contract)' /\ analyses'[k] = analyses[k]
    BY <1>1 DEF Existing, StoresGrow
<1>5. OnlySoundEvidenceIsInterpreted'
    BY <1>3, <1>4 DEF EvidenceInv, OnlySoundEvidenceIsInterpreted
<1>6. CollectorIsAlone'
    BY <1>2, <1>3 DEF EvidenceInv, CollectorIsAlone, NobodyElseCollects, AllFit, Fits
<1> QED
    BY <1>1, <1>2, <1>5, <1>6 DEF EvidenceInv

(* A collector that ends its call leaves its snapshot without one.         *)
LEMMA NobodyCollectsAnyMore ==
    ASSUME EvidenceInv, NEW p \in Process, Moves(p, "idle", NoCall, 0),
           NEW s \in DOMAIN raw, Collects(p, s)
    PROVE  NobodyElseCollects /\ \A q \in Process : ~Collects(q, s)'
<1>1. NobodyElseCollects /\ ~NoCall.fresh
    BY NoNewCollector DEF EvidenceInv, NoCall
<1>2. ~Collects(p, s)'
    BY DEF Moves, EvidenceInv, TypeOK, Collects, NoCall
<1>3. \A q \in Process \ {p} : ~Collects(q, s)
    BY DEF EvidenceInv, CollectorIsAlone
<1> QED
    BY <1>1, <1>2, <1>3 DEF NobodyElseCollects

(* Decide: the response is handed on.                                      *)
LEMMA InterpretStep ==
    ASSUME EvidenceInv, UNCHANGED <<raw, analyses>>, NEW p \in Process,
           NEW s \in DOMAIN raw, Collects(p, s), interpreted' = interpreted \cup {s},
           \E k \in Existing(s, Contract) : ~Blocked(analyses[k].events),
           Moves(p, "idle", NoCall, 0)
    PROVE  EvidenceInv'
<1>1. /\ TypeOK /\ StoresGrow /\ Len(raw') \in Nat /\ Len(raw') >= Len(raw)
      /\ NobodyElseCollects /\ \A q \in Process : ~Collects(q, s)'
    BY StayingGrows, NobodyCollectsAnyMore DEF EvidenceInv
<1>2. StoresAreTyped'
    BY TypesAreParts DEF StoresAreTyped
<1>3. Fits("idle", NoCall, 0)'
    BY <1>1, SizesAreNumbers DEF EvidenceInv, Fits, NoCall, Place
<1>4. TypeOK' /\ AllFit'
    BY <1>1, <1>2, <1>3, MovingTypes
<1>5. IsListed' /\ OneAnalysisEach'
    BY DEF EvidenceInv, IsListed, OneAnalysisEach
<1>6. \A r, con : Existing(r, con)' = Existing(r, con)
    BY DEF Existing
<1>7. OnlySoundEvidenceIsInterpreted'
    BY <1>6 DEF EvidenceInv, CollectorIsAlone, OnlySoundEvidenceIsInterpreted
<1>8. CollectorIsAlone'
    BY <1>1, <1>4, <1>6 DEF EvidenceInv, CollectorIsAlone, NobodyElseCollects, AllFit, Fits
<1> QED
    BY <1>4, <1>5, <1>7, <1>8 DEF EvidenceInv

(* RecordFailure: the analysis of what could not be parsed.                *)
LEMMA FailureStep ==
    ASSUME EvidenceInv, raw' = raw, interpreted' = interpreted, NEW p \in Process,
           NEW s \in DOMAIN raw, Collects(p, s), NEW events,
           analyses' = Append(analyses, Analysis(s, Parser, events)),
           Moves(p, "idle", NoCall, 0)
    PROVE  EvidenceInv'
<1>1. Existing(s, Parser) = {} /\ s \notin interpreted
    BY DEF EvidenceInv, CollectorIsAlone
<1>2. /\ StoresGrow /\ Len(raw') \in Nat /\ Len(raw') >= Len(raw)
      /\ StoresAreTyped' /\ IsListed' /\ OneAnalysisEach'
      /\ \A r, con : r # s \/ con # Parser => Existing(r, con)' = Existing(r, con)
    BY <1>1, RecordingGrows
<1>3. NobodyElseCollects /\ \A q \in Process : ~Collects(q, s)'
    BY NobodyCollectsAnyMore
<1>4. Fits("idle", NoCall, 0)'
    BY <1>2 DEF Fits, NoCall, Place, StoresGrow
<1>5. TypeOK' /\ AllFit'
    BY <1>2, <1>4, MovingTypes
<1>6. \A r \in interpreted : /\ r # s /\ Existing(r, Parser)' = Existing(r, Parser)
                             /\ Existing(r, Contract)' = Existing(r, Contract)
                             /\ \A k \in Existing(r, Contract) : analyses'[k] = analyses[k]
    <2>1. \A r \in interpreted : r # s
        BY <1>1
    <2>2. \A r : Existing(r, Contract)' = Existing(r, Contract)
        BY <1>2 DEF Contract, Parser
    <2>3. \A r : \A k \in Existing(r, Contract) : analyses'[k] = analyses[k]
        BY <1>2 DEF StoresGrow, Existing
    <2> QED
        BY <1>2, <2>1, <2>2, <2>3
<1>7. OnlySoundEvidenceIsInterpreted'
    BY <1>6 DEF EvidenceInv, OnlySoundEvidenceIsInterpreted
<1>8. CollectorIsAlone'
    BY <1>2, <1>3, <1>5 DEF EvidenceInv, CollectorIsAlone, NobodyElseCollects, AllFit, Fits
<1> QED
    BY <1>2, <1>5, <1>7, <1>8 DEF EvidenceInv

(* Collect: a snapshot that nobody has observed.                           *)
LEMMA CollectStep ==
    ASSUME EvidenceInv, NEW p \in Process, NEW row \in Snapshot(Len(analyses)),
           raw' = Append(raw, row), UNCHANGED <<analyses, interpreted>>,
           NEW c, c = [snapshot |-> Len(raw) + 1, fresh |-> TRUE],
           Moves(p, "look", c, base[p])
    PROVE  EvidenceInv'
<1> DEFINE n == Len(raw)
<1>1. TypeOK /\ IsListed /\ n \in Nat /\ DOMAIN raw = 1..n /\ Len(analyses) \in Nat
        /\ DOMAIN analyses = 1..Len(analyses)
    BY SizesAreNumbers DEF EvidenceInv
<1>2. /\ raw' \in Seq(Snapshot(Len(analyses))) /\ Len(raw') = n + 1
      /\ DOMAIN raw' = DOMAIN raw \cup {n + 1} /\ n + 1 \notin DOMAIN raw
      /\ \A s \in DOMAIN raw : raw'[s] = raw[s]
    BY <1>1, OneSnapshotIsAdded
<1>3. StoresGrow
    BY <1>1, <1>2 DEF StoresGrow
<1>4. StoresAreTyped'
    BY <1>2, TypesAreParts DEF StoresAreTyped
<1>5. PICK m : m = n + 1
    OBVIOUS
<1>6. TypeOK' /\ AllFit'
    <2>1. PICK b : b = base[p]
        OBVIOUS
    <2>2. Fits("look", c, b)' /\ Moves(p, "look", c, b)
        BY <1>1, <1>2, <2>1 DEF Fits, Place, NoCall, TypeOK
    <2> QED
        BY <1>1, <1>2, <1>3, <1>4, <2>2, MovingTypes
<1>7. IsListed' /\ OneAnalysisEach' /\ OnlySoundEvidenceIsInterpreted'
    BY DEF EvidenceInv, IsListed, OneAnalysisEach, OnlySoundEvidenceIsInterpreted, Existing
<1>8. /\ \A q \in Process : Collects(q, m)' => q = p
      /\ \A q \in Process : \A s \in DOMAIN raw : Collects(q, s)' => Collects(q, s)
    BY <1>1, <1>2, <1>5 DEF Moves, Collects, TypeOK
<1>9. m \notin interpreted /\ \A con : Existing(m, con) = {}
    BY <1>2, <1>5, TypesAreParts DEF StoresAreTyped, Existing
<1>10. \A r, con : Existing(r, con)' = Existing(r, con)
    BY DEF Existing
<1>11. CollectorIsAlone'
    <2>1. \A p1, q \in Process : \A s \in DOMAIN raw' : Collects(p1, s)' /\ Collects(q, s)' => p1 = q
        BY <1>2, <1>5, <1>8 DEF EvidenceInv, CollectorIsAlone
    <2>2. \A q \in Process : \A s \in DOMAIN raw' : Collects(q, s)' =>
             s \notin interpreted' /\ Existing(s, Parser)' = {}
        BY <1>2, <1>5, <1>8, <1>9, <1>10 DEF EvidenceInv, CollectorIsAlone
    <2>3. \A q \in Process : pc'[q] \in {"decide", "record_failure"} => call'[q].fresh
        BY <1>6 DEF AllFit, Fits
    <2> QED
        BY <2>1, <2>2, <2>3 DEF CollectorIsAlone
<1> QED
    BY <1>6, <1>7, <1>11 DEF EvidenceInv

-----------------------------------------------------------------------------
(* The baseline of a new analysis is none, or one that is stored.          *)
LEMMA BaselinesAreStored ==
    ASSUME TypeOK, NEW s, NEW k \in Baselines(s)
    PROVE  k = 0 \/ k \in DOMAIN analyses
BY DEF Baselines

LEMMA CollectedRow ==
    ASSUME EvidenceInv, NEW body \in Body, NEW scope \in Scope, NEW elapsed \in Elapsed
    PROVE  [body |-> body, scope |-> scope, known |-> Len(analyses),
            at |-> IF raw = <<>> THEN 0 ELSE raw[Len(raw)].at + elapsed] \in Snapshot(Len(analyses))
<1> DEFINE at == IF raw = <<>> THEN 0 ELSE raw[Len(raw)].at + elapsed
<1>1. Len(analyses) \in Nat /\ TypeOK /\ Len(raw) \in Nat /\ DOMAIN raw = 1..Len(raw)
    BY SizesAreNumbers DEF EvidenceInv
<1>2. at \in Nat
    <2>1. CASE raw = <<>>
        BY <2>1
    <2>2. CASE raw # <<>>
        <3>1. Len(raw) \in DOMAIN raw
            BY <1>1, <2>2, EmptySeq DEF TypeOK
        <3>2. raw[Len(raw)].at \in Nat
            BY <3>1, SizesAreNumbers DEF EvidenceInv, Snapshot
        <3> QED
            BY <2>2, <3>2, ElapsedAssumption
    <2> QED
        BY <2>1, <2>2
<1> QED
    BY <1>1, <1>2 DEF Snapshot

LEMMA EvidenceStep ==
    ASSUME EvidenceInv, [Next]_vars
    PROVE  EvidenceInv'
<1>1. /\ TypeOK /\ AllFit /\ Len(raw) \in Nat /\ Len(analyses) \in Nat
      /\ DOMAIN analyses = 1..Len(analyses) /\ DOMAIN raw = 1..Len(raw)
    BY TypesAreParts, SizesAreNumbers DEF EvidenceInv
<1>2. \A p \in Process : /\ call = [call EXCEPT ![p] = call[p]]
                         /\ base = [base EXCEPT ![p] = base[p]]
    BY <1>1 DEF TypeOK
<1>3. \A p \in Process : Return(p) => Moves(p, "idle", NoCall, 0)
    BY DEF Return, Goto, Moves
<1>4. Fits("idle", NoCall, 0) /\ ~NoCall.fresh
    BY <1>1 DEF Fits, NoCall, Place
<1>5. ASSUME NEW p \in Process, Collect(p) PROVE EvidenceInv'
    <2>1. PICK body \in Body, scope \in Scope, elapsed \in Elapsed :
            /\ raw' = Append(raw, [body |-> body, scope |-> scope, known |-> Len(analyses),
                                   at |-> IF raw = <<>> THEN 0 ELSE raw[Len(raw)].at + elapsed])
            /\ call' = [call EXCEPT ![p] = [snapshot |-> Len(raw) + 1, fresh |-> TRUE]]
        BY <1>5 DEF Collect
    <2> DEFINE at == IF raw = <<>> THEN 0 ELSE raw[Len(raw)].at + elapsed
               row == [body |-> body, scope |-> scope, known |-> Len(analyses), at |-> at]
               c == [snapshot |-> Len(raw) + 1, fresh |-> TRUE]
    <2>3. row \in Snapshot(Len(analyses))
        BY CollectedRow
    <2>4. Moves(p, "look", c, base[p])
        BY <1>2, <1>5, <2>1 DEF Collect, Goto, Moves
    <2>5. PICK d : d = c
        OBVIOUS
    <2>6. raw' = Append(raw, row) /\ UNCHANGED <<analyses, interpreted>>
        BY <1>5, <2>1 DEF Collect
    <2> HIDE DEF row
    <2> QED
        BY <2>3, <2>4, <2>5, <2>6, CollectStep
<1>6. ASSUME NEW p \in Process, Backfill(p) PROVE EvidenceInv'
    <2>1. PICK k \in DOMAIN raw : call' = [call EXCEPT ![p] = [snapshot |-> k, fresh |-> FALSE]]
        BY <1>6 DEF Backfill
    <2>2. PICK c : c = [snapshot |-> k, fresh |-> FALSE]
        OBVIOUS
    <2>3. PICK b : b = base[p] /\ b \in 0..Len(analyses)
        BY <1>1 DEF TypeOK
    <2>4. Moves(p, "look", c, b)
        BY <1>2, <1>6, <2>1, <2>2, <2>3 DEF Backfill, Goto, Moves
    <2>5. Fits("look", c, b)
        BY <1>1, <2>2, <2>3 DEF Fits, Place, NoCall
    <2> QED
        BY <1>6, <2>2, <2>4, <2>5, QuietStep DEF Backfill
<1>7. ASSUME NEW p \in Process, Kill(p) PROVE EvidenceInv'
    BY <1>3, <1>4, <1>7, QuietStep DEF Kill
<1>8. ASSUME NEW p \in Process, Look(p) PROVE EvidenceInv'
    <2>1. PICK c : c = call[p]
        OBVIOUS
    <2>2. Fits("look", c, base[p]) /\ UNCHANGED <<raw, analyses, interpreted>>
        BY <1>1, <1>8, <2>1 DEF Look, AllFit
    <2>3. CASE Existing(c.snapshot, Contract) # {} /\ ~c.fresh
        BY <1>3, <1>4, <1>8, <2>1, <2>2, <2>3, QuietStep DEF Look, Observed
    <2>4. CASE Existing(c.snapshot, Contract) # {} /\ c.fresh
        <3>1. PICK b : b = base[p]
            OBVIOUS
        <3>2. Moves(p, "decide", c, b)
            BY <1>2, <1>8, <2>1, <2>4, <3>1 DEF Look, Observed, Goto, Moves
        <3>3. Fits("decide", c, b)
            BY <2>2, <2>4, <3>1 DEF Fits, Place
        <3> QED
            BY <2>1, <2>2, <3>2, <3>3, QuietStep
    <2>5. CASE Existing(c.snapshot, Contract) = {}
        <3>1. PICK b \in Baselines(c.snapshot) : base' = [base EXCEPT ![p] = b]
            BY <1>8, <2>1, <2>5 DEF Look
        <3>2. b \in 0..Len(analyses)
            BY <1>1, BaselinesAreStored
        <3>3. Moves(p, "insert", c, b)
            BY <1>2, <1>8, <2>1, <2>5, <3>1 DEF Look, Goto, Moves
        <3>4. Fits("insert", c, b)
            BY <2>2, <3>2 DEF Fits, Place
        <3> QED
            BY <2>1, <2>2, <3>3, <3>4, QuietStep
    <2> QED
        BY <2>3, <2>4, <2>5
<1>9. ASSUME NEW p \in Process, Insert(p) PROVE EvidenceInv'
    <2>1. PICK c, b : c = call[p] /\ b = base[p]
        OBVIOUS
    <2>2. Fits("insert", c, b)
        BY <1>1, <1>9, <2>1 DEF Insert, AllFit
    <2>3. CASE Existing(c.snapshot, Contract) # {}
        BY <1>3, <1>4, <1>9, <2>1, <2>3, QuietStep DEF Insert
    <2>4. CASE Existing(c.snapshot, Contract) = {}
        <3>1. PICK s \in DOMAIN raw : s = c.snapshot
            BY <2>2 DEF Fits
        <3>2. PICK events : events = Evaluate(raw[s].body, b)
            OBVIOUS
        <3>3. /\ analyses' = Append(analyses, Analysis(s, Contract, events))
              /\ Observed(p, "decide") /\ raw' = raw /\ interpreted' = interpreted
            BY <1>9, <2>1, <2>4, <3>1, <3>2 DEF Insert
        <3>4. /\ Existing(s, Contract)' # {} /\ Len(raw') \in Nat /\ Len(raw') >= Len(raw)
              /\ StoresGrow
            BY <2>4, <3>1, <3>3, RecordingGrows
        <3>5. CASE c.fresh
            <4>1. Moves(p, "decide", c, b)
                BY <1>2, <2>1, <3>3, <3>5 DEF Observed, Goto, Moves
            <4>2. Fits("insert", c, b)'
                BY <1>1, <2>2, <3>4, FitsGrows
            <4>3. Fits("decide", c, b)'
                BY <3>1, <3>4, <3>5, <4>2 DEF Fits, Place
            <4> QED
                BY <2>1, <2>4, <3>1, <3>3, <4>1, <4>3, ContractStep
        <3>6. CASE ~c.fresh
            <4>1. Moves(p, "idle", NoCall, 0)
                BY <1>3, <2>1, <3>3, <3>6 DEF Observed
            <4>2. Fits("idle", NoCall, 0)'
                BY <1>1, <1>4, <3>4, FitsGrows
            <4> QED
                BY <1>4, <2>4, <3>1, <3>3, <4>1, <4>2, ContractStep
        <3> QED
            BY <3>5, <3>6
    <2> QED
        BY <2>3, <2>4
<1>10. ASSUME NEW p \in Process, pc[p] \in {"decide", "record_failure"}
       PROVE  \E s \in DOMAIN raw : s = call[p].snapshot /\ Collects(p, s)
                                    /\ Existing(s, Contract) # {}
    BY <1>1, <1>10 DEF AllFit, Fits, Collects
<1>11. ASSUME NEW p \in Process, Decide(p) PROVE EvidenceInv'
    <2>1. pc[p] = "decide"
        BY <1>11 DEF Decide
    <2>2. PICK s \in DOMAIN raw : /\ s = call[p].snapshot /\ Collects(p, s)
                                  /\ Existing(s, Contract) # {}
        BY <1>10, <2>1
    <2>3. PICK k \in Existing(s, Contract) : k = CHOOSE j \in Existing(s, Contract) : TRUE
        BY <2>2
    <2>4. CASE Return(p) /\ UNCHANGED interpreted
        BY <1>3, <1>4, <1>11, <2>4, QuietStep DEF Decide
    <2>5. CASE Return(p) /\ interpreted' = interpreted \cup {s} /\ ~Blocked(analyses[k].events)
        BY <1>3, <1>11, <2>2, <2>5, InterpretStep DEF Decide
    <2>6. CASE Goto(p, "record_failure") /\ UNCHANGED <<call, base, interpreted>>
        <3>1. PICK c, b : c = call[p] /\ b = base[p]
            OBVIOUS
        <3>2. Moves(p, "record_failure", c, b)
            BY <1>2, <2>6, <3>1 DEF Goto, Moves
        <3>3. Fits("decide", c, b)
            BY <1>1, <2>1, <3>1 DEF AllFit
        <3>4. Fits("record_failure", c, b)
            BY <3>3 DEF Fits, Place
        <3> QED
            BY <1>11, <2>6, <3>1, <3>2, <3>4, QuietStep DEF Decide
    <2> QED
        BY <1>11, <2>2, <2>3, <2>4, <2>5, <2>6 DEF Decide
<1>12. ASSUME NEW p \in Process, RecordFailure(p) PROVE EvidenceInv'
    <2>1. PICK s \in DOMAIN raw : s = call[p].snapshot /\ Collects(p, s)
        BY <1>10, <1>12 DEF RecordFailure
    <2>2. PICK events : events = {Event("parser_failure", Root)}
        OBVIOUS
    <2>3. analyses' = Append(analyses, Analysis(s, Parser, events))
        BY <1>12, <2>1, <2>2 DEF RecordFailure
    <2> QED
        BY <1>3, <1>12, <2>1, <2>3, FailureStep DEF RecordFailure
<1>13. CASE UNCHANGED vars
    <2>1. TypeOK'
        BY <1>1, <1>13 DEF vars, TypeOK, Existing
    <2>2. IsListed' /\ OneAnalysisEach' /\ OnlySoundEvidenceIsInterpreted'
        BY <1>13 DEF vars, EvidenceInv, IsListed, OneAnalysisEach, OnlySoundEvidenceIsInterpreted,
            Existing
    <2>3. CollectorIsAlone'
        BY <1>13 DEF vars, EvidenceInv, CollectorIsAlone, Collects, Existing
    <2> QED
        BY <2>1, <2>2, <2>3 DEF EvidenceInv
<1> QED
    BY <1>5, <1>6, <1>7, <1>8, <1>9, <1>11, <1>12, <1>13 DEF Next

LEMMA EvidenceInitially == Init => EvidenceInv
<1> SUFFICES ASSUME Init PROVE EvidenceInv
    OBVIOUS
<1>1. /\ raw \in Seq(Snapshot(0)) /\ Len(raw) = 0 /\ DOMAIN raw = {}
      /\ Len(analyses) = 0 /\ DOMAIN analyses = {} /\ analyses \in Seq({})
    BY EmptySeq, LenProperties DEF Init
<1>2. TypeOK
    BY <1>1 DEF Init, TypeOK, Snapshot, NoCall
<1>3. IsListed /\ OneAnalysisEach /\ OnlySoundEvidenceIsInterpreted
    BY <1>1 DEF Init, IsListed, OneAnalysisEach, OnlySoundEvidenceIsInterpreted
<1>4. CollectorIsAlone
    BY <1>1 DEF Init, CollectorIsAlone
<1> QED
    BY <1>2, <1>3, <1>4 DEF EvidenceInv

LEMMA EvidenceInvHolds == Spec => []EvidenceInv
<1>1. EvidenceInv /\ [Next]_vars => EvidenceInv'
    BY EvidenceStep
<1> QED
    BY <1>1, EvidenceInitially, PTL DEF Spec

(* The types of what is stored and of what each process observes.          *)
THEOREM DriftTypesHold == Spec => []TypeOK
<1>1. EvidenceInv => TypeOK
    BY DEF EvidenceInv
<1> QED
    BY <1>1, EvidenceInvHolds, PTL

(* _persist_analysis, collect: what was handed to the normalizers has an   *)
(* analysis without breaking drift, and no parser failure, whatever other  *)
(* processes observe the same snapshot.                                    *)
THEOREM OnlySoundEvidence == Spec => []OnlySoundEvidenceIsInterpreted
<1>1. EvidenceInv => OnlySoundEvidenceIsInterpreted
    BY DEF EvidenceInv
<1> QED
    BY <1>1, EvidenceInvHolds, PTL

-----------------------------------------------------------------------------
(* What is stored stays, whatever the step.                                *)
LEMMA StepGrows ==
    ASSUME EvidenceInv, [Next]_vars
    PROVE  StoresGrow /\ Len(raw') \in Nat /\ Len(raw') >= Len(raw)
<1>1. /\ TypeOK /\ IsListed /\ Len(raw) \in Nat /\ Len(analyses) \in Nat
      /\ DOMAIN analyses = 1..Len(analyses)
    BY SizesAreNumbers DEF EvidenceInv
<1>2. CASE UNCHANGED <<raw, analyses>>
    BY <1>2, StayingGrows
<1>3. ASSUME raw' = raw, NEW row, analyses' = Append(analyses, row)
      PROVE  StoresGrow /\ Len(raw') \in Nat /\ Len(raw') >= Len(raw)
    BY <1>1, <1>3, OneRowIsAdded DEF StoresGrow
<1>4. ASSUME NEW row \in Snapshot(Len(analyses)), raw' = Append(raw, row), analyses' = analyses
      PROVE  StoresGrow /\ Len(raw') \in Nat /\ Len(raw') >= Len(raw)
    BY <1>1, <1>4, OneSnapshotIsAdded DEF StoresGrow
<1>5. ASSUME NEW p \in Process, Collect(p)
      PROVE  \E row \in Snapshot(Len(analyses)) : raw' = Append(raw, row) /\ analyses' = analyses
    BY <1>5, CollectedRow DEF Collect
<1>6. ASSUME NEW p \in Process, Insert(p) \/ RecordFailure(p)
      PROVE  raw' = raw /\ (analyses' = analyses \/ \E row : analyses' = Append(analyses, row))
    BY <1>6 DEF Insert, RecordFailure
<1>7. ASSUME NEW p \in Process, Backfill(p) \/ Look(p) \/ Decide(p) \/ Kill(p)
      PROVE  UNCHANGED <<raw, analyses>>
    BY <1>7 DEF Backfill, Look, Decide, Kill
<1> QED
    BY <1>2, <1>3, <1>4, <1>5, <1>6, <1>7 DEF Next, vars

(* data-model.md: historical analyses are not rewritten, and of each       *)
(* contract a snapshot has one, whichever processes observe it at once.    *)
THEOREM AnalysesStayFinal == Spec => AnalysesAreFinal
<1>1. EvidenceInv /\ EvidenceInv' /\ [Next]_vars =>
        [ /\ \A k \in DOMAIN analyses : k \in DOMAIN analyses' /\ analyses'[k] = analyses[k]
          /\ \A k, j \in DOMAIN analyses' :
               analyses'[k].snapshot = analyses'[j].snapshot
                 /\ analyses'[k].contract = analyses'[j].contract => k = j ]_vars
    BY StepGrows DEF StoresGrow, EvidenceInv, OneAnalysisEach
<1> QED
    BY <1>1, EvidenceInvHolds, PTL DEF Spec, AnalysesAreFinal

-----------------------------------------------------------------------------
(* What is known of a baseline stays known.                                *)
LEMMA BodiesStay ==
    ASSUME EvidenceInv, StoresGrow
    PROVE  /\ \A k \in DOMAIN analyses : BodyOf(k)' = BodyOf(k) /\ At(k)' = At(k)
           /\ \A k \in DOMAIN analyses : \A s \in DOMAIN raw :
                (Comparable(k, s)' <=> Comparable(k, s)) /\ (Precedes(k, s)' <=> Precedes(k, s))
<1>1. \A k \in DOMAIN analyses : /\ analyses'[k] = analyses[k]
                                 /\ analyses[k].snapshot \in DOMAIN raw
                                 /\ raw'[analyses[k].snapshot] = raw[analyses[k].snapshot]
    BY DEF EvidenceInv, TypeOK, StoresGrow
<1>2. \A k \in DOMAIN analyses : BodyOf(k)' = BodyOf(k) /\ At(k)' = At(k)
    BY <1>1 DEF BodyOf, At
<1>3. \A k \in DOMAIN analyses : \A s \in DOMAIN raw : Comparable(k, s)' <=> Comparable(k, s)
    BY <1>1, <1>2 DEF Comparable, StoresGrow
<1>4. \A k \in DOMAIN analyses : \A s \in DOMAIN raw : Precedes(k, s)' <=> Precedes(k, s)
    BY <1>1, <1>2, <1>3 DEF Precedes, StoresGrow
<1> QED
    BY <1>2, <1>3, <1>4

LEMMA LatestStays ==
    ASSUME EvidenceInv, StoresGrow, NEW s \in DOMAIN raw, NEW b, IsLatest(b, s)
    PROVE  IsLatest(b, s)'
<1>1. raw'[s] = raw[s] /\ raw[s].known \in 0..Len(analyses) /\ s \in DOMAIN raw'
    BY SizesAreNumbers DEF EvidenceInv, Snapshot, StoresGrow
<1>2. 1..raw[s].known \subseteq DOMAIN analyses /\ DOMAIN analyses \subseteq DOMAIN analyses'
    BY <1>1, SizesAreNumbers DEF EvidenceInv, StoresGrow
<1> QED
    BY <1>1, <1>2, BodiesStay DEF IsLatest

LEMMA ExplanationStays ==
    ASSUME EvidenceInv, StoresGrow, NEW k \in DOMAIN analyses, NEW j, Explains(k, j)
    PROVE  Explains(k, j)'
<1>1. /\ analyses'[k] = analyses[k] /\ analyses[k].snapshot \in DOMAIN raw
      /\ raw'[analyses[k].snapshot] = raw[analyses[k].snapshot]
      /\ 1..(k - 1) \subseteq DOMAIN analyses
    BY SizesAreNumbers DEF EvidenceInv, TypeOK, StoresGrow
<1>2. /\ TextPast(k)' = TextPast(k) /\ TextPast(k) \subseteq DOMAIN analyses
      /\ Known(k)' = Known(k)
    BY <1>1, BodiesStay DEF TextPast, Candidates, Known
<1>3. ExplainedBy(k, j)'
    <2>1. BodyOf(k)' = BodyOf(k) /\ (j # 0 => BodyOf(j)' = BodyOf(j))
        BY <1>2, BodiesStay DEF Explains
    <2> QED
        BY <1>1, <2>1 DEF Explains, ExplainedBy, Evaluate
<1> QED
    BY <1>1, <1>2, <1>3, BodiesStay DEF Explains

(* _previous_profile finds the latest by text. *)
LEMMA BaselinesAreLatest ==
    ASSUME EvidenceInv, NEW s \in DOMAIN raw, NEW b \in Baselines(s)
    PROVE  IsLatest(b, s)
<1>1. /\ DOMAIN analyses = 1..Len(analyses) /\ Len(analyses) \in Nat
      /\ raw[s].known \in 0..Len(analyses)
    BY SizesAreNumbers DEF EvidenceInv, Snapshot
<1>2. PICK earlier : earlier = {k \in DOMAIN analyses : Precedes(k, s)}
    OBVIOUS
<1>3. \/ earlier = {} /\ b = 0
      \/ b \in earlier /\ \A j \in earlier : ~TextBefore(At(b), At(j))
    BY <1>2 DEF Baselines, Precedes
<1>4. \A i \in 1..raw[s].known : Precedes(i, s) => i \in earlier
    BY <1>1, <1>2
<1>5. 0 \notin DOMAIN analyses
    BY <1>1
<1> QED
    BY <1>2, <1>3, <1>4, <1>5 DEF IsLatest

(* _persist_analysis: the new analysis is explained by the baseline that   *)
(* was looked up, whatever was recorded since.                             *)
LEMMA InsertExplains ==
    ASSUME EvidenceInv, NEW s \in DOMAIN raw, NEW b, IsLatest(b, s), raw' = raw,
           analyses' = Append(analyses, Analysis(s, Contract, Evaluate(raw[s].body, b))),
           NEW k, k = Len(analyses) + 1
    PROVE  /\ StoresGrow
           /\ DOMAIN analyses' = DOMAIN analyses \cup {k} /\ Explains(k, b)'
<1>1. /\ TypeOK /\ IsListed /\ Len(raw) \in Nat /\ Len(analyses) \in Nat
      /\ DOMAIN analyses = 1..Len(analyses) /\ raw[s].known \in 0..Len(analyses)
    BY SizesAreNumbers DEF EvidenceInv, Snapshot
<1>2. PICK events : events = Evaluate(raw[s].body, b)
    OBVIOUS
<1>3. PICK row : row = Analysis(s, Contract, events)
    OBVIOUS
<1>4. /\ Len(analyses') = k /\ DOMAIN analyses' = DOMAIN analyses \cup {k}
      /\ analyses'[k] = row /\ \A j \in DOMAIN analyses : analyses'[j] = analyses[j]
    BY <1>1, <1>2, <1>3, OneRowIsAdded
<1>5. StoresGrow
    BY <1>1, <1>4 DEF StoresGrow
<1>6. row.snapshot = s /\ row.events = events
    BY <1>3 DEF Analysis
<1>7. BodyOf(k)' = raw[s].body /\ At(k)' = raw[s].at
    BY <1>4, <1>6 DEF BodyOf, At
<1>8. b # 0 => b \in DOMAIN analyses /\ BodyOf(b)' = BodyOf(b) /\ At(b)' = At(b)
                 /\ Comparable(b, s)' /\ TextBefore(At(b), raw[s].at)
    BY <1>5, BodiesStay DEF IsLatest, Precedes
<1>9. ExplainedBy(k, b)'
    BY <1>2, <1>4, <1>6, <1>7, <1>8 DEF ExplainedBy, Evaluate
<1>10. k - 1 = Len(analyses)
    BY <1>1
<1>11. b \in TextPast(k)' \cup {0}
    <2>1. CASE b # 0
        <3>1. b \in Candidates(k)'
            BY <1>1, <1>4, <1>6, <1>8, <1>10, <2>1 DEF Candidates
        <3>2. PICK t, u : t = At(b) /\ u = raw[s].at
            OBVIOUS
        <3>3. TextBefore(t, u)
            BY <1>8, <2>1, <3>2
        <3>4. TextBefore(At(b), At(k))'
            BY <1>7, <1>8, <2>1, <3>2, <3>3 DEF TextBefore, Second, Fraction
        <3> QED
            BY <3>1, <3>4 DEF TextPast
    <2> QED
        BY <2>1
<1>12. ASSUME NEW i \in TextPast(k)' \cap Known(k)'
       PROVE  b # 0 /\ ~TextBefore(At(b), At(i))'
    <2>1. /\ i \in DOMAIN analyses /\ At(i)' = At(i) /\ Comparable(i, s)'
          /\ TextBefore(At(i)', At(k)')
          /\ i \in 1..raw[s].known
        BY <1>1, <1>4, <1>5, <1>6, <1>10, BodiesStay
        DEF TextPast, Candidates, Known, TextBefore, Second, Fraction
    <2>2. Precedes(i, s)
        BY <1>5, <1>7, <2>1, BodiesStay DEF Precedes
    <2>3. b # 0 /\ ~TextBefore(At(b), At(i))
        BY <2>1, <2>2 DEF IsLatest
    <2>4. PICK t, u : t = At(b) /\ u = At(i)
        OBVIOUS
    <2>5. At(b)' = t /\ At(i)' = u /\ ~TextBefore(t, u)
        BY <1>8, <2>1, <2>3, <2>4
    <2> QED
        BY <2>3, <2>5 DEF TextBefore, Second, Fraction
<1> QED
    BY <1>4, <1>5, <1>9, <1>11, <1>12 DEF Explains

LEMMA BaselinesKept ==
    ASSUME EvidenceInv, BaselineInv, StoresGrow, NEW p \in Process,
           \A q \in Process \ {p} : pc'[q] = pc[q] /\ call'[q] = call[q] /\ base'[q] = base[q],
           pc'[p] = "insert" => IsLatest(base[p], call[p].snapshot)',
           \A k \in Observations' : k \in DOMAIN analyses \/ \E j : Explains(k, j)'
    PROVE  BaselineInv'
<1>1. ASSUME NEW q \in Process, pc'[q] = "insert"
      PROVE  IsLatest(base[q], call[q].snapshot)'
    <2>1. CASE q = p
        BY <1>1, <2>1
    <2>2. CASE q # p
        <3>1. PICK b, s : b = base[q] /\ s = call[q].snapshot
            OBVIOUS
        <3>2. s \in DOMAIN raw /\ IsLatest(b, s)
            BY <1>1, <2>2, <3>1 DEF EvidenceInv, TypeOK, BaselineInv
        <3>3. IsLatest(b, s)'
            BY <3>2, LatestStays
        <3> QED
            BY <2>2, <3>1, <3>3
    <2> QED
        BY <2>1, <2>2
<1>2. ASSUME NEW k \in Observations' PROVE \E j : Explains(k, j)'
    <2>1. CASE k \in DOMAIN analyses
        <3>1. k \in Observations
            BY <1>2, <2>1 DEF Observations, StoresGrow
        <3>2. PICK j : Explains(k, j)
            BY <3>1 DEF BaselineInv, DriftIsExplained
        <3> QED
            BY <2>1, <3>2, ExplanationStays
    <2> QED
        BY <1>2, <2>1
<1>3. DriftIsExplained'
    BY <1>2 DEF DriftIsExplained
<1> QED
    BY <1>1, <1>3 DEF BaselineInv

LEMMA BaselineStep ==
    ASSUME EvidenceInv, BaselineInv, [Next]_vars
    PROVE  BaselineInv'
<1>1. StoresGrow /\ TypeOK
    BY StepGrows DEF EvidenceInv
<1>2. ASSUME NEW p \in Process, Return(p) \/ UNCHANGED <<pc, call, base>>
      PROVE  \A q \in Process \ {p} : pc'[q] = pc[q] /\ call'[q] = call[q] /\ base'[q] = base[q]
    BY <1>1, <1>2 DEF TypeOK, Return, Goto
<1>3. ASSUME analyses' = analyses
      PROVE  \A k \in Observations' : k \in DOMAIN analyses
    BY <1>3 DEF Observations
<1>4. ASSUME NEW p \in Process, Collect(p) \/ Backfill(p) \/ Decide(p) \/ Kill(p)
      PROVE  BaselineInv'
    <2>1. \A q \in Process \ {p} : pc'[q] = pc[q] /\ call'[q] = call[q] /\ base'[q] = base[q]
        BY <1>1, <1>4 DEF TypeOK, Collect, Backfill, Decide, Kill, Return, Goto
    <2>2. pc'[p] # "insert" /\ analyses' = analyses
        BY <1>1, <1>4 DEF TypeOK, Collect, Backfill, Decide, Kill, Return, Goto
    <2> QED
        BY <1>1, <1>3, <2>1, <2>2, BaselinesKept
<1>5. ASSUME NEW p \in Process, Look(p) PROVE BaselineInv'
    <2>1. /\ analyses' = analyses /\ raw' = raw
          /\ \A q \in Process \ {p} : pc'[q] = pc[q] /\ call'[q] = call[q] /\ base'[q] = base[q]
        BY <1>1, <1>5 DEF TypeOK, Look, Observed, Return, Goto
    <2>2. PICK s : s = call[p].snapshot
        OBVIOUS
    <2>3. s \in DOMAIN raw
        BY <1>1, <1>5, <2>2 DEF TypeOK, Look
    <2>4. ASSUME pc'[p] = "insert"
          PROVE  call' = call /\ \E k \in Baselines(s) : base'[p] = k
        BY <1>1, <1>5, <2>2, <2>4 DEF TypeOK, Look, Observed, Return, Goto
    <2>5. ASSUME pc'[p] = "insert" PROVE IsLatest(base[p], call[p].snapshot)'
        <3>1. PICK b \in Baselines(s) : base'[p] = b
            BY <2>4, <2>5
        <3>2. IsLatest(b, s)
            BY <2>3, BaselinesAreLatest
        <3>3. IsLatest(b, s)'
            BY <1>1, <2>3, <3>2, LatestStays
        <3> QED
            BY <2>2, <2>4, <2>5, <3>1, <3>3
    <2> QED
        BY <1>1, <1>3, <2>1, <2>5, BaselinesKept
<1>6. ASSUME NEW p \in Process, Insert(p) PROVE BaselineInv'
    <2>1. /\ pc'[p] # "insert"
          /\ \A q \in Process \ {p} : pc'[q] = pc[q] /\ call'[q] = call[q] /\ base'[q] = base[q]
        BY <1>1, <1>6 DEF TypeOK, Insert, Observed, Return, Goto
    <2>2. CASE analyses' = analyses
        BY <1>1, <1>3, <2>1, <2>2, BaselinesKept
    <2>3. CASE analyses' # analyses
        <3>1. PICK s, b : s = call[p].snapshot /\ b = base[p]
            OBVIOUS
        <3>2. s \in DOMAIN raw /\ IsLatest(b, s)
            BY <1>1, <1>6, <3>1 DEF TypeOK, Insert, BaselineInv
        <3>3. /\ analyses' = Append(analyses, Analysis(s, Contract, Evaluate(raw[s].body, b)))
              /\ raw' = raw
            BY <1>6, <2>3, <3>1 DEF Insert
        <3>4. PICK k : k = Len(analyses) + 1
            OBVIOUS
        <3>5. DOMAIN analyses' = DOMAIN analyses \cup {k} /\ Explains(k, b)'
            BY <3>2, <3>3, <3>4, InsertExplains
        <3>6. \A i \in Observations' : i \in DOMAIN analyses \/ \E j : Explains(i, j)'
            BY <3>5 DEF Observations
        <3> QED
            BY <1>1, <2>1, <3>6, BaselinesKept
    <2> QED
        BY <2>2, <2>3
<1>7. ASSUME NEW p \in Process, RecordFailure(p) PROVE BaselineInv'
    <2>1. /\ pc'[p] # "insert"
          /\ \A q \in Process \ {p} : pc'[q] = pc[q] /\ call'[q] = call[q] /\ base'[q] = base[q]
        BY <1>1, <1>7 DEF TypeOK, RecordFailure, Return, Goto
    <2>2. PICK row : row = Analysis(call[p].snapshot, Parser, {Event("parser_failure", Root)})
        OBVIOUS
    <2>3. analyses' = Append(analyses, row) /\ row.contract # Contract
        BY <1>7, <2>2 DEF RecordFailure, Analysis, Contract, Parser
    <2>4. /\ DOMAIN analyses' = DOMAIN analyses \cup {Len(analyses) + 1}
          /\ analyses'[Len(analyses) + 1] = row
        BY <1>1, <2>3, OneRowIsAdded DEF EvidenceInv
    <2>5. \A k \in Observations' : k \in DOMAIN analyses
        BY <2>3, <2>4 DEF Observations
    <2> QED
        BY <1>1, <2>1, <2>5, BaselinesKept
<1>8. CASE UNCHANGED vars
    <2>1. UNCHANGED <<raw, analyses, pc, call, base>>
        BY <1>8 DEF vars
    <2>2. \A b, s : IsLatest(b, s)' <=> IsLatest(b, s)
        BY <2>1 DEF IsLatest, Precedes, Comparable, BodyOf, At, TextBefore, Second, Fraction
    <2>3. \A k, j : Explains(k, j)' <=> Explains(k, j)
        BY <2>1 DEF Explains, TextPast, Candidates, Known, ExplainedBy, Evaluate, Comparable,
            BodyOf, At, TextBefore, Second, Fraction
    <2>4. DriftIsExplained'
        BY <2>1, <2>3 DEF DriftIsExplained, Observations, BaselineInv
    <2> QED
        BY <2>1, <2>2, <2>4 DEF BaselineInv
<1> QED
    BY <1>4, <1>5, <1>6, <1>7, <1>8 DEF Next

LEMMA BaselineInitially == Init => BaselineInv
BY DEF Init, BaselineInv, DriftIsExplained, Observations

-----------------------------------------------------------------------------
(* What the order of the texts says of the times.                          *)
LEMMA TextsOrderSeconds ==
    ASSUME NEW t \in Nat, NEW u \in Nat
    PROVE  /\ Second(t) \in Int /\ Second(u) \in Int
           /\ TextBefore(t, u) => Second(t) <= Second(u) /\ t # u
           /\ Second(t) < Second(u) => TextBefore(t, u)
<1>1. /\ Second(t) \in Int /\ Second(u) \in Int
      /\ Fraction(t) \in Int /\ Fraction(u) \in Int
    BY TicksAssumption DEF Second, Fraction
<1>2. TextBefore(t, u) => Second(t) <= Second(u)
    BY <1>1 DEF TextBefore
<1>3. TextBefore(t, u) => t # u
    BY <1>1 DEF TextBefore
<1> QED
    BY <1>1, <1>2, <1>3 DEF TextBefore

(* What is the latest by text is the nearest to the second, and the latest *)
(* in time if text sorts as time does.                                     *)
LEMMA BaselinesAreNearest ==
    ASSUME EvidenceInv, DriftIsExplained
    PROVE  NearestToTheSecond /\ (TextSortsAsTime => NoDriftIsMissed)
<1>1. \A k \in DOMAIN analyses : /\ analyses[k].snapshot \in DOMAIN raw
                                 /\ At(k) \in Nat /\ At(k) = raw[analyses[k].snapshot].at
    BY SizesAreNumbers DEF EvidenceInv, TypeOK, At, Snapshot
<1>2. \A k \in DOMAIN analyses : /\ Candidates(k) \subseteq DOMAIN analyses
                                 /\ Past(k) \subseteq Candidates(k)
                                 /\ TextPast(k) \subseteq Candidates(k)
                                 /\ 0 \notin Candidates(k)
    BY SizesAreNumbers DEF EvidenceInv, Candidates, Past, TextPast
<1>3. ASSUME NEW k \in Observations, NEW j, Explains(k, j), NEW i \in Candidates(k),
             i \in Known(k), Second(At(i)) < Second(At(k))
      PROVE  j # 0 /\ Second(At(i)) <= Second(At(j))
    <2>1. k \in DOMAIN analyses /\ i \in DOMAIN analyses
        BY <1>2 DEF Observations
    <2>2. i \in TextPast(k)
        BY <1>1, <1>3, <2>1, TextsOrderSeconds DEF TextPast
    <2>3. j # 0 /\ ~TextBefore(At(j), At(i)) /\ j \in DOMAIN analyses
        BY <1>2, <1>3, <2>1, <2>2 DEF Explains
    <2>4. PICK t \in Nat, u \in Nat : t = At(j) /\ u = At(i)
        BY <1>1, <2>1, <2>3
    <2>5. ~(Second(t) < Second(u)) /\ Second(t) \in Int /\ Second(u) \in Int
        BY <2>3, <2>4, TextsOrderSeconds
    <2>6. Second(u) <= Second(t)
        BY <2>5
    <2> QED
        BY <2>3, <2>4, <2>6
<1>4. ASSUME NEW k \in Observations, NEW j, Explains(k, j), j # 0
      PROVE  Second(At(j)) <= Second(At(k)) /\ At(j) # At(k)
    <2>1. k \in DOMAIN analyses /\ j \in DOMAIN analyses /\ TextBefore(At(j), At(k))
        BY <1>2, <1>4 DEF Observations, Explains, TextPast
    <2> QED
        BY <1>1, <2>1, TextsOrderSeconds
<1>5. NearestToTheSecond
    <2> SUFFICES ASSUME NEW k \in Observations
                 PROVE  \E j \in Candidates(k) \cup {0} :
                            /\ ExplainedBy(k, j)
                            /\ j # 0 => Second(At(j)) <= Second(At(k)) /\ At(j) # At(k)
                            /\ \A i \in Candidates(k) \cap Known(k) :
                                  Second(At(i)) < Second(At(k))
                                    => j # 0 /\ Second(At(i)) <= Second(At(j))
        BY DEF NearestToTheSecond
    <2>1. PICK j : Explains(k, j)
        BY DEF DriftIsExplained
    <2>2. j \in Candidates(k) \cup {0} /\ ExplainedBy(k, j)
        BY <2>1 DEF Explains, TextPast
    <2>3. \A i \in Candidates(k) \cap Known(k) :
              Second(At(i)) < Second(At(k)) => j # 0 /\ Second(At(i)) <= Second(At(j))
        BY <1>3, <2>1
    <2>4. j # 0 => Second(At(j)) <= Second(At(k)) /\ At(j) # At(k)
        BY <1>4, <2>1
    <2> QED
        BY <2>2, <2>3, <2>4
<1>6. ASSUME TextSortsAsTime, NEW k \in Observations
      PROVE  \E j \in Past(k) \cup {0} :
                /\ ExplainedBy(k, j)
                /\ \A i \in Past(k) \cap Known(k) : j # 0 /\ At(i) <= At(j)
    <2>0. k \in DOMAIN analyses
        BY DEF Observations
    <2>1. \A i, j \in DOMAIN analyses : TextBefore(At(i), At(j)) <=> At(i) < At(j)
        BY <1>1, <1>6 DEF TextSortsAsTime
    <2>2. TextPast(k) = Past(k)
        BY <1>2, <2>0, <2>1 DEF TextPast, Past
    <2>3. PICK j : Explains(k, j)
        BY DEF DriftIsExplained
    <2>4. \A i \in Past(k) \cap Known(k) : j # 0 /\ At(i) <= At(j)
        <3> SUFFICES ASSUME NEW i \in Past(k) \cap Known(k)
                     PROVE  j # 0 /\ At(i) <= At(j)
            OBVIOUS
        <3>1. j # 0 /\ ~TextBefore(At(j), At(i)) /\ j \in DOMAIN analyses /\ i \in DOMAIN analyses
            BY <1>2, <2>0, <2>2, <2>3 DEF Explains
        <3>2. ~(At(j) < At(i)) /\ At(j) \in Nat /\ At(i) \in Nat
            BY <1>1, <2>1, <3>1
        <3> QED
            BY <3>1, <3>2
    <2> QED
        BY <2>2, <2>3, <2>4 DEF Explains
<1> QED
    BY <1>5, <1>6 DEF NoDriftIsMissed

(* _previous_profile, _persist_analysis: no breaking drift passes, for any *)
(* times and any resolution of the clock. The baseline is of an earlier    *)
(* second or of the same one, and what was known of a nearer earlier one   *)
(* is not passed over, whichever processes look, insert or backfill at     *)
(* once; it is the nearest of all whenever the texts of the times sort as  *)
(* the times do; and breaking events are acted upon.                       *)
THEOREM NoDriftEscapes == Spec => []DriftIsActedOn
<1>1. EvidenceInv /\ BaselineInv /\ [Next]_vars => BaselineInv'
    BY BaselineStep
<1>2. EvidenceInv /\ BaselineInv => DriftIsActedOn
    BY BaselinesAreNearest DEF EvidenceInv, BaselineInv, DriftIsActedOn
<1> QED
    BY <1>1, <1>2, BaselineInitially, EvidenceInvHolds, PTL DEF Spec
=============================================================================
