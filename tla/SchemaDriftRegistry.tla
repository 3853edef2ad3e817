------------------------ MODULE SchemaDriftRegistry ------------------------
(***************************************************************************)
(* The schema-drift registry: a stored raw snapshot is profiled, compared  *)
(* with the contract of its request and with the latest earlier profile of *)
(* its comparison scope, and the events are stored with the analysis. A    *)
(* breaking event keeps the response from being interpreted.               *)
(*                                                                         *)
(* Each process has a connection of its own. The statements that look for  *)
(* an existing analysis and for the baseline are not in the transaction    *)
(* that inserts the new one, so another process may commit in between.     *)
(*                                                                         *)
(* A body is what the profiler tells apart: whether it is JSON, the type   *)
(* of its root, whether it lists games, and the type of each field of each *)
(* game. An instant is counted in ticks, of which a second has several.    *)
(***************************************************************************)
EXTENDS Integers, Sequences, FiniteSets

CONSTANTS
    Process,       \* processes that collect or backfill
    Scope,         \* comparison scopes
    Body,          \* bodies of responses
    TicksPerSecond,\* the resolution of the clock: the code reads microseconds
    Elapsed,       \* times that may pass from one response to the next
    MaxSnapshots,  \* bound: raw snapshots
    MaxAnalyses    \* bound: stored analyses

ASSUME TicksAssumption == TicksPerSecond \in Nat \ {0}
ASSUME ElapsedAssumption == Elapsed \subseteq Nat

VARIABLES
    raw,          \* raw snapshots, in the order they were retrieved
    analyses,     \* schema_observations with their events, in order of insertion
    interpreted,  \* snapshots whose response was handed to the normalizers
    pc,           \* where each process is
    call,         \* the snapshot it observes, and whether it collected it
    base          \* the analysis its snapshot is compared with, 0 for none

vars == <<raw, analyses, interpreted, pc, call, base>>

-----------------------------------------------------------------------------
(* An analysis is of the contract of the request, or a parser failure.     *)
Contract == "get_games"
Parser == "parser"

(* The JSON types of a field, by path. A field of a game goes by its name. *)
Games == "$.games"
Game == "$.games[]"

Profiled(body) == body.json
InSome(games) == UNION {DOMAIN games[g] : g \in DOMAIN games}

(* profile_json_snapshot: types, and in how many of its parents it occurs. *)
Fields(body) ==
    LET games == body.games
        paths == IF ~body.listed THEN {}
                 ELSE {Games} \cup (IF games = <<>> THEN {} ELSE {Game}) \cup InSome(games)
        having(path) == {g \in DOMAIN games : path \in DOMAIN games[g]}
    IN [path \in paths |->
          CASE path = Games -> [types |-> {"array"}, present |-> 1, parents |-> 1]
            [] path = Game -> [types |-> {"object"}, present |-> 1, parents |-> 1]
            [] OTHER -> [types |-> {games[g][path] : g \in having(path)},
                         present |-> Cardinality(having(path)),
                         parents |-> Len(games)]]

(* YANDEX_GET_GAMES_SCHEMA_V1. Only appID has a minimum presence, of all.  *)
Expected ==
    [path \in {Games, "appID", "rating"} |->
        CASE path = Games -> {"array"}
          [] path = "appID" -> {"integer"}
          [] OTHER -> {"integer", "number"}]
Required == {Games}
InEveryGame == {"appID"}

Event(kind, path) == [kind |-> kind, path |-> path]
Root == "$"

ContractEvents(body) ==
    LET fields == Fields(body)
        known == DOMAIN fields
        missing == (Required \ known)
                   \cup (IF Game \in known THEN InEveryGame \ known ELSE {})
                   \cup {q \in InEveryGame \cap known : fields[q].present < fields[q].parents}
        odd == {q \in DOMAIN Expected \cap known : ~ fields[q].types \subseteq Expected[q]}
    IN {Event("root_type_mismatch", Root) : r \in {body.root} \ {"object"}}
       \cup {Event("required_field_missing", q) : q \in missing}
       \cup {Event("contract_type_mismatch", q) : q \in odd}

(* A presence that moved by a quarter or more, of four parents or more.    *)
MissingnessChanged(old, new) ==
    LET shift == old.present * new.parents - new.present * old.parents IN
    /\ old.parents >= 4 /\ new.parents >= 4
    /\ 4 * (IF shift < 0 THEN -shift ELSE shift) >= old.parents * new.parents

TemporalEvents(before, body) ==
    LET old == Fields(before)
        new == Fields(body)
        both == DOMAIN old \cap DOMAIN new
    IN {Event("new_field", q) : q \in DOMAIN new \ DOMAIN old}
       \cup {Event("removed_field", q) : q \in DOMAIN old \ DOMAIN new}
       \cup {Event("type_changed", q) : q \in {r \in both : old[r].types # new[r].types}}
       \cup {Event("missingness_changed", q) :
               q \in {r \in both : MissingnessChanged(old[r], new[r])}}
       \cup {Event("root_type_mismatch", Root) : r \in {before.root} \ {body.root}}

Breaking == {"root_type_mismatch", "required_field_missing", "contract_type_mismatch",
             "raw_parse_failure", "parser_failure"}
Blocked(events) == \E e \in events : e.kind \in Breaking

-----------------------------------------------------------------------------
BodyOf(k) == raw[analyses[k].snapshot].body
At(k) == raw[analyses[k].snapshot].at

(* _evaluate: the events of a body whose baseline is analysis k, or none.  *)
Evaluate(body, k) ==
    IF ~Profiled(body) THEN {Event("raw_parse_failure", Root)}
    ELSE ContractEvents(body)
         \cup IF k = 0 THEN {} ELSE TemporalEvents(BodyOf(k), body)

(* Times are stored as ISO text, which leaves out a fraction of zero: "."  *)
(* sorts before "Z", so a fraction sorts before its own whole second.      *)
Second(t) == t \div TicksPerSecond
Fraction(t) == t % TicksPerSecond
TextBefore(t, u) ==
    \/ Second(t) < Second(u)
    \/ /\ Second(t) = Second(u)
       /\ Fraction(t) # 0
       /\ Fraction(u) = 0 \/ Fraction(t) < Fraction(u)

Comparable(k, snapshot) ==
    /\ analyses[k].contract = Contract
    /\ raw[analyses[k].snapshot].scope = raw[snapshot].scope
    /\ Profiled(BodyOf(k))

(* mutant: the first earlier profile instead of the latest *)
EarliestBaselines(snapshot) ==
    LET earlier == {k \in DOMAIN analyses : /\ Comparable(k, snapshot)
                                            /\ TextBefore(At(k), raw[snapshot].at)}
    IN IF earlier = {} THEN {0}
       ELSE {k \in earlier : \A j \in earlier : ~TextBefore(At(j), At(k))}

(* _previous_profile: the latest, and of equal ones the greater random id. *)
Baselines(snapshot) ==
    LET earlier == {k \in DOMAIN analyses : /\ Comparable(k, snapshot)
                                            /\ TextBefore(At(k), raw[snapshot].at)}
    IN IF earlier = {} THEN {0}
       ELSE {k \in earlier : \A j \in earlier : ~TextBefore(At(k), At(j))}

Existing(snapshot, contract) ==
    {k \in DOMAIN analyses : /\ analyses[k].snapshot = snapshot
                             /\ analyses[k].contract = contract}

(* The rows of an analysis: itself, its profile and its events.            *)
Analysis(snapshot, contract, events) ==
    [snapshot |-> snapshot, contract |-> contract, events |-> events]

-----------------------------------------------------------------------------
NoCall == [snapshot |-> 0, fresh |-> FALSE]

Init ==
    /\ raw = <<>>
    /\ analyses = <<>>
    /\ interpreted = {}
    /\ pc = [p \in Process |-> "idle"]
    /\ call = [p \in Process |-> NoCall]
    /\ base = [p \in Process |-> 0]

Goto(p, l) == pc' = [pc EXCEPT ![p] = l]
Return(p) ==
    /\ Goto(p, "idle")
    /\ call' = [call EXCEPT ![p] = NoCall]
    /\ base' = [base EXCEPT ![p] = 0]

(* collect: a response arrives and its raw snapshot is stored. What had    *)
(* been analysed by then is kept for the properties.                       *)
Collect(p) ==
    /\ pc[p] = "idle"
    /\ Len(raw) < MaxSnapshots
    /\ \E body \in Body, scope \in Scope, elapsed \in Elapsed :
         /\ raw' = Append(raw, [body |-> body, scope |-> scope, known |-> Len(analyses),
                                at |-> IF raw = <<>> THEN 0 ELSE raw[Len(raw)].at + elapsed])
         /\ call' = [call EXCEPT ![p] = [snapshot |-> Len(raw) + 1, fresh |-> TRUE]]
    /\ Goto(p, "look")
    /\ UNCHANGED <<analyses, interpreted, base>>

(* A stored snapshot is observed later, or once more.                      *)
Backfill(p) ==
    /\ pc[p] = "idle"
    /\ \E k \in DOMAIN raw : call' = [call EXCEPT ![p] = [snapshot |-> k, fresh |-> FALSE]]
    /\ Goto(p, "look")
    /\ UNCHANGED <<raw, analyses, interpreted, base>>

(* After observe_json, a collector goes on with what it returned.          *)
Observed(p, then) ==
    IF call[p].fresh THEN Goto(p, then) /\ UNCHANGED <<call, base>> ELSE Return(p)

(* observe_json: the existing analysis, or the baseline of a new one.      *)
Look(p) ==
    /\ pc[p] = "look"
    /\ IF Existing(call[p].snapshot, Contract) # {}
       THEN Observed(p, "decide")
       ELSE /\ \E k \in Baselines(call[p].snapshot) :
                 base' = [base EXCEPT ![p] = k]
            /\ Goto(p, "insert")
            /\ UNCHANGED call
    /\ UNCHANGED <<raw, analyses, interpreted>>

(* mutant: an analysis of the same identity is replaced *)
InsertOrReplace(p) ==
    /\ pc[p] = "insert"
    /\ LET s == call[p].snapshot
           row == Analysis(s, Contract, Evaluate(raw[s].body, base[p]))
           old == Existing(s, Contract)
       IN /\ old = {} => Len(analyses) < MaxAnalyses
          /\ analyses' = IF old = {} THEN Append(analyses, row)
                         ELSE [k \in DOMAIN analyses |->
                                 IF k \in old THEN row ELSE analyses[k]]
    /\ Observed(p, "decide")
    /\ UNCHANGED <<raw, interpreted>>

(* _persist_analysis: one transaction, refused if the analysis exists now. *)
Insert(p) ==
    /\ pc[p] = "insert"
    /\ IF Existing(call[p].snapshot, Contract) # {}
       THEN Return(p) /\ UNCHANGED analyses
       ELSE /\ Len(analyses) < MaxAnalyses
            /\ analyses' = Append(analyses,
                 Analysis(call[p].snapshot, Contract,
                          Evaluate(raw[call[p].snapshot].body, base[p])))
            /\ Observed(p, "decide")
    /\ UNCHANGED <<raw, interpreted>>

(* Breaking drift is refused, the rest is parsed, which may fail.          *)
Decide(p) ==
    /\ pc[p] = "decide"
    /\ LET k == CHOOSE j \in Existing(call[p].snapshot, Contract) : TRUE IN
       IF Blocked(analyses[k].events) THEN Return(p) /\ UNCHANGED interpreted
       ELSE \/ Return(p) /\ interpreted' = interpreted \cup {call[p].snapshot}
            \/ Goto(p, "record_failure") /\ UNCHANGED <<call, base, interpreted>>
    /\ UNCHANGED <<raw, analyses>>

(* record_parser_failure: an analysis of its own, which is never a baseline. *)
RecordFailure(p) ==
    /\ pc[p] = "record_failure"
    /\ Len(analyses) < MaxAnalyses
    /\ analyses' = Append(analyses,
         Analysis(call[p].snapshot, Parser, {Event("parser_failure", Root)}))
    /\ Return(p)
    /\ UNCHANGED <<raw, interpreted>>

Kill(p) ==
    /\ pc[p] # "idle"
    /\ Return(p)
    /\ UNCHANGED <<raw, analyses, interpreted>>

Next ==
    \E p \in Process :
        \/ Collect(p) \/ Backfill(p) \/ Look(p) \/ Insert(p) \/ Decide(p)
        \/ RecordFailure(p) \/ Kill(p)

Spec == Init /\ [][Next]_vars
-----------------------------------------------------------------------------
(* The types of the variables; a process that observes has a stored        *)
(* snapshot, and the analysis it compares it with is stored too.           *)
TypeOK ==
    /\ raw \in Seq([body : Body, at : Nat, scope : Scope, known : 0..Len(analyses)])
    /\ \A k \in DOMAIN analyses :
         /\ analyses[k].snapshot \in DOMAIN raw
         /\ analyses[k].contract \in {Contract, Parser}
    /\ interpreted \subseteq DOMAIN raw
    /\ pc \in [Process -> {"idle", "look", "insert", "decide", "record_failure"}]
    /\ call \in [Process -> [snapshot : 0..Len(raw), fresh : BOOLEAN]]
    /\ base \in [Process -> 0..Len(analyses)]
    /\ \A p \in Process :
         /\ pc[p] = "idle" <=> call[p] = NoCall
         /\ pc[p] # "idle" => call[p].snapshot \in DOMAIN raw
         /\ pc[p] \in {"decide", "record_failure"} =>
               Existing(call[p].snapshot, Contract) # {}

(* The analyses that may be the baseline of analysis k by the documents:   *)
(* of the same contract and scope, and strictly earlier by retrieved_at.   *)
Candidates(k) == {j \in 1..(k - 1) : Comparable(j, analyses[k].snapshot)}
Past(k) == {j \in Candidates(k) : At(j) < At(k)}
Known(k) == 1..raw[analyses[k].snapshot].known
ExplainedBy(k, j) == analyses[k].events = Evaluate(BodyOf(k), j)
Observations == {k \in DOMAIN analyses : analyses[k].contract = Contract}

(* data-model.md: a baseline is strictly earlier by retrieved_at, and a    *)
(* backfill never compares against a future observation.                   *)
BaselinesAreEarlier ==
    \A k \in Observations : \E j \in Past(k) \cup {0} : ExplainedBy(k, j)

(* No drift is missed: what had been analysed when a snapshot arrived is   *)
(* its baseline, or something later that is still earlier than itself,     *)
(* whichever processes look, insert or backfill at the same time.          *)
NoDriftIsMissed ==
    \A k \in Observations :
        \E j \in Past(k) \cup {0} :
            /\ ExplainedBy(k, j)
            /\ \A i \in Past(k) \cap Known(k) : j # 0 /\ At(i) <= At(j)

(* The texts of the stored times are in the order of the times: no time on *)
(* a whole second shares that second with another.                         *)
TextSortsAsTime ==
    \A r, s \in DOMAIN raw : TextBefore(raw[r].at, raw[s].at) <=> raw[r].at < raw[s].at

(* Whatever the fractions, the second is right: a baseline is of an earlier *)
(* second or of another time of the same one, and no analysis of a second   *)
(* between the two had been known when the snapshot arrived.               *)
NearestToTheSecond ==
    \A k \in Observations :
        \E j \in Candidates(k) \cup {0} :
            /\ ExplainedBy(k, j)
            /\ j # 0 => Second(At(j)) <= Second(At(k)) /\ At(j) # At(k)
            /\ \A i \in Candidates(k) \cap Known(k) :
                  Second(At(i)) < Second(At(k)) => j # 0 /\ Second(At(i)) <= Second(At(j))

(* data-model.md: historical analyses are not rewritten; each snapshot has *)
(* one analysis of each contract, also when two processes observe it.      *)
AnalysesAreFinal ==
    [][ /\ \A k \in DOMAIN analyses : k \in DOMAIN analyses' /\ analyses'[k] = analyses[k]
        /\ \A k, j \in DOMAIN analyses' :
              analyses'[k].snapshot = analyses'[j].snapshot
                /\ analyses'[k].contract = analyses'[j].contract => k = j ]_vars

(* ARCHITECTURE.md: breaking drift stops interpretation. What was handed   *)
(* on has a stored analysis without breaking drift, and no parser failure. *)
OnlySoundEvidenceIsInterpreted ==
    \A s \in interpreted :
        /\ \E k \in Existing(s, Contract) : ~Blocked(analyses[k].events)
        /\ Existing(s, Parser) = {}

(* No breaking drift passes: it is found, against the nearest baseline of   *)
(* an earlier second, and the nearest of all when the texts of the times    *)
(* sort as the times do (registry.py:164-178), and then acted upon.         *)
DriftIsActedOn ==
    /\ NearestToTheSecond
    /\ TextSortsAsTime => NoDriftIsMissed
    /\ OnlySoundEvidenceIsInterpreted
=============================================================================
