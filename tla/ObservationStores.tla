------------------------- MODULE ObservationStores -------------------------
(***************************************************************************)
(* Normalized persistence: every listing of a stored snapshot is written   *)
(* in one SQLite transaction, that updates the identity tables and adds    *)
(* the state, metric and history observations with their lineage.          *)
(*                                                                         *)
(* A snapshot with several listings takes several transactions. Other      *)
(* processes may commit between them, the process may end there, and a     *)
(* snapshot may be written long after it was retrieved, or once more. The  *)
(* identity of an observation is the listing and the instant, and has no   *)
(* raw snapshot in it, so that two snapshots may claim one observation.    *)
(*                                                                         *)
(* The facts of a listing are what the parsers return and the tables keep  *)
(* apart: developer, publication, version, metrics, media. An instant is   *)
(* counted in half seconds.                                                *)
(***************************************************************************)
EXTENDS Integers, Sequences, FiniteSets

CONSTANTS
    Process,      \* processes that collect or normalize
    Listing,      \* platform listings
    Developer,    \* platform developers
    Response,     \* bodies: their kind, and the games listed in them
    Instant,      \* times at which responses are retrieved
    None,         \* a fact the response does not have
    MaxSnapshots  \* bound: raw snapshots

Catalogue == "catalogue"
Page == "game_page"

(* A page is of one game and has neither its developer nor its first       *)
(* publication nor media; only a page has a version. A response that lists *)
(* no game writes nothing and is left out.                                 *)
ASSUME InstantAssumption == Instant \subseteq Nat
ASSUME NoneAssumption == None \notin Developer
ASSUME ResponseAssumption ==
    \A body \in Response :
        /\ body.kind \in {Catalogue, Page}
        /\ body.games \in Seq({body.games[k] : k \in DOMAIN body.games})
        /\ body.games # <<>>
        /\ body.kind = Page => Len(body.games) = 1
        /\ \A k \in DOMAIN body.games :
             LET f == body.games[k].facts IN
             /\ body.games[k].listing \in Listing
             /\ f.developer = None \/ f.developer.id \in Developer
             /\ f.published = None \/ f.published \in Nat
             /\ IF body.kind = Catalogue THEN f.version = None
                ELSE f.developer = None /\ f.published = None /\ f.media = None

VARIABLES
    raw,          \* raw snapshots
    pending,      \* the snapshot each process writes, and the game it is at
    listings,     \* platform_listings by listing
    developers,   \* platform_developers by developer
    assignments,  \* listing_developer_observations by <<listing, instant>>
    states,       \* listing-state observations by <<listing, instant>>
    metrics,      \* metric observations by <<listing, metric, instant>>
    histories     \* history observations by <<listing, type, instant>>

db == <<listings, developers, assignments, states, metrics, histories>>
vars == <<raw, pending, listings, developers, assignments, states, metrics, histories>>

-----------------------------------------------------------------------------
(* Times are stored as ISO text, which leaves out a fraction of zero: "."  *)
(* sorts before "Z", so a fraction sorts before its own whole second.      *)
Second(t) == t \div 2
TextBefore(t, u) ==
    \/ Second(t) < Second(u)
    \/ Second(t) = Second(u) /\ t % 2 = 1 /\ u % 2 = 0
TextMin(t, u) == IF TextBefore(t, u) THEN t ELSE u

(* mutant: the last sighting is the one written last *)
LastWritten(t, u) == u

TextMax(t, u) == IF TextBefore(t, u) THEN u ELSE t

Put(table, id, row) ==
    [x \in DOMAIN table \cup {id} |-> IF x = id THEN row ELSE table[x]]

(* What the normalizers make of a game. A status is observed by its source, *)
(* an update or a media manifest only if the response has one.             *)
State(f) == [developer |-> f.developer, published |-> f.published, version |-> f.version]
Measured(f) == f.metrics
Histories(f, kind) ==
    [type \in {"status"} \cup (IF f.version = None THEN {} ELSE {"update"})
                         \cup (IF f.media = None THEN {} ELSE {"media"}) |->
        CASE type = "status" -> kind
          [] type = "update" -> f.version
          [] type = "media" -> f.media]

(* The rows that stores insert for them, by the identity of an observation. *)
StateRows(l, t, f) == [id \in {<<l, t>>} |-> State(f)]
MetricRows(l, t, f) ==
    [id \in {<<l, m, t>> : m \in DOMAIN Measured(f)} |-> Measured(f)[id[2]]]
HistoryRows(l, t, f, kind) ==
    [id \in {<<l, type, t>> : type \in DOMAIN Histories(f, kind)} |->
        Histories(f, kind)[id[2]]]

-----------------------------------------------------------------------------
NoWork == [snapshot |-> 0, game |-> 0]

Init ==
    /\ raw = <<>>
    /\ pending = [p \in Process |-> NoWork]
    /\ listings = <<>> /\ developers = <<>> /\ assignments = <<>>
    /\ states = <<>> /\ metrics = <<>> /\ histories = <<>>

Working(p) == pending[p] # NoWork
Snapshot(p) == raw[pending[p].snapshot]
Game(p) == Snapshot(p).games[pending[p].game]
Facts(p) == Game(p).facts
At(p) == Snapshot(p).at

Drop(p) == pending' = [pending EXCEPT ![p] = NoWork]

(* for game in parsed.games: persist_details(game, metadata)               *)
Advance(p) ==
    IF pending[p].game = Len(Snapshot(p).games) THEN Drop(p)
    ELSE pending' = [pending EXCEPT ![p].game = @ + 1]

(* A response is stored. It was retrieved earlier: others may have been    *)
(* retrieved and stored meanwhile.                                         *)
Capture(p) ==
    /\ ~Working(p)
    /\ Len(raw) < MaxSnapshots
    /\ \E body \in Response, t \in Instant :
         raw' = Append(raw, [kind |-> body.kind, games |-> body.games, at |-> t])
    /\ pending' = [pending EXCEPT ![p] = [snapshot |-> Len(raw) + 1, game |-> 1]]
    /\ UNCHANGED db

(* A stored snapshot is normalized again.                                  *)
Replay(p) ==
    /\ ~Working(p)
    /\ \E k \in DOMAIN raw : pending' = [pending EXCEPT ![p] = [snapshot |-> k, game |-> 1]]
    /\ UNCHANGED <<raw, db>>

-----------------------------------------------------------------------------
(* mutant: any sighting is current *)
AnySighting(t, last) == TRUE

(* ON CONFLICT(id) DO UPDATE: only an equal or newer sighting replaces a   *)
(* value, and never by nothing.                                            *)
Current(t, last) == ~TextBefore(t, last)
Latest(value, old, t, last) == IF Current(t, last) /\ value # None THEN value ELSE old

UpsertDeveloper(d, t) ==
    IF d = None THEN UNCHANGED developers
    ELSE developers' = Put(developers, d.id,
           IF d.id \notin DOMAIN developers
           THEN [name |-> d.name, first |-> t, last |-> t]
           ELSE LET old == developers[d.id] IN
                [name |-> Latest(d.name, old.name, t, old.last),
                 first |-> TextMin(old.first, t),
                 last |-> TextMax(old.last, t)])

UpsertListing(l, t, f) ==
    LET d == IF f.developer = None THEN None ELSE f.developer.id IN
    listings' = Put(listings, l,
      IF l \notin DOMAIN listings
      THEN [developer |-> d, published |-> f.published, first |-> t, last |-> t]
      ELSE LET old == listings[l] IN
           [developer |-> Latest(d, old.developer, t, old.last),
            published |-> IF f.published # None
                             /\ (old.published = None \/ f.published < old.published)
                          THEN f.published ELSE old.published,
            first |-> TextMin(old.first, t),
            last |-> TextMax(old.last, t)])

Assign(l, t, d) ==
    IF d = None \/ <<l, t>> \in DOMAIN assignments THEN UNCHANGED assignments
    ELSE assignments' = Put(assignments, <<l, t>>, d.id)

(* INSERT OR IGNORE of rows, then of the lineage of each of them.          *)
Inserted(table, rows, source) ==
    [id \in DOMAIN table \cup DOMAIN rows |->
        [value |-> IF id \in DOMAIN table THEN table[id].value ELSE rows[id],
         lineage |-> (IF id \in DOMAIN table THEN table[id].lineage ELSE {})
                     \cup (IF id \in DOMAIN rows THEN {source} ELSE {})]]

(* What was stored before is read back and differs from what was to be     *)
(* stored: for a state the lineage too, which is of this snapshot only.    *)
Differs(table, rows) == \E id \in DOMAIN table \cap DOMAIN rows : table[id].value # rows[id]

AssignmentConflict(l, t, d) ==
    d # None /\ <<l, t>> \in DOMAIN assignments /\ assignments[<<l, t>>] # d.id
StateConflict(l, t, f, source) ==
    \/ Differs(states, StateRows(l, t, f))
    \/ <<l, t>> \in DOMAIN states /\ states[<<l, t>>].lineage # {source}
MetricConflict(l, t, f) == Differs(metrics, MetricRows(l, t, f))
HistoryConflict(l, t, f, kind) == Differs(histories, HistoryRows(l, t, f, kind))

Refused(p) ==
    LET l == Game(p).listing  t == At(p)  f == Facts(p) IN
    \/ AssignmentConflict(l, t, f.developer)
    \/ StateConflict(l, t, f, pending[p])
    \/ MetricConflict(l, t, f)
    \/ HistoryConflict(l, t, f, Snapshot(p).kind)

(* persist: identity, state, metrics and histories in one transaction.     *)
Write(p) ==
    LET l == Game(p).listing  t == At(p)  f == Facts(p) IN
    /\ UpsertDeveloper(f.developer, t)
    /\ UpsertListing(l, t, f)
    /\ Assign(l, t, f.developer)
    /\ states' = Inserted(states, StateRows(l, t, f), pending[p])
    /\ metrics' = Inserted(metrics, MetricRows(l, t, f), pending[p])
    /\ histories' = Inserted(histories, HistoryRows(l, t, f, Snapshot(p).kind), pending[p])

Commit(p) ==
    /\ Working(p)
    /\ ~Refused(p)
    /\ Write(p)
    /\ Advance(p)
    /\ UNCHANGED raw

(* A conflict rolls the transaction back and ends the loop: the games that *)
(* follow are not written.                                                 *)
Refuse(p) ==
    /\ Working(p)
    /\ Refused(p)
    /\ Drop(p)
    /\ UNCHANGED <<raw, db>>

(* mutant: the statements of an unfinished transaction stay *)
StopPartWay(p) ==
    LET l == Game(p).listing  t == At(p)  f == Facts(p) IN
    /\ Working(p)
    /\ ~Refused(p)
    /\ UpsertDeveloper(f.developer, t)
    /\ UpsertListing(l, t, f)
    /\ Assign(l, t, f.developer)
    /\ states' = Inserted(states, StateRows(l, t, f), pending[p])
    /\ Drop(p)
    /\ UNCHANGED <<raw, metrics, histories>>

(* The process ends before its next commit: it is killed, the database     *)
(* stays locked for the five seconds a connection waits, or the response   *)
(* is refused before its first game.                                       *)
Stop(p) ==
    /\ Working(p)
    /\ Drop(p)
    /\ UNCHANGED <<raw, db>>

Next ==
    \E p \in Process :
        Capture(p) \/ Replay(p) \/ Commit(p) \/ Refuse(p) \/ Stop(p)

Spec == Init /\ [][Next]_vars
-----------------------------------------------------------------------------
Sources == UNION {{[snapshot |-> k, game |-> i] : i \in DOMAIN raw[k].games} : k \in DOMAIN raw}

(* The types of the variables; a process at work is at a game its snapshot *)
(* has, and every row with lineage has a source that is stored.            *)
TypeOK ==
    /\ raw \in Seq({[kind |-> body.kind, games |-> body.games, at |-> t] :
                     body \in Response, t \in Instant})
    /\ pending \in [Process -> Sources \cup {NoWork}]
    /\ DOMAIN listings \subseteq Listing
    /\ \A l \in DOMAIN listings :
         /\ listings[l].developer \in Developer \cup {None}
         /\ listings[l].first \in Instant /\ listings[l].last \in Instant
    /\ DOMAIN developers \subseteq Developer
    /\ DOMAIN assignments \subseteq Listing \X Instant
    /\ DOMAIN states \subseteq Listing \X Instant
    /\ \A table \in {states, metrics, histories} : \A id \in DOMAIN table :
         table[id].lineage \subseteq Sources /\ table[id].lineage # {}

Times(table, l) == {id[2] : id \in {x \in DOMAIN table : x[1] = l}}
Oldest(times, t) == t \in times /\ \A u \in times : t <= u
Newest(times, t) == t \in times /\ \A u \in times : t >= u

(* data-model.md: current state is of the newest sighting, in whatever     *)
(* order sightings are written. First and last sighting are those of the   *)
(* state history, the first publication is the earliest one reported, and  *)
(* the developer assigned at the last sighting is the current one, who is  *)
(* always one that was assigned. A developer is seen when assigned.        *)
IdentityMatchesHistory ==
    /\ DOMAIN listings = {id[1] : id \in DOMAIN states}
    /\ \A l \in DOMAIN listings :
         LET row == listings[l]
             published == {states[<<l, t>>].value.published : t \in Times(states, l)} \ {None}
         IN /\ Oldest(Times(states, l), row.first)
            /\ Newest(Times(states, l), row.last)
            /\ IF published = {} THEN row.published = None
               ELSE Oldest(published, row.published)
            /\ <<l, row.last>> \in DOMAIN assignments =>
                  row.developer = assignments[<<l, row.last>>]
            /\ row.developer # None =>
                  \E t \in Times(assignments, l) : assignments[<<l, t>>] = row.developer
    /\ \A d \in DOMAIN developers :
         LET seen == {id[2] : id \in {x \in DOMAIN assignments : assignments[x] = d}} IN
         Oldest(seen, developers[d].first) /\ Newest(seen, developers[d].last)

(* listing-histories.md, data-model.md: what is stored of a listing at an  *)
(* instant is all that one game of one stored snapshot says, each row with *)
(* that game as its lineage, and nothing else: no part of an observation   *)
(* is missing, whatever is killed, refused or written twice.               *)
ObservationsAreWhole ==
    /\ \A id \in DOMAIN metrics \cup DOMAIN histories : <<id[1], id[3]>> \in DOMAIN states
    /\ DOMAIN assignments \subseteq DOMAIN states
    /\ \A at \in DOMAIN states : \E source \in states[at].lineage :
         LET l == at[1]
             t == at[2]
             from == raw[source.snapshot]
             f == from.games[source.game].facts
             stored(rows) == [id \in DOMAIN rows |->
                                [value |-> rows[id], lineage |-> {source}]]
             of(table) == [id \in {x \in DOMAIN table : x[1] = l /\ x[Len(x)] = t} |-> table[id]]
         IN /\ from.at = t /\ from.games[source.game].listing = l
            /\ of(states) = stored(StateRows(l, t, f))
            /\ of(metrics) = stored(MetricRows(l, t, f))
            /\ of(histories) = stored(HistoryRows(l, t, f, from.kind))
            /\ IF f.developer = None THEN at \notin DOMAIN assignments
               ELSE at \in DOMAIN assignments /\ assignments[at] = f.developer.id

(* data-model.md: current state may only advance from an equal or newer    *)
(* observation. A current developer or display name that changes is, after *)
(* the step, that of the newest sighting; no value becomes unknown.        *)
NothingRegresses ==
    [][ /\ \A l \in DOMAIN listings : listings'[l].developer # listings[l].developer =>
             /\ listings'[l].developer # None
             /\ \A t \in Times(states, l) : t <= listings'[l].last
             /\ <<l, listings'[l].last>> \in DOMAIN assignments'
             /\ assignments'[<<l, listings'[l].last>>] = listings'[l].developer
        /\ \A d \in DOMAIN developers : developers'[d].name # developers[d].name =>
             /\ developers'[d].name # None
             /\ \E l \in Listing : LET at == <<l, developers'[d].last>> IN
                  at \in DOMAIN assignments' /\ assignments'[at] = d ]_vars

(* data-model.md, listing-state-observations.md: rewriting an observation  *)
(* is idempotent if it is the same and refused if it is not. In either     *)
(* case nothing changes, also not in the tables written before the         *)
(* conflict is found. Only the display name of a developer that another    *)
(* listing has at that instant is the last one written.                    *)
RewritesLeaveNoTrace ==
    [][ /\ \A p \in Process :
             LET l == Game(p).listing  t == At(p)  d == Facts(p).developer IN
             Working(p) /\ pending'[p] # pending[p] /\ <<l, t>> \in DOMAIN states =>
                /\ UNCHANGED <<listings, assignments, states, metrics, histories>>
                /\ \/ UNCHANGED developers
                   \/ /\ developers' = [developers EXCEPT ![d.id].name = d.name]
                      /\ \E k \in Listing \ {l} : /\ <<k, t>> \in DOMAIN assignments
                                                 /\ assignments[<<k, t>>] = d.id
        /\ \A at \in DOMAIN states : at \in DOMAIN states' /\ states'[at] = states[at] ]_vars

(* What is known of a listing is kept: current values never go back to an   *)
(* older sighting, and what was written once is not touched again.          *)
HistoryIsKept == NothingRegresses /\ RewritesLeaveNoTrace
=============================================================================
