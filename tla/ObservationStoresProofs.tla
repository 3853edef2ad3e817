---------------------- MODULE ObservationStoresProofs ----------------------
(***************************************************************************)
(* Proofs about ObservationStores, for any processes, listings, developers *)
(* and responses: what is stored of a listing at an instant is all that    *)
(* one game of one snapshot says, and, as long as the text of the instants *)
(* sorts as they do, the identity tables are what the histories say, never *)
(* go back to an older sighting and are not touched by a rewrite.          *)
(***************************************************************************)
EXTENDS ObservationStores, SequenceTheorems, TLAPS

(* A table is a function from identities to rows with their lineage.       *)
IsTable(table) ==
    table = [id \in DOMAIN table |-> [value |-> table[id].value, lineage |-> table[id].lineage]]
Sourced(table) == \A id \in DOMAIN table : table[id].lineage \subseteq Sources
TablesAreKeyed ==
    /\ IsTable(states) /\ IsTable(metrics) /\ IsTable(histories)
    /\ assignments = [at \in DOMAIN assignments |-> assignments[at]]
    /\ \A id \in DOMAIN metrics \cup DOMAIN histories :
          id = <<id[1], id[2], id[3]>> /\ id[1] \in Listing /\ id[3] \in Instant

(* What is stored of listing l at instant t is what game src says.         *)
Group(table, l, t) ==
    [id \in {x \in DOMAIN table : x[1] = l /\ x[Len(x)] = t} |-> table[id]]
Stored(rows, src) == [id \in DOMAIN rows |-> [value |-> rows[id], lineage |-> {src}]]
SaidBy(l, t, f, kind, src) ==
    /\ Group(states, l, t) = Stored(StateRows(l, t, f), src)
    /\ Group(metrics, l, t) = Stored(MetricRows(l, t, f), src)
    /\ Group(histories, l, t) = Stored(HistoryRows(l, t, f, kind), src)
    /\ IF f.developer = None THEN <<l, t>> \notin DOMAIN assignments
       ELSE <<l, t>> \in DOMAIN assignments /\ assignments[<<l, t>>] = f.developer.id
FactsOf(src) == raw[src.snapshot].games[src.game].facts
IsGame(src, l, t) == raw[src.snapshot].at = t /\ raw[src.snapshot].games[src.game].listing = l

(* ObservationsAreWhole, by listing and instant.                           *)
Observed(l, t) ==
    IF <<l, t>> \in DOMAIN states
    THEN \E src \in states[<<l, t>>].lineage :
            /\ IsGame(src, l, t)
            /\ SaidBy(l, t, FactsOf(src), raw[src.snapshot].kind, src)
    ELSE /\ <<l, t>> \notin DOMAIN assignments
         /\ Group(states, l, t) = <<>> /\ Group(metrics, l, t) = <<>>
         /\ Group(histories, l, t) = <<>>

StoreInv ==
    /\ TypeOK
    /\ TablesAreKeyed
    /\ \A l \in Listing, t \in Instant : Observed(l, t)

(* IdentityMatchesHistory, by listing and developer.                       *)
PublishedOf(table, l) == {table[<<l, t>>].value.published : t \in Times(table, l)} \ {None}
ListingMatches(l) ==
    LET row == listings[l] IN
    /\ Oldest(Times(states, l), row.first)
    /\ Newest(Times(states, l), row.last)
    /\ IF PublishedOf(states, l) = {} THEN row.published = None
       ELSE Oldest(PublishedOf(states, l), row.published)
    /\ <<l, row.last>> \in DOMAIN assignments => row.developer = assignments[<<l, row.last>>]
    /\ row.developer # None =>
          \E t \in Times(assignments, l) : assignments[<<l, t>>] = row.developer
SeenTimes(table, d) == {id[2] : id \in {x \in DOMAIN table : table[x] = d}}
DeveloperMatches(d) ==
    /\ Oldest(SeenTimes(assignments, d), developers[d].first)
    /\ Newest(SeenTimes(assignments, d), developers[d].last)

(* A display name is that of a sighting at the last instant, if one has it. *)
NameAt(l, t) == FactsOf(CHOOSE src \in states[<<l, t>>].lineage : TRUE).developer.name
Sighted(l, d, t) ==
    l \in Listing /\ <<l, t>> \in DOMAIN assignments /\ assignments[<<l, t>>] = d
NameIsSeen(d) ==
    \A l : Sighted(l, d, developers[d].last) /\ NameAt(l, developers[d].last) # None =>
        \E k : /\ Sighted(k, d, developers[d].last)
               /\ NameAt(k, developers[d].last) = developers[d].name

IdentityInv ==
    /\ DOMAIN listings = {id[1] : id \in DOMAIN states}
    /\ \A l \in DOMAIN listings : ListingMatches(l)
    /\ \A d \in DOMAIN developers : DeveloperMatches(d) /\ NameIsSeen(d)
    /\ listings = [l \in DOMAIN listings |->
         [developer |-> listings[l].developer, published |-> listings[l].published,
          first |-> listings[l].first, last |-> listings[l].last]]
    /\ developers = [d \in DOMAIN developers |->
         [name |-> developers[d].name,
          first |-> developers[d].first, last |-> developers[d].last]]
    /\ \A at \in DOMAIN assignments : assignments[at] \in DOMAIN developers

-----------------------------------------------------------------------------
(* INSERT OR IGNORE, for rows of listing l and instant t.                  *)
Owned(rows, l, t) == \A id \in DOMAIN rows : id[1] = l /\ id[Len(id)] = t

LEMMA InsertedIsTable ==
    ASSUME NEW table, NEW rows, NEW src
    PROVE  IsTable(Inserted(table, rows, src))
BY DEF IsTable, Inserted

LEMMA InsertedFirst ==
    ASSUME NEW table, NEW rows, NEW src, NEW l, NEW t, Owned(rows, l, t),
           Group(table, l, t) = <<>>
    PROVE  Group(Inserted(table, rows, src), l, t) = Stored(rows, src)
<1>1. \A id \in DOMAIN table : ~(id[1] = l /\ id[Len(id)] = t)
    <2>1. DOMAIN Group(table, l, t) = {}
        OBVIOUS
    <2> QED
        BY <2>1 DEF Group
<1>2. {x \in DOMAIN Inserted(table, rows, src) : x[1] = l /\ x[Len(x)] = t} = DOMAIN rows
    BY <1>1 DEF Inserted, Owned
<1>3. \A id \in DOMAIN rows : Inserted(table, rows, src)[id] = [value |-> rows[id], lineage |-> {src}]
    BY <1>1 DEF Inserted, Owned
<1> QED
    BY <1>2, <1>3 DEF Group, Stored

LEMMA InsertedElsewhere ==
    ASSUME NEW table, IsTable(table), NEW rows, NEW src, NEW l, NEW t, Owned(rows, l, t),
           NEW k, NEW u, k # l \/ u # t
    PROVE  Group(Inserted(table, rows, src), k, u) = Group(table, k, u)
<1>1. \A id \in DOMAIN rows : ~(id[1] = k /\ id[Len(id)] = u)
    BY DEF Owned
<1>2. {x \in DOMAIN Inserted(table, rows, src) : x[1] = k /\ x[Len(x)] = u}
        = {x \in DOMAIN table : x[1] = k /\ x[Len(x)] = u}
    BY <1>1 DEF Inserted
<1>3. \A id \in DOMAIN table : id \notin DOMAIN rows => Inserted(table, rows, src)[id] = table[id]
    BY DEF IsTable, Inserted
<1> QED
    BY <1>1, <1>2, <1>3 DEF Group

LEMMA InsertedAgain ==
    ASSUME NEW table, IsTable(table), NEW rows, NEW src, NEW l, NEW t, Owned(rows, l, t),
           Group(table, l, t) = Stored(rows, src)
    PROVE  Inserted(table, rows, src) = table
<1>1. \A id \in DOMAIN rows : id \in DOMAIN table
                              /\ table[id] = [value |-> rows[id], lineage |-> {src}]
    <2>1. DOMAIN Group(table, l, t) = DOMAIN Stored(rows, src)
        OBVIOUS
    <2>2. \A id \in DOMAIN rows : Group(table, l, t)[id] = Stored(rows, src)[id]
        OBVIOUS
    <2> QED
        BY <2>1, <2>2 DEF Group, Stored
<1>2. DOMAIN table \cup DOMAIN rows = DOMAIN table
    BY <1>1
<1>3. \A id \in DOMAIN table :
        [value |-> IF id \in DOMAIN table THEN table[id].value ELSE rows[id],
         lineage |-> (IF id \in DOMAIN table THEN table[id].lineage ELSE {})
                     \cup (IF id \in DOMAIN rows THEN {src} ELSE {})]
          = [value |-> table[id].value, lineage |-> table[id].lineage]
    <2> TAKE id \in DOMAIN table
    <2>1. (IF id \in DOMAIN table THEN table[id].lineage ELSE {})
             \cup (IF id \in DOMAIN rows THEN {src} ELSE {}) = table[id].lineage
        <3>1. CASE id \in DOMAIN rows
            <4>1. table[id] = [value |-> rows[id], lineage |-> {src}]
                BY <1>1, <3>1
            <4>2. table[id].lineage = {src}
                BY <4>1
            <4> QED
                BY <3>1, <4>2
        <3>2. CASE id \notin DOMAIN rows
            BY <3>2
        <3> QED
            BY <3>1, <3>2
    <2>2. (IF id \in DOMAIN table THEN table[id].value ELSE rows[id]) = table[id].value
        OBVIOUS
    <2> QED
        BY <2>1, <2>2
<1> QED
    BY <1>2, <1>3 DEF Inserted, IsTable

(* The rows of a game are of its listing and instant.                      *)
LEMMA RowsAreOwned ==
    ASSUME NEW l, NEW t, NEW f, NEW kind
    PROVE  /\ Owned(StateRows(l, t, f), l, t)
           /\ Owned(MetricRows(l, t, f), l, t)
           /\ Owned(HistoryRows(l, t, f, kind), l, t)
<1>1. Len(<<l, t>>) = 2 /\ <<l, t>>[1] = l /\ <<l, t>>[2] = t
    OBVIOUS
<1>2. \A m : Len(<<l, m, t>>) = 3 /\ <<l, m, t>>[1] = l /\ <<l, m, t>>[3] = t
    OBVIOUS
<1>3. Owned(StateRows(l, t, f), l, t)
    BY <1>1 DEF Owned, StateRows
<1>4. Owned(MetricRows(l, t, f), l, t)
    BY <1>2 DEF Owned, MetricRows
<1>5. Owned(HistoryRows(l, t, f, kind), l, t)
    BY <1>2 DEF Owned, HistoryRows
<1> QED
    BY <1>3, <1>4, <1>5

-----------------------------------------------------------------------------
(* What a stored game says, and of whom.                                   *)
FactsAreTyped(f) ==
    /\ f.developer = None \/ f.developer.id \in Developer
    /\ f.published = None \/ f.published \in Nat
Says(src, l, t, f, kind) ==
    /\ src \in Sources /\ l \in Listing /\ t \in Instant /\ FactsAreTyped(f)
    /\ l = raw[src.snapshot].games[src.game].listing /\ t = raw[src.snapshot].at
    /\ f = FactsOf(src) /\ kind = raw[src.snapshot].kind

LEMMA SourcesAreGames ==
    ASSUME NEW src
    PROVE  src \in Sources <=> \E k \in DOMAIN raw : \E i \in DOMAIN raw[k].games :
                                  src = [snapshot |-> k, game |-> i]
BY DEF Sources

LEMMA GamesAreTyped ==
    ASSUME TypeOK, NEW src \in Sources
    PROVE  /\ src.snapshot \in DOMAIN raw /\ src.game \in DOMAIN raw[src.snapshot].games
           /\ \E l, t, f, kind : Says(src, l, t, f, kind)
           /\ src # NoWork
<1>1. PICK k \in DOMAIN raw : \E i \in DOMAIN raw[k].games : src = [snapshot |-> k, game |-> i]
    BY SourcesAreGames
<1>2. PICK i \in DOMAIN raw[k].games : src = [snapshot |-> k, game |-> i]
    BY <1>1
<1>3. src.snapshot = k /\ src.game = i
    BY <1>2
<1>4. PICK body \in Response, at \in Instant :
        raw[k] = [kind |-> body.kind, games |-> body.games, at |-> at]
    BY <1>1, ElementOfSeq, LenProperties DEF TypeOK
<1>5. i \in DOMAIN body.games /\ raw[k].at = at /\ raw[k].games = body.games
    BY <1>2, <1>4
<1>6. PICK f : f = body.games[i].facts
    OBVIOUS
<1>7. FactsAreTyped(f) /\ body.games[i].listing \in Listing
    BY <1>5, <1>6, ResponseAssumption DEF FactsAreTyped
<1>8. Says(src, body.games[i].listing, at, f, raw[k].kind)
    BY <1>3, <1>5, <1>6, <1>7 DEF Says, FactsOf
<1>9. k # 0
    BY <1>1, LenProperties DEF TypeOK
<1> QED
    BY <1>1, <1>2, <1>3, <1>8, <1>9 DEF NoWork

(* Commit and Refuse, of a game.                                           *)
Clash(l, t, f, kind, src) ==
    \/ AssignmentConflict(l, t, f.developer)
    \/ StateConflict(l, t, f, src)
    \/ MetricConflict(l, t, f)
    \/ HistoryConflict(l, t, f, kind)
Writes(l, t, f, kind, src) ==
    /\ UpsertDeveloper(f.developer, t)
    /\ UpsertListing(l, t, f)
    /\ Assign(l, t, f.developer)
    /\ states' = Inserted(states, StateRows(l, t, f), src)
    /\ metrics' = Inserted(metrics, MetricRows(l, t, f), src)
    /\ histories' = Inserted(histories, HistoryRows(l, t, f, kind), src)

LEMMA CommitWrites ==
    ASSUME TypeOK, NEW p \in Process, Commit(p)
    PROVE  \E src, l, t, f, kind :
              /\ src = pending[p] /\ Says(src, l, t, f, kind)
              /\ ~Clash(l, t, f, kind, src) /\ Writes(l, t, f, kind, src)
<1>1. PICK src : src = pending[p]
    OBVIOUS
<1>2. src \in Sources
    BY <1>1 DEF TypeOK, Commit, Working
<1>3. PICK l, t, f, kind : Says(src, l, t, f, kind)
    BY <1>2, GamesAreTyped
<1>4. Game(p).listing = l /\ At(p) = t /\ Facts(p) = f /\ Snapshot(p).kind = kind
    BY <1>1, <1>3 DEF Says, Game, At, Facts, FactsOf, Snapshot
<1>5. ~Clash(l, t, f, kind, src)
    BY <1>1, <1>4 DEF Commit, Refused, Clash
<1>6. Writes(l, t, f, kind, src)
    BY <1>1, <1>4 DEF Commit, Write, Writes
<1> QED
    BY <1>1, <1>3, <1>5, <1>6

-----------------------------------------------------------------------------
(* Where the observation of listing l at instant t is, and what it says.   *)
LEMMA GroupOfState ==
    ASSUME TypeOK, NEW l, NEW t
    PROVE  /\ {x \in DOMAIN states : x[1] = l /\ x[Len(x)] = t} = {<<l, t>>} \cap DOMAIN states
           /\ {x \in DOMAIN assignments : x[1] = l /\ x[Len(x)] = t}
                 = {<<l, t>>} \cap DOMAIN assignments
<1>1. ASSUME NEW x \in Listing \X Instant
      PROVE  (x[1] = l /\ x[Len(x)] = t) <=> x = <<l, t>>
    <2>1. PICK a \in Listing, b \in Instant : x = <<a, b>>
        OBVIOUS
    <2>2. Len(<<a, b>>) = 2
        OBVIOUS
    <2>3. x[1] = a /\ x[Len(x)] = b
        BY <2>1, <2>2
    <2> QED
        BY <2>1, <2>3
<1> QED
    BY <1>1 DEF TypeOK

LEMMA GroupOfRows ==
    ASSUME TablesAreKeyed, NEW id \in DOMAIN metrics \cup DOMAIN histories
    PROVE  id[Len(id)] = id[3]
<1>1. id = <<id[1], id[2], id[3]>>
    BY DEF TablesAreKeyed
<1>2. PICK a, b, c : a = id[1] /\ b = id[2] /\ c = id[3]
    OBVIOUS
<1>3. id = <<a, b, c>> /\ Len(<<a, b, c>>) = 3
    BY <1>1, <1>2
<1> QED
    BY <1>2, <1>3

LEMMA ObservedIsWhole ==
    ASSUME StoreInv
    PROVE  ObservationsAreWhole
<1>1. TypeOK /\ TablesAreKeyed
    BY DEF StoreInv
<1>2. ASSUME NEW id \in DOMAIN metrics \cup DOMAIN histories
      PROVE  <<id[1], id[3]>> \in DOMAIN states
    <2>1. PICK l \in Listing, t \in Instant : l = id[1] /\ t = id[3]
        BY <1>1 DEF TablesAreKeyed
    <2>2. id[Len(id)] = t
        BY <1>1, <2>1, GroupOfRows
    <2>3. id \in DOMAIN Group(metrics, l, t) \cup DOMAIN Group(histories, l, t)
        BY <2>1, <2>2 DEF Group
    <2>4. DOMAIN <<>> = {}
        OBVIOUS
    <2>5. ~ (Group(metrics, l, t) = <<>> /\ Group(histories, l, t) = <<>>)
        BY <2>3, <2>4
    <2>6. Observed(l, t)
        BY DEF StoreInv
    <2> QED
        BY <2>1, <2>5, <2>6 DEF Observed
<1>3. DOMAIN assignments \subseteq DOMAIN states
    <2>1. ASSUME NEW l \in Listing, NEW t \in Instant, <<l, t>> \in DOMAIN assignments
          PROVE  <<l, t>> \in DOMAIN states
        BY <2>1 DEF StoreInv, Observed
    <2> QED
        BY <1>1, <2>1 DEF TypeOK
<1>4. ASSUME NEW at \in DOMAIN states
      PROVE  \E source \in states[at].lineage :
         LET l == at[1]
             t == at[2]
             from == raw[source.snapshot]
             f == from.games[source.game].facts
             stored(rows) == [id \in DOMAIN rows |->
                                [value |-> rows[id], lineage |-> {source}]]
             of(table) == [id \in {x \in DOMAIN table : x[1] = l /\ x[Len(x)] = t} |-> table[id]]
         IN /\ from.at = t /\ from.games[source.game].listing = l
            /\ of(states) = stored(StateRows(l, t, f))
            /\ of(metrics) = stored(MetricRows(l, t, f))
            /\ of(histories) = stored(HistoryRows(l, t, f, from.kind))
            /\ IF f.developer = None THEN at \notin DOMAIN assignments
               ELSE at \in DOMAIN assignments /\ assignments[at] = f.developer.id
    <2>1. at = <<at[1], at[2]>> /\ at[1] \in Listing /\ at[2] \in Instant
        BY <1>1 DEF TypeOK
    <2>2. Observed(at[1], at[2])
        BY <2>1 DEF StoreInv
    <2>3. PICK src \in states[at].lineage :
            /\ IsGame(src, at[1], at[2])
            /\ SaidBy(at[1], at[2], FactsOf(src), raw[src.snapshot].kind, src)
        BY <2>1, <2>2 DEF Observed
    <2>4. IF FactsOf(src).developer = None THEN at \notin DOMAIN assignments
          ELSE at \in DOMAIN assignments /\ assignments[at] = FactsOf(src).developer.id
        BY <2>1, <2>3 DEF SaidBy
    <2> QED
        BY <2>3, <2>4 DEF IsGame, SaidBy, FactsOf, Group, Stored
<1> QED
    BY <1>2, <1>3, <1>4 DEF ObservationsAreWhole

-----------------------------------------------------------------------------
(* A snapshot is added, or none.                                           *)
RawGrows == DOMAIN raw \subseteq DOMAIN raw' /\ \A k \in DOMAIN raw : raw'[k] = raw[k]
SnapshotType ==
    {[kind |-> body.kind, games |-> body.games, at |-> t] : body \in Response, t \in Instant}

LEMMA GamesAreListed ==
    ASSUME NEW row \in SnapshotType
    PROVE  Len(row.games) \in Nat \ {0} /\ DOMAIN row.games = 1..Len(row.games)
<1>1. PICK body \in Response, at \in Instant :
        row = [kind |-> body.kind, games |-> body.games, at |-> at]
    BY DEF SnapshotType
<1>2. PICK games : games = body.games
    OBVIOUS
<1>3. games \in Seq({games[k] : k \in DOMAIN games}) /\ games # <<>>
    BY <1>2, ResponseAssumption
<1>4. Len(games) \in Nat /\ DOMAIN games = 1..Len(games) /\ Len(games) # 0
    BY <1>3, LenProperties, EmptySeq
<1>5. row.games = games
    BY <1>1, <1>2
<1> QED
    BY <1>4, <1>5

LEMMA RawIsTyped ==
    ASSUME TypeOK
    PROVE  /\ raw \in Seq(SnapshotType) /\ Len(raw) \in Nat /\ DOMAIN raw = 1..Len(raw)
           /\ \A k \in DOMAIN raw : raw[k] \in SnapshotType
<1>1. raw \in Seq(SnapshotType)
    BY DEF TypeOK, SnapshotType
<1>2. Len(raw) \in Nat /\ DOMAIN raw = 1..Len(raw)
    BY <1>1, LenProperties
<1> QED
    BY <1>1, <1>2, ElementOfSeq

LEMMA SourcesGrow ==
    ASSUME RawGrows
    PROVE  Sources \subseteq Sources'
<1> SUFFICES ASSUME NEW src \in Sources PROVE src \in Sources'
    OBVIOUS
<1>1. PICK k \in DOMAIN raw : \E i \in DOMAIN raw[k].games : src = [snapshot |-> k, game |-> i]
    BY SourcesAreGames
<1>2. PICK i \in DOMAIN raw[k].games : src = [snapshot |-> k, game |-> i]
    BY <1>1
<1>3. k \in DOMAIN raw' /\ i \in DOMAIN raw'[k].games
    BY <1>1, <1>2 DEF RawGrows
<1> QED
    BY <1>2, <1>3 DEF Sources

(* An observation that no step touches stays what its game says.           *)
LEMMA ObservedStays ==
    ASSUME StoreInv, RawGrows, NEW l \in Listing, NEW t \in Instant,
           /\ <<l, t>> \in DOMAIN states' <=> <<l, t>> \in DOMAIN states
           /\ <<l, t>> \in DOMAIN states => states'[<<l, t>>] = states[<<l, t>>]
           /\ <<l, t>> \in DOMAIN assignments' <=> <<l, t>> \in DOMAIN assignments
           /\ <<l, t>> \in DOMAIN assignments => assignments'[<<l, t>>] = assignments[<<l, t>>],
           Group(states, l, t)' = Group(states, l, t),
           Group(metrics, l, t)' = Group(metrics, l, t),
           Group(histories, l, t)' = Group(histories, l, t)
    PROVE  Observed(l, t)'
<1>1. Observed(l, t) /\ TypeOK
    BY DEF StoreInv
<1>2. CASE <<l, t>> \in DOMAIN states
    <2>1. PICK src \in states[<<l, t>>].lineage :
            /\ IsGame(src, l, t)
            /\ SaidBy(l, t, FactsOf(src), raw[src.snapshot].kind, src)
        BY <1>1, <1>2 DEF Observed
    <2>2. src \in Sources
        BY <1>1, <1>2, <2>1 DEF TypeOK
    <2>3. src.snapshot \in DOMAIN raw
        BY <1>1, <2>2, GamesAreTyped
    <2>4. raw'[src.snapshot] = raw[src.snapshot]
        BY <2>3 DEF RawGrows
    <2>5. PICK f, kind : f = FactsOf(src) /\ kind = raw[src.snapshot].kind
        OBVIOUS
    <2>6. FactsOf(src)' = f /\ raw'[src.snapshot].kind = kind /\ IsGame(src, l, t)'
        BY <2>1, <2>4, <2>5 DEF FactsOf, IsGame
    <2>7. SaidBy(l, t, f, kind, src)
        BY <2>1, <2>5
    <2>8. SaidBy(l, t, f, kind, src)'
        BY <2>7 DEF SaidBy
    <2>9. SaidBy(l, t, FactsOf(src), raw[src.snapshot].kind, src)'
        BY <2>6, <2>8
    <2> QED
        BY <1>2, <2>1, <2>6, <2>9 DEF Observed
<1>3. CASE <<l, t>> \notin DOMAIN states
    BY <1>1, <1>3 DEF Observed
<1> QED
    BY <1>2, <1>3

-----------------------------------------------------------------------------
(* Commit of a game whose listing was observed at that instant: it is the  *)
(* same game of the same snapshot, or it would clash.                      *)
LEMMA RewriteIsSame ==
    ASSUME StoreInv, NEW src, NEW l, NEW t, NEW f, NEW kind, Says(src, l, t, f, kind),
           ~Clash(l, t, f, kind, src), <<l, t>> \in DOMAIN states
    PROVE  states[<<l, t>>].lineage = {src} /\ SaidBy(l, t, f, kind, src)
<1>1. states[<<l, t>>].lineage = {src}
    BY DEF Clash, StateConflict
<1>2. Observed(l, t)
    BY DEF StoreInv, Says
<1>3. SaidBy(l, t, FactsOf(src), raw[src.snapshot].kind, src)
    BY <1>1, <1>2 DEF Observed
<1> QED
    BY <1>1, <1>3 DEF Says

LEMMA RewriteIsQuiet ==
    ASSUME StoreInv, NEW src, NEW l, NEW t, NEW f, NEW kind, Says(src, l, t, f, kind),
           ~Clash(l, t, f, kind, src), <<l, t>> \in DOMAIN states, Writes(l, t, f, kind, src)
    PROVE  UNCHANGED <<assignments, states, metrics, histories>>
<1>1. SaidBy(l, t, f, kind, src) /\ TablesAreKeyed
    BY RewriteIsSame DEF StoreInv
<1>2. states' = states
    BY <1>1, RowsAreOwned, InsertedAgain DEF SaidBy, TablesAreKeyed, Writes
<1>3. metrics' = metrics
    BY <1>1, RowsAreOwned, InsertedAgain DEF SaidBy, TablesAreKeyed, Writes
<1>4. histories' = histories
    BY <1>1, RowsAreOwned, InsertedAgain DEF SaidBy, TablesAreKeyed, Writes
<1>5. assignments' = assignments
    BY <1>1 DEF SaidBy, Writes, Assign
<1> QED
    BY <1>2, <1>3, <1>4, <1>5

(* Commit of a game whose listing was not observed at that instant.        *)
LEMMA FirstAssigns ==
    ASSUME NEW l, NEW t, NEW f, Assign(l, t, f.developer), <<l, t>> \notin DOMAIN assignments,
           assignments = [at \in DOMAIN assignments |-> assignments[at]]
    PROVE  /\ DOMAIN assignments' = DOMAIN assignments
                 \cup (IF f.developer = None THEN {} ELSE {<<l, t>>})
           /\ \A at \in DOMAIN assignments : assignments'[at] = assignments[at]
           /\ f.developer # None => assignments'[<<l, t>>] = f.developer.id
           /\ assignments' = [at \in DOMAIN assignments' |-> assignments'[at]]
BY DEF Assign, Put

LEMMA FirstStates ==
    ASSUME IsTable(states), NEW l, NEW t, NEW f, NEW src, <<l, t>> \notin DOMAIN states,
           states' = Inserted(states, StateRows(l, t, f), src)
    PROVE  /\ DOMAIN states' = DOMAIN states \cup {<<l, t>>}
           /\ states'[<<l, t>>] = [value |-> State(f), lineage |-> {src}]
           /\ \A at \in DOMAIN states : states'[at] = states[at]
<1>1. DOMAIN StateRows(l, t, f) = {<<l, t>>} /\ StateRows(l, t, f)[<<l, t>>] = State(f)
    BY DEF StateRows
<1>2. \A at \in DOMAIN states : states'[at] = [value |-> states[at].value, lineage |-> states[at].lineage]
    BY <1>1 DEF Inserted
<1>3. \A at \in DOMAIN states : states'[at] = states[at]
    BY <1>2 DEF IsTable
<1> QED
    BY <1>1, <1>3 DEF Inserted

LEMMA FirstWrite ==
    ASSUME StoreInv, NEW src, NEW l, NEW t, NEW f, NEW kind, Says(src, l, t, f, kind),
           <<l, t>> \notin DOMAIN states, Writes(l, t, f, kind, src), raw' = raw
    PROVE  /\ \A k \in Listing, u \in Instant : Observed(k, u)'
           /\ TablesAreKeyed'
<1>1. TypeOK /\ TablesAreKeyed /\ Observed(l, t)
    BY DEF StoreInv, Says
<1>2. /\ <<l, t>> \notin DOMAIN assignments
      /\ Group(states, l, t) = <<>> /\ Group(metrics, l, t) = <<>>
      /\ Group(histories, l, t) = <<>>
    BY <1>1 DEF Observed
<1>3. /\ IsTable(states) /\ IsTable(metrics) /\ IsTable(histories)
      /\ assignments = [at \in DOMAIN assignments |-> assignments[at]]
    BY <1>1 DEF TablesAreKeyed
<1>4. /\ DOMAIN assignments' = DOMAIN assignments
            \cup (IF f.developer = None THEN {} ELSE {<<l, t>>})
      /\ \A at \in DOMAIN assignments : assignments'[at] = assignments[at]
      /\ f.developer # None => assignments'[<<l, t>>] = f.developer.id
      /\ assignments' = [at \in DOMAIN assignments' |-> assignments'[at]]
    BY <1>2, <1>3, FirstAssigns DEF Writes
<1>5. /\ DOMAIN states' = DOMAIN states \cup {<<l, t>>}
      /\ states'[<<l, t>>] = [value |-> State(f), lineage |-> {src}]
      /\ \A at \in DOMAIN states : states'[at] = states[at]
    BY <1>3, FirstStates DEF Writes
<1>6. /\ Owned(StateRows(l, t, f), l, t) /\ Owned(MetricRows(l, t, f), l, t)
      /\ Owned(HistoryRows(l, t, f, kind), l, t)
    BY RowsAreOwned
<1>7. Observed(l, t)'
    <2>1. Group(states', l, t) = Stored(StateRows(l, t, f), src)
        BY <1>2, <1>6, InsertedFirst DEF Writes
    <2>2. Group(metrics', l, t) = Stored(MetricRows(l, t, f), src)
        BY <1>2, <1>6, InsertedFirst DEF Writes
    <2>3. Group(histories', l, t) = Stored(HistoryRows(l, t, f, kind), src)
        BY <1>2, <1>6, InsertedFirst DEF Writes
    <2>4. IF f.developer = None THEN <<l, t>> \notin DOMAIN assignments'
          ELSE <<l, t>> \in DOMAIN assignments' /\ assignments'[<<l, t>>] = f.developer.id
        BY <1>2, <1>4
    <2>5. SaidBy(l, t, f, kind, src)'
        BY <2>1, <2>2, <2>3, <2>4 DEF SaidBy
    <2>6. FactsOf(src)' = f /\ raw'[src.snapshot].kind = kind /\ IsGame(src, l, t)'
        BY DEF Says, FactsOf, IsGame
    <2>7. SaidBy(l, t, FactsOf(src), raw[src.snapshot].kind, src)'
        BY <2>5, <2>6
    <2>8. states'[<<l, t>>].lineage = {src}
        BY <1>5
    <2> QED
        BY <1>5, <2>6, <2>7, <2>8 DEF Observed
<1>8. ASSUME NEW k \in Listing, NEW u \in Instant, k # l \/ u # t
      PROVE  Observed(k, u)'
    <2>1. <<k, u>> # <<l, t>>
        BY <1>8
    <2>2. Group(states', k, u) = Group(states, k, u)
        BY <1>3, <1>6, <1>8, InsertedElsewhere DEF Writes
    <2>3. Group(metrics', k, u) = Group(metrics, k, u)
        BY <1>3, <1>6, <1>8, InsertedElsewhere DEF Writes
    <2>4. Group(histories', k, u) = Group(histories, k, u)
        BY <1>3, <1>6, <1>8, InsertedElsewhere DEF Writes
    <2>5. RawGrows
        BY DEF RawGrows
    <2> QED
        BY <1>4, <1>5, <2>1, <2>2, <2>3, <2>4, <2>5, ObservedStays
<1>9. TablesAreKeyed'
    <2>1. IsTable(states') /\ IsTable(metrics') /\ IsTable(histories')
        BY InsertedIsTable DEF Writes
    <2>2. ASSUME NEW id \in DOMAIN MetricRows(l, t, f) \cup DOMAIN HistoryRows(l, t, f, kind)
          PROVE  id = <<id[1], id[2], id[3]>> /\ id[1] \in Listing /\ id[3] \in Instant
        BY DEF MetricRows, HistoryRows, Says
    <2>3. DOMAIN metrics' \cup DOMAIN histories' = (DOMAIN metrics \cup DOMAIN histories)
            \cup (DOMAIN MetricRows(l, t, f) \cup DOMAIN HistoryRows(l, t, f, kind))
        BY DEF Writes, Inserted
    <2> QED
        BY <1>1, <1>4, <2>1, <2>2, <2>3 DEF TablesAreKeyed
<1> QED
    BY <1>7, <1>8, <1>9

-----------------------------------------------------------------------------
(* The types, part by part.                                                *)
ListingsAreTyped ==
    /\ DOMAIN listings \subseteq Listing
    /\ \A l \in DOMAIN listings :
         /\ listings[l].developer \in Developer \cup {None}
         /\ listings[l].first \in Instant /\ listings[l].last \in Instant
    /\ DOMAIN developers \subseteq Developer
KeysAreTyped ==
    /\ DOMAIN assignments \subseteq Listing \X Instant
    /\ DOMAIN states \subseteq Listing \X Instant
HasSource(table) ==
    \A id \in DOMAIN table : table[id].lineage \subseteq Sources /\ table[id].lineage # {}

LEMMA TypesAreParts ==
    TypeOK <=> /\ raw \in Seq(SnapshotType) /\ pending \in [Process -> Sources \cup {NoWork}]
               /\ ListingsAreTyped /\ KeysAreTyped
               /\ HasSource(states) /\ HasSource(metrics) /\ HasSource(histories)
BY DEF TypeOK, SnapshotType, ListingsAreTyped, KeysAreTyped, HasSource

LEMMA UpsertTypes ==
    ASSUME TypeOK, NEW l \in Listing, NEW t \in Instant, NEW f, FactsAreTyped(f),
           UpsertListing(l, t, f), UpsertDeveloper(f.developer, t)
    PROVE  ListingsAreTyped'
<1>1. ListingsAreTyped
    BY TypesAreParts
<1>2. DOMAIN developers' \subseteq Developer
    BY <1>1 DEF FactsAreTyped, UpsertDeveloper, Put, ListingsAreTyped
<1>3. \A u \in Instant : TextMin(u, t) \in Instant /\ TextMax(u, t) \in Instant
    BY DEF TextMin, TextMax
<1>4. PICK d : d = IF f.developer = None THEN None ELSE f.developer.id
    OBVIOUS
<1>5. d \in Developer \cup {None}
    BY <1>4 DEF FactsAreTyped
<1>6. \A old \in Developer \cup {None}, u \in Instant : Latest(d, old, t, u) \in Developer \cup {None}
    BY <1>5 DEF Latest
<1>7. /\ DOMAIN listings' = DOMAIN listings \cup {l}
      /\ \A k \in DOMAIN listings \ {l} : listings'[k] = listings[k]
    BY DEF UpsertListing, Put
<1>8. /\ listings'[l].developer \in Developer \cup {None}
      /\ listings'[l].first \in Instant /\ listings'[l].last \in Instant
    <2>1. CASE l \notin DOMAIN listings
        BY <1>4, <1>5, <2>1 DEF UpsertListing, Put
    <2>2. CASE l \in DOMAIN listings
        BY <1>1, <1>3, <1>4, <1>6, <2>2 DEF UpsertListing, Put, ListingsAreTyped
    <2> QED
        BY <2>1, <2>2
<1> QED
    BY <1>1, <1>2, <1>7, <1>8 DEF ListingsAreTyped

LEMMA InsertedSources ==
    ASSUME NEW table, HasSource(table), NEW rows, NEW src \in Sources
    PROVE  HasSource(Inserted(table, rows, src))
<1> SUFFICES ASSUME NEW id \in DOMAIN table \cup DOMAIN rows
             PROVE  /\ Inserted(table, rows, src)[id].lineage \subseteq Sources
                    /\ Inserted(table, rows, src)[id].lineage # {}
    BY DEF HasSource, Inserted
<1>1. Inserted(table, rows, src)[id].lineage
        = (IF id \in DOMAIN table THEN table[id].lineage ELSE {})
          \cup (IF id \in DOMAIN rows THEN {src} ELSE {})
    BY DEF Inserted
<1>2. id \in DOMAIN table => table[id].lineage \subseteq Sources /\ table[id].lineage # {}
    BY DEF HasSource
<1> QED
    BY <1>1, <1>2

LEMMA WriteTypes ==
    ASSUME TypeOK, NEW src, NEW l, NEW t, NEW f, NEW kind, Says(src, l, t, f, kind),
           Writes(l, t, f, kind, src), raw' = raw
    PROVE  /\ ListingsAreTyped' /\ KeysAreTyped'
           /\ HasSource(states)' /\ HasSource(metrics)' /\ HasSource(histories)'
<1>1. ListingsAreTyped'
    BY UpsertTypes DEF Writes, Says
<1>2. KeysAreTyped'
    <2>1. DOMAIN assignments' \subseteq DOMAIN assignments \cup {<<l, t>>}
        BY DEF Writes, Assign, Put
    <2>2. DOMAIN states' = DOMAIN states \cup {<<l, t>>}
        BY DEF Writes, Inserted, StateRows
    <2> QED
        BY <2>1, <2>2, TypesAreParts DEF KeysAreTyped, Says
<1>3. Sources' = Sources
    BY DEF Sources
<1>4. HasSource(states') /\ HasSource(metrics') /\ HasSource(histories')
    BY InsertedSources, TypesAreParts DEF Writes, Says
<1> QED
    BY <1>1, <1>2, <1>3, <1>4 DEF HasSource

(* The game a process is at is one its snapshot has.                       *)
LEMMA AdvanceTypes ==
    ASSUME TypeOK, NEW p \in Process, Working(p), Advance(p), raw' = raw
    PROVE  pending' \in [Process -> Sources \cup {NoWork}]
<1>1. pending \in [Process -> Sources \cup {NoWork}] /\ pending[p] \in Sources
    BY DEF TypeOK, Working
<1>2. CASE Drop(p)
    BY <1>1, <1>2 DEF Drop
<1>3. CASE ~Drop(p)
    <2>1. PICK k \in DOMAIN raw : \E i \in DOMAIN raw[k].games :
            pending[p] = [snapshot |-> k, game |-> i]
        BY <1>1, SourcesAreGames
    <2>2. PICK i \in DOMAIN raw[k].games : pending[p] = [snapshot |-> k, game |-> i]
        BY <2>1
    <2>3. i # Len(raw[k].games) /\ pending' = [pending EXCEPT ![p].game = i + 1]
        BY <1>3, <2>2 DEF Advance, Snapshot
    <2>4. Len(raw[k].games) \in Nat /\ DOMAIN raw[k].games = 1..Len(raw[k].games)
        BY <2>1, RawIsTyped, GamesAreListed
    <2>5. i + 1 \in DOMAIN raw[k].games
        BY <2>2, <2>3, <2>4
    <2>6. PICK next : next = [snapshot |-> k, game |-> i + 1]
        OBVIOUS
    <2>7. next \in Sources
        BY <2>1, <2>5, <2>6, SourcesAreGames
    <2>8. [pending[p] EXCEPT !.game = i + 1] = next
        BY <2>2, <2>6
    <2>9. pending' = [pending EXCEPT ![p] = next]
        BY <2>3, <2>8
    <2> QED
        BY <1>1, <2>7, <2>9
<1> QED
    BY <1>2, <1>3

LEMMA StartsAreGames ==
    ASSUME NEW k \in DOMAIN raw, raw[k] \in SnapshotType
    PROVE  [snapshot |-> k, game |-> 1] \in Sources
<1>1. 1 \in DOMAIN raw[k].games
    BY GamesAreListed
<1> QED
    BY <1>1, SourcesAreGames

(* A step that leaves the tables alone: a snapshot may be added.           *)
LEMMA TablesStay ==
    ASSUME StoreInv, UNCHANGED db, RawGrows, raw' \in Seq(SnapshotType),
           pending' \in [Process -> Sources' \cup {NoWork}]
    PROVE  StoreInv'
<1>1. TypeOK /\ TablesAreKeyed
    BY DEF StoreInv
<1>2. UNCHANGED <<listings, developers, assignments, states, metrics, histories>>
    BY DEF db
<1>3. Sources \subseteq Sources'
    BY SourcesGrow
<1>4. ListingsAreTyped' /\ KeysAreTyped'
    BY <1>1, <1>2, TypesAreParts DEF ListingsAreTyped, KeysAreTyped
<1>5. HasSource(states)' /\ HasSource(metrics)' /\ HasSource(histories)'
    BY <1>1, <1>2, <1>3, TypesAreParts DEF HasSource
<1>6. TypeOK'
    BY <1>4, <1>5 DEF TypeOK, SnapshotType, ListingsAreTyped, KeysAreTyped, HasSource
<1>7. TablesAreKeyed'
    BY <1>1, <1>2 DEF TablesAreKeyed, IsTable
<1>8. ASSUME NEW l \in Listing, NEW t \in Instant PROVE Observed(l, t)'
    <2>1. /\ Group(states, l, t)' = Group(states, l, t)
          /\ Group(metrics, l, t)' = Group(metrics, l, t)
          /\ Group(histories, l, t)' = Group(histories, l, t)
        BY <1>2
    <2> QED
        BY <1>2, <2>1, ObservedStays
<1> QED
    BY <1>6, <1>7, <1>8 DEF StoreInv

LEMMA CaptureGrows ==
    ASSUME TypeOK, NEW p \in Process, Capture(p)
    PROVE  /\ RawGrows /\ raw' \in Seq(SnapshotType)
           /\ pending' \in [Process -> Sources' \cup {NoWork}]
<1>1. PICK body \in Response, t \in Instant :
        raw' = Append(raw, [kind |-> body.kind, games |-> body.games, at |-> t])
    BY DEF Capture
<1>2. PICK row : row = [kind |-> body.kind, games |-> body.games, at |-> t]
    OBVIOUS
<1>3. row \in SnapshotType
    BY <1>2 DEF SnapshotType
<1>4. PICK n : n = Len(raw) + 1
    OBVIOUS
<1>5. /\ raw' \in Seq(SnapshotType) /\ Len(raw') = n /\ raw'[n] = row
      /\ \A k \in 1..Len(raw) : raw'[k] = raw[k]
    BY <1>1, <1>2, <1>3, <1>4, RawIsTyped, AppendProperties
<1>6. DOMAIN raw' = 1..n
    BY <1>5, LenProperties
<1>7. RawGrows
    BY <1>4, <1>5, <1>6, RawIsTyped DEF RawGrows
<1>8. [snapshot |-> n, game |-> 1] \in Sources'
    <2>1. 1 \in DOMAIN raw'[n].games /\ n \in DOMAIN raw'
        BY <1>3, <1>4, <1>5, <1>6, GamesAreListed, RawIsTyped
    <2> QED
        BY <2>1 DEF Sources
<1>9. pending' = [pending EXCEPT ![p] = [snapshot |-> n, game |-> 1]]
    BY <1>4 DEF Capture
<1>10. pending \in [Process -> Sources' \cup {NoWork}]
    BY <1>7, SourcesGrow DEF TypeOK
<1> QED
    BY <1>5, <1>7, <1>8, <1>9, <1>10

LEMMA StoreStep ==
    ASSUME StoreInv, [Next]_vars
    PROVE  StoreInv'
<1>1. TypeOK /\ TablesAreKeyed
    BY DEF StoreInv
<1>2. raw' = raw => RawGrows /\ raw' \in Seq(SnapshotType) /\ Sources' = Sources
    BY <1>1, RawIsTyped DEF RawGrows, Sources
<1>3. ASSUME NEW p \in Process, Capture(p) PROVE StoreInv'
    BY <1>1, <1>3, CaptureGrows, TablesStay DEF Capture
<1>4. ASSUME NEW p \in Process, Replay(p) PROVE StoreInv'
    <2>1. PICK k \in DOMAIN raw : pending' = [pending EXCEPT ![p] = [snapshot |-> k, game |-> 1]]
        BY <1>4 DEF Replay
    <2>2. [snapshot |-> k, game |-> 1] \in Sources
        BY <1>1, RawIsTyped, StartsAreGames
    <2>3. pending' \in [Process -> Sources \cup {NoWork}]
        BY <1>1, <2>1, <2>2 DEF TypeOK
    <2> QED
        BY <1>2, <1>4, <2>3, TablesStay DEF Replay
<1>5. ASSUME NEW p \in Process, Refuse(p) \/ Stop(p) PROVE StoreInv'
    <2>1. pending' \in [Process -> Sources \cup {NoWork}]
        BY <1>1, <1>5 DEF TypeOK, Refuse, Stop, Drop
    <2> QED
        BY <1>2, <1>5, <2>1, TablesStay DEF Refuse, Stop
<1>6. ASSUME NEW p \in Process, Commit(p) PROVE StoreInv'
    <2>1. PICK src, l, t, f, kind :
            /\ src = pending[p] /\ Says(src, l, t, f, kind)
            /\ ~Clash(l, t, f, kind, src) /\ Writes(l, t, f, kind, src)
        BY <1>1, <1>6, CommitWrites
    <2>2. raw' = raw /\ pending' \in [Process -> Sources' \cup {NoWork}]
        BY <1>1, <1>2, <1>6, AdvanceTypes DEF Commit
    <2>3. ListingsAreTyped' /\ KeysAreTyped'
          /\ HasSource(states)' /\ HasSource(metrics)' /\ HasSource(histories)'
        BY <1>1, <2>1, <2>2, WriteTypes
    <2>4. TypeOK'
        BY <1>2, <2>2, <2>3 DEF TypeOK, SnapshotType, ListingsAreTyped, KeysAreTyped, HasSource
    <2>5. CASE <<l, t>> \notin DOMAIN states
        BY <2>1, <2>2, <2>4, <2>5, FirstWrite DEF StoreInv
    <2>6. CASE <<l, t>> \in DOMAIN states
        <3>1. UNCHANGED <<assignments, states, metrics, histories>>
            BY <2>1, <2>6, RewriteIsQuiet
        <3>2. TablesAreKeyed'
            BY <1>1, <3>1 DEF TablesAreKeyed, IsTable
        <3>3. ASSUME NEW k \in Listing, NEW u \in Instant PROVE Observed(k, u)'
            <4>1. /\ Group(states, k, u)' = Group(states, k, u)
                  /\ Group(metrics, k, u)' = Group(metrics, k, u)
                  /\ Group(histories, k, u)' = Group(histories, k, u)
                BY <3>1
            <4> QED
                BY <1>2, <2>2, <3>1, <4>1, ObservedStays
        <3> QED
            BY <2>4, <3>2, <3>3 DEF StoreInv
    <2> QED
        BY <2>5, <2>6
<1>7. CASE UNCHANGED vars
    <2>1. UNCHANGED db /\ raw' = raw /\ pending' = pending
        BY <1>7 DEF vars, db
    <2> QED
        BY <1>1, <1>2, <2>1, TablesStay DEF TypeOK
<1> QED
    BY <1>3, <1>4, <1>5, <1>6, <1>7 DEF Next

LEMMA StoreInitially == Init => StoreInv
<1> SUFFICES ASSUME Init PROVE StoreInv
    OBVIOUS
<1>1. DOMAIN <<>> = {} /\ <<>> \in Seq(SnapshotType)
    BY EmptySeq
<1>2. TypeOK
    BY <1>1, TypesAreParts DEF Init, ListingsAreTyped, KeysAreTyped, HasSource
<1>3. TablesAreKeyed
    BY <1>1 DEF Init, TablesAreKeyed, IsTable
<1>4. \A l, t : Group(<<>>, l, t) = <<>>
    BY <1>1 DEF Group
<1> QED
    BY <1>1, <1>2, <1>3, <1>4 DEF Init, StoreInv, Observed

LEMMA StoreInvHolds == Spec => []StoreInv
<1>1. StoreInv /\ [Next]_vars => StoreInv'
    BY StoreStep
<1> QED
    BY <1>1, StoreInitially, PTL DEF Spec

(* The types of what is stored and of what each process is at.             *)
THEOREM ObservationTypesHold == Spec => []TypeOK
<1>1. StoreInv => TypeOK
    BY DEF StoreInv
<1> QED
    BY <1>1, StoreInvHolds, PTL

(* persist_details, persist_play_page: no part of an observation is        *)
(* missing, whatever is killed, refused or written twice.                  *)
THEOREM NoObservationIsPartial == Spec => []ObservationsAreWhole
<1>1. StoreInv => ObservationsAreWhole
    BY ObservedIsWhole
<1> QED
    BY <1>1, StoreInvHolds, PTL

-----------------------------------------------------------------------------
(* The text of the instants sorts as they do: whole seconds, for example,  *)
(* but not a second and a fraction of it.                                  *)
TextSortsAsTime == \A t, u \in Instant : TextBefore(t, u) <=> t < u

LEMMA TextSorts ==
    ASSUME TextSortsAsTime, NEW t \in Instant, NEW u \in Instant
    PROVE  /\ Current(t, u) <=> u <= t
           /\ TextMin(u, t) = (IF u < t THEN u ELSE t)
           /\ TextMax(u, t) = (IF u < t THEN t ELSE u)
<1>1. t \in Nat /\ u \in Nat
    BY InstantAssumption
<1> QED
    BY <1>1 DEF TextSortsAsTime, Current, TextMin, TextMax

LEMMA IdentityIsAsRecorded ==
    ASSUME IdentityInv
    PROVE  IdentityMatchesHistory
BY DEF IdentityInv, IdentityMatchesHistory, ListingMatches, PublishedOf, DeveloperMatches, SeenTimes

(* The instants at which a table has something of a listing or developer.  *)
LEMMA TimesOfTable ==
    ASSUME NEW table, DOMAIN table \subseteq Listing \X Instant, NEW l, NEW t
    PROVE  /\ t \in Times(table, l) <=> <<l, t>> \in DOMAIN table
           /\ <<l, t>> \in DOMAIN table => l \in Listing /\ t \in Instant
BY DEF Times

LEMMA SeenOfTable ==
    ASSUME NEW table, DOMAIN table \subseteq Listing \X Instant, NEW d, NEW t
    PROVE  t \in SeenTimes(table, d) <=>
              \E l \in Listing : <<l, t>> \in DOMAIN table /\ table[<<l, t>>] = d
<1>1. ASSUME t \in SeenTimes(table, d)
      PROVE  \E l \in Listing : <<l, t>> \in DOMAIN table /\ table[<<l, t>>] = d
    <2>1. PICK x \in DOMAIN table : table[x] = d /\ x[2] = t
        BY <1>1 DEF SeenTimes
    <2>2. PICK l \in Listing, u \in Instant : x = <<l, u>>
        OBVIOUS
    <2>3. x = <<l, t>>
        BY <2>1, <2>2
    <2> QED
        BY <2>1, <2>3
<1>2. ASSUME NEW l \in Listing, <<l, t>> \in DOMAIN table, table[<<l, t>>] = d
      PROVE  t \in SeenTimes(table, d)
    <2>1. <<l, t>>[2] = t
        OBVIOUS
    <2> QED
        BY <1>2, <2>1 DEF SeenTimes
<1> QED
    BY <1>1, <1>2

LEMMA PublishedOfTable ==
    ASSUME NEW table, DOMAIN table \subseteq Listing \X Instant, NEW l, NEW x
    PROVE  x \in PublishedOf(table, l) <=>
              x # None /\ \E t : <<l, t>> \in DOMAIN table /\ x = table[<<l, t>>].value.published
BY TimesOfTable DEF PublishedOf

StateSaid(src, l, t, f, kind) ==
    /\ Says(src, l, t, f, kind)
    /\ states[<<l, t>>] = [value |-> State(f), lineage |-> {src}]
    /\ IF f.developer = None THEN <<l, t>> \notin DOMAIN assignments
       ELSE <<l, t>> \in DOMAIN assignments /\ assignments[<<l, t>>] = f.developer.id
    /\ NameAt(l, t) = f.developer.name

LEMMA StatesAreSaid ==
    ASSUME StoreInv, NEW l, NEW t, <<l, t>> \in DOMAIN states
    PROVE  /\ l \in Listing /\ t \in Instant
           /\ \E src, f, kind : StateSaid(src, l, t, f, kind)
<1>1. l \in Listing /\ t \in Instant /\ TypeOK
    BY DEF StoreInv, TypeOK
<1>2. PICK src \in states[<<l, t>>].lineage :
            /\ IsGame(src, l, t)
            /\ SaidBy(l, t, FactsOf(src), raw[src.snapshot].kind, src)
    BY <1>1 DEF StoreInv, Observed
<1>3. src \in Sources
    BY <1>1, <1>2 DEF TypeOK
<1>4. PICK a, u, f, kind : Says(src, a, u, f, kind)
    BY <1>1, <1>3, GamesAreTyped
<1>5. a = l /\ u = t /\ f = FactsOf(src)
    BY <1>2, <1>4 DEF Says, IsGame
<1>6. Group(states, l, t) = Stored(StateRows(l, t, f), src)
    BY <1>2, <1>5 DEF SaidBy
<1>7. Group(states, l, t)[<<l, t>>] = states[<<l, t>>]
    BY <1>1, GroupOfState DEF Group
<1>8. Stored(StateRows(l, t, f), src)[<<l, t>>] = [value |-> State(f), lineage |-> {src}]
    BY DEF Stored, StateRows
<1>9. states[<<l, t>>] = [value |-> State(f), lineage |-> {src}]
    BY <1>6, <1>7, <1>8
<1>10. states[<<l, t>>].lineage = {src}
    BY <1>9
<1>11. NameAt(l, t) = FactsOf(src).developer.name
    BY <1>10 DEF NameAt
<1>12. IF f.developer = None THEN <<l, t>> \notin DOMAIN assignments
       ELSE <<l, t>> \in DOMAIN assignments /\ assignments[<<l, t>>] = f.developer.id
    BY <1>2, <1>5 DEF SaidBy
<1> QED
    BY <1>1, <1>4, <1>5, <1>9, <1>11, <1>12 DEF StateSaid

-----------------------------------------------------------------------------
(* ON CONFLICT(id) DO UPDATE, with the instants compared as numbers.       *)
DeveloperOf(f) == IF f.developer = None THEN None ELSE f.developer.id
MergedListing(old, t, f) ==
    [developer |-> IF old.last <= t /\ DeveloperOf(f) # None THEN DeveloperOf(f) ELSE old.developer,
     published |-> IF f.published # None
                      /\ (old.published = None \/ f.published < old.published)
                   THEN f.published ELSE old.published,
     first |-> IF old.first < t THEN old.first ELSE t,
     last |-> IF old.last < t THEN t ELSE old.last]
MergedDeveloper(old, t, name) ==
    [name |-> IF old.last <= t /\ name # None THEN name ELSE old.name,
     first |-> IF old.first < t THEN old.first ELSE t,
     last |-> IF old.last < t THEN t ELSE old.last]

ListingIsMerged(l, t, f) ==
    /\ DOMAIN listings' = DOMAIN listings \cup {l}
    /\ \A k \in DOMAIN listings \ {l} : listings'[k] = listings[k]
    /\ l \notin DOMAIN listings =>
         listings'[l] = [developer |-> DeveloperOf(f), published |-> f.published,
                         first |-> t, last |-> t]
    /\ l \in DOMAIN listings => listings'[l] = MergedListing(listings[l], t, f)
DeveloperIsMerged(d, t) ==
    /\ DOMAIN developers' = DOMAIN developers \cup {d.id}
    /\ \A e \in DOMAIN developers \ {d.id} : developers'[e] = developers[e]
    /\ d.id \notin DOMAIN developers =>
         developers'[d.id] = [name |-> d.name, first |-> t, last |-> t]
    /\ d.id \in DOMAIN developers =>
         developers'[d.id] = MergedDeveloper(developers[d.id], t, d.name)

LEMMA UpsertedListing ==
    ASSUME TextSortsAsTime, NEW l, NEW t \in Instant, NEW f, UpsertListing(l, t, f),
           l \in DOMAIN listings => listings[l].first \in Instant /\ listings[l].last \in Instant
    PROVE  ListingIsMerged(l, t, f)
<1>1. CASE l \notin DOMAIN listings
    BY <1>1 DEF UpsertListing, Put, DeveloperOf, ListingIsMerged
<1>2. CASE l \in DOMAIN listings
    <2>1. /\ Current(t, listings[l].last) <=> listings[l].last <= t
          /\ TextMin(listings[l].first, t)
               = IF listings[l].first < t THEN listings[l].first ELSE t
          /\ TextMax(listings[l].last, t)
               = IF listings[l].last < t THEN t ELSE listings[l].last
        BY <1>2, TextSorts
    <2>2. Latest(DeveloperOf(f), listings[l].developer, t, listings[l].last)
            = IF listings[l].last <= t /\ DeveloperOf(f) # None THEN DeveloperOf(f)
              ELSE listings[l].developer
        BY <2>1 DEF Latest
    <2> QED
        BY <1>2, <2>1, <2>2 DEF UpsertListing, Put, MergedListing, DeveloperOf, ListingIsMerged
<1> QED
    BY <1>1, <1>2

LEMMA UpsertedDeveloper ==
    ASSUME TextSortsAsTime, NEW t \in Instant, NEW d, UpsertDeveloper(d, t), d # None,
           d.id \in DOMAIN developers => developers[d.id].first \in Instant
                                         /\ developers[d.id].last \in Instant
    PROVE  DeveloperIsMerged(d, t)
<1>1. CASE d.id \notin DOMAIN developers
    BY <1>1 DEF UpsertDeveloper, Put, DeveloperIsMerged
<1>2. CASE d.id \in DOMAIN developers
    <2>1. PICK old : old = developers[d.id]
        OBVIOUS
    <2>2. /\ Current(t, old.last) <=> old.last <= t
          /\ TextMin(old.first, t) = IF old.first < t THEN old.first ELSE t
          /\ TextMax(old.last, t) = IF old.last < t THEN t ELSE old.last
        BY <1>2, <2>1, TextSorts
    <2>3. Latest(d.name, old.name, t, old.last)
            = IF old.last <= t /\ d.name # None THEN d.name ELSE old.name
        BY <2>2 DEF Latest
    <2> QED
        BY <1>2, <2>1, <2>2, <2>3 DEF UpsertDeveloper, Put, MergedDeveloper, DeveloperIsMerged
<1> QED
    BY <1>1, <1>2

LEMMA IdentityIsTyped ==
    ASSUME StoreInv, IdentityInv
    PROVE  /\ \A l \in DOMAIN listings : listings[l].first \in Instant /\ listings[l].last \in Instant
           /\ \A d \in DOMAIN developers : /\ developers[d].first \in Instant
                                           /\ developers[d].last \in Instant
           /\ DOMAIN states \subseteq Listing \X Instant
           /\ DOMAIN assignments \subseteq Listing \X Instant
           /\ \A l : l \in DOMAIN listings <=> \E t : <<l, t>> \in DOMAIN states
<1>1. /\ DOMAIN states \subseteq Listing \X Instant
      /\ DOMAIN assignments \subseteq Listing \X Instant
      /\ \A l \in DOMAIN listings : listings[l].first \in Instant /\ listings[l].last \in Instant
    BY DEF StoreInv, TypeOK
<1>2. ASSUME NEW d \in DOMAIN developers
      PROVE  developers[d].first \in Instant /\ developers[d].last \in Instant
    <2>1. /\ developers[d].first \in SeenTimes(assignments, d)
          /\ developers[d].last \in SeenTimes(assignments, d)
        BY DEF IdentityInv, DeveloperMatches, Oldest, Newest
    <2>2. PICK t, u : t = developers[d].first /\ u = developers[d].last
        OBVIOUS
    <2>3. /\ \E l \in Listing : <<l, t>> \in DOMAIN assignments
          /\ \E l \in Listing : <<l, u>> \in DOMAIN assignments
        BY <1>1, <2>1, <2>2, SeenOfTable
    <2>4. t \in Instant /\ u \in Instant
        BY <1>1, <2>3
    <2> QED
        BY <2>2, <2>4
<1>3. ASSUME NEW l PROVE l \in DOMAIN listings <=> \E t : <<l, t>> \in DOMAIN states
    <2>1. ASSUME l \in DOMAIN listings PROVE \E t : <<l, t>> \in DOMAIN states
        <3>1. PICK id \in DOMAIN states : l = id[1]
            BY <2>1 DEF IdentityInv
        <3>2. id = <<l, id[2]>>
            BY <1>1, <3>1
        <3> QED
            BY <3>2
    <2>2. ASSUME NEW t, <<l, t>> \in DOMAIN states PROVE l \in DOMAIN listings
        <3>1. <<l, t>>[1] = l
            OBVIOUS
        <3> QED
            BY <2>2, <3>1 DEF IdentityInv
    <2> QED
        BY <2>1, <2>2
<1> QED
    BY <1>1, <1>2, <1>3

-----------------------------------------------------------------------------
(* A game written once more: nothing changes but the display name of its   *)
(* developer, if another listing has that developer at that instant.       *)
LEMMA RewriteKeepsListing ==
    ASSUME TextSortsAsTime, StoreInv, IdentityInv,
           NEW src, NEW l, NEW t, NEW f, NEW kind, Says(src, l, t, f, kind),
           ~Clash(l, t, f, kind, src), <<l, t>> \in DOMAIN states, UpsertListing(l, t, f)
    PROVE  listings' = listings
<1>1. PICK d : d = DeveloperOf(f)
    OBVIOUS
<1>2. PICK row : row = listings[l]
    OBVIOUS
<1>3. /\ l \in DOMAIN listings /\ row.first \in Instant /\ row.last \in Instant
      /\ t \in Instant /\ row.first \in Nat /\ row.last \in Nat /\ t \in Nat
      /\ DOMAIN states \subseteq Listing \X Instant /\ FactsAreTyped(f)
    BY <1>2, IdentityIsTyped, InstantAssumption DEF Says
<1>4. SaidBy(l, t, f, kind, src)
    BY RewriteIsSame
<1>5. ListingMatches(l)
    BY <1>3 DEF IdentityInv
<1>6. row.first <= t /\ t <= row.last
    BY <1>2, <1>3, <1>5, TimesOfTable DEF ListingMatches, Oldest, Newest
<1>7. ASSUME row.last <= t, d # None PROVE row.developer = d
    <2>1. row.last = t
        BY <1>3, <1>6, <1>7
    <2>2. f.developer # None /\ d = f.developer.id
        BY <1>1, <1>7 DEF DeveloperOf
    <2>3. <<l, t>> \in DOMAIN assignments /\ assignments[<<l, t>>] = d
        BY <1>4, <2>2 DEF SaidBy
    <2> QED
        BY <1>2, <1>5, <2>1, <2>3 DEF ListingMatches
<1>8. ASSUME f.published # None
      PROVE  row.published # None /\ ~(f.published < row.published)
    <2>1. Group(states, l, t)[<<l, t>>] = states[<<l, t>>]
        BY <1>3, GroupOfState DEF StoreInv, Group
    <2>2. Stored(StateRows(l, t, f), src)[<<l, t>>] = [value |-> State(f), lineage |-> {src}]
        BY DEF Stored, StateRows
    <2>3. states[<<l, t>>] = [value |-> State(f), lineage |-> {src}]
        BY <1>4, <2>1, <2>2 DEF SaidBy
    <2>4. states[<<l, t>>].value = State(f) /\ State(f).published = f.published
        BY <2>3 DEF State
    <2>5. f.published \in PublishedOf(states, l)
        BY <1>3, <1>8, <2>4, PublishedOfTable
    <2>6. Oldest(PublishedOf(states, l), row.published)
        BY <1>2, <1>5, <2>5 DEF ListingMatches
    <2>7. row.published \in PublishedOf(states, l) /\ row.published <= f.published
        BY <2>5, <2>6 DEF Oldest
    <2>8. PICK u : <<l, u>> \in DOMAIN states /\ row.published = states[<<l, u>>].value.published
                   /\ row.published # None
        BY <1>3, <2>7, PublishedOfTable
    <2>9. PICK g : states[<<l, u>>].value = State(g) /\ FactsAreTyped(g)
        <3>1. PICK r, g, kg : StateSaid(r, l, u, g, kg)
            BY <2>8, StatesAreSaid
        <3> QED
            BY <3>1 DEF StateSaid, Says
    <2>10. row.published \in Nat /\ f.published \in Nat
        BY <1>3, <1>8, <2>8, <2>9 DEF State, FactsAreTyped
    <2> QED
        BY <2>7, <2>8, <2>10
<1>9. ListingIsMerged(l, t, f)
    BY <1>2, <1>3, UpsertedListing
<1>10. listings'[l] = [developer |-> row.developer, published |-> row.published,
                      first |-> row.first, last |-> row.last]
    <2>1. (IF row.last <= t /\ d # None THEN d ELSE row.developer) = row.developer
        BY <1>7
    <2>2. (IF f.published # None /\ (row.published = None \/ f.published < row.published)
           THEN f.published ELSE row.published) = row.published
        BY <1>8
    <2>3. (IF row.first < t THEN row.first ELSE t) = row.first
        BY <1>3, <1>6
    <2>4. (IF row.last < t THEN t ELSE row.last) = row.last
        BY <1>3, <1>6
    <2>5. listings'[l] = MergedListing(row, t, f)
        BY <1>2, <1>3, <1>9 DEF ListingIsMerged
    <2> QED
        BY <1>1, <2>1, <2>2, <2>3, <2>4, <2>5 DEF MergedListing
<1>11. listings'[l] = listings[l]
    BY <1>2, <1>3, <1>10 DEF IdentityInv
<1>12. /\ DOMAIN listings' = DOMAIN listings
       /\ \A k \in DOMAIN listings : listings'[k] = listings[k]
    <2>1. /\ DOMAIN listings' = DOMAIN listings \cup {l}
          /\ \A k \in DOMAIN listings \ {l} : listings'[k] = listings[k]
        BY <1>9 DEF ListingIsMerged
    <2> QED
        BY <1>3, <1>11, <2>1
<1>13. listings' = [k \in DOMAIN listings' |-> listings'[k]]
    BY DEF UpsertListing, Put
<1>14. listings = [k \in DOMAIN listings |-> listings[k]]
    BY DEF IdentityInv
<1> QED
    BY <1>12, <1>13, <1>14

(* The developer of a rewritten game gets the display name of that game,   *)
(* which another listing replaced at the same instant.                     *)
IsRenamed(d, l, t, f) ==
    /\ d = f.developer.id /\ f.developer # None /\ f.developer.name # None
    /\ developers' = [developers EXCEPT ![d].name = f.developer.name]
    /\ developers[d].last = t
    /\ Sighted(l, d, t) /\ NameAt(l, t) = f.developer.name
    /\ \E k \in Listing \ {l} : /\ <<k, t>> \in DOMAIN assignments
                               /\ assignments[<<k, t>>] = d

LEMMA RewriteKeepsDeveloper ==
    ASSUME TextSortsAsTime, StoreInv, IdentityInv,
           NEW src, NEW l, NEW t, NEW f, NEW kind, Says(src, l, t, f, kind),
           ~Clash(l, t, f, kind, src), <<l, t>> \in DOMAIN states,
           UpsertDeveloper(f.developer, t)
    PROVE  \/ UNCHANGED developers
           \/ \E d \in DOMAIN developers : IsRenamed(d, l, t, f)
<1>1. CASE f.developer = None
    BY <1>1 DEF UpsertDeveloper
<1>2. CASE f.developer # None
    <2>1. PICK d, name : d = f.developer.id /\ name = f.developer.name
        OBVIOUS
    <2>2. states[<<l, t>>].lineage = {src} /\ SaidBy(l, t, f, kind, src)
        BY RewriteIsSame
    <2>3. l \in Listing /\ Sighted(l, d, t)
        BY <1>2, <2>1, <2>2 DEF SaidBy, Says, Sighted
    <2>4. NameAt(l, t) = name
        BY <2>1, <2>2 DEF NameAt, Says
    <2>5. d \in DOMAIN developers /\ DeveloperMatches(d) /\ NameIsSeen(d)
        BY <2>3 DEF IdentityInv, Sighted
    <2>6. PICK row : row = developers[d]
        OBVIOUS
    <2>7. /\ t \in Instant /\ row.first \in Instant /\ row.last \in Instant
          /\ t \in Nat /\ row.first \in Nat /\ row.last \in Nat
          /\ DOMAIN assignments \subseteq Listing \X Instant
        BY <2>5, <2>6, IdentityIsTyped, InstantAssumption DEF Says
    <2>8. t \in SeenTimes(assignments, d)
        BY <2>3, <2>7, SeenOfTable DEF Sighted
    <2>9. row.first <= t /\ t <= row.last
        BY <2>5, <2>6, <2>8 DEF DeveloperMatches, Oldest, Newest
    <2>10. PICK new : new = IF row.last <= t /\ name # None THEN name ELSE row.name
        OBVIOUS
    <2>11. /\ (IF row.first < t THEN row.first ELSE t) = row.first
           /\ (IF row.last < t THEN t ELSE row.last) = row.last
        BY <2>7, <2>9
    <2>12. /\ DOMAIN developers' = DOMAIN developers
           /\ \A e \in DOMAIN developers \ {d} : developers'[e] = developers[e]
           /\ developers'[d] = [name |-> new, first |-> row.first, last |-> row.last]
        <3>1. /\ DOMAIN developers' = DOMAIN developers \cup {d}
              /\ \A e \in DOMAIN developers \ {d} : developers'[e] = developers[e]
              /\ developers'[d] = MergedDeveloper(row, t, name)
            <4>1. DeveloperIsMerged(f.developer, t)
                BY <1>2, <2>1, <2>5, <2>6, <2>7, UpsertedDeveloper
            <4> QED
                BY <2>1, <2>5, <2>6, <4>1 DEF DeveloperIsMerged
        <3>2. DOMAIN developers' = DOMAIN developers
            BY <2>5, <3>1
        <3> QED
            BY <2>10, <2>11, <3>1, <3>2 DEF MergedDeveloper
    <2>13. developers[d] = [name |-> row.name, first |-> row.first, last |-> row.last]
        BY <2>5, <2>6 DEF IdentityInv
    <2>14. developers' = [e \in DOMAIN developers' |-> developers'[e]]
        BY <1>2 DEF UpsertDeveloper, Put
    <2>15. developers = [e \in DOMAIN developers |-> developers[e]]
        BY DEF IdentityInv
    <2>16. CASE new = row.name
        BY <2>12, <2>13, <2>14, <2>15, <2>16
    <2>17. CASE new # row.name
        <3>1. row.last = t /\ name # None /\ new = name
            BY <2>7, <2>9, <2>10, <2>17
        <3>2. PICK k : Sighted(k, d, t) /\ NameAt(k, t) = row.name
            BY <2>3, <2>4, <2>5, <2>6, <3>1 DEF NameIsSeen
        <3>3. k \in Listing \ {l} /\ <<k, t>> \in DOMAIN assignments /\ assignments[<<k, t>>] = d
            BY <2>4, <2>17, <3>1, <3>2 DEF Sighted
        <3>4. [developers[d] EXCEPT !.name = name]
                = [name |-> name, first |-> row.first, last |-> row.last]
            BY <2>13
        <3>5. developers' = [developers EXCEPT ![d].name = name]
            BY <2>5, <2>12, <2>14, <2>15, <3>1, <3>4
        <3> QED
            BY <1>2, <2>1, <2>3, <2>4, <2>5, <2>6, <3>1, <3>3, <3>5 DEF IsRenamed
    <2> QED
        BY <2>16, <2>17
<1> QED
    BY <1>1, <1>2

(* What is known of a sighting, and does not change when others are added. *)
LEMMA SightingStays ==
    ASSUME StoreInv, RawGrows, NEW k, NEW u, <<k, u>> \in DOMAIN states,
           states'[<<k, u>>] = states[<<k, u>>]
    PROVE  NameAt(k, u)' = NameAt(k, u)
<1>1. PICK src : src = CHOOSE r \in states[<<k, u>>].lineage : TRUE
    OBVIOUS
<1>2. TypeOK
    BY DEF StoreInv
<1>3. src \in Sources
    BY <1>1, <1>2 DEF TypeOK
<1>4. raw'[src.snapshot] = raw[src.snapshot]
    BY <1>2, <1>3, GamesAreTyped DEF RawGrows
<1>5. (CHOOSE r \in states'[<<k, u>>].lineage : TRUE) = src
    BY <1>1
<1> QED
    BY <1>1, <1>4, <1>5 DEF NameAt, FactsOf

LEMMA SightedIsStored ==
    ASSUME StoreInv, NEW k, NEW d, NEW u, Sighted(k, d, u)
    PROVE  <<k, u>> \in DOMAIN states
<1>1. k \in Listing /\ u \in Instant
    BY DEF StoreInv, TypeOK, Sighted
<1>2. Observed(k, u)
    BY <1>1 DEF StoreInv
<1> QED
    BY <1>2 DEF Observed, Sighted

(* Nothing is recorded but, perhaps, a snapshot.                           *)
LEMMA IdentityStays ==
    ASSUME StoreInv, IdentityInv, UNCHANGED db, RawGrows
    PROVE  IdentityInv'
<1>1. UNCHANGED <<listings, developers, assignments, states>>
    BY DEF db
<1>2. ASSUME NEW d \in DOMAIN developers PROVE NameIsSeen(d)'
    <2>1. PICK last, name : last = developers[d].last /\ name = developers[d].name
        OBVIOUS
    <2>2. \A k : Sighted(k, d, last)' <=> Sighted(k, d, last)
        BY <1>1 DEF Sighted
    <2>3. ASSUME NEW k, Sighted(k, d, last) PROVE NameAt(k, last)' = NameAt(k, last)
        BY <1>1, <2>3, SightedIsStored, SightingStays
    <2>4. NameIsSeen(d)
        BY DEF IdentityInv
    <2> QED
        BY <1>1, <2>1, <2>2, <2>3, <2>4 DEF NameIsSeen
<1>3. ASSUME NEW l \in DOMAIN listings PROVE ListingMatches(l)'
    <2>1. ListingMatches(l)
        BY DEF IdentityInv
    <2> QED
        BY <1>1, <2>1 DEF ListingMatches
<1>4. ASSUME NEW d \in DOMAIN developers PROVE DeveloperMatches(d)'
    <2>1. DeveloperMatches(d)
        BY DEF IdentityInv
    <2> QED
        BY <1>1, <2>1 DEF DeveloperMatches
<1> QED
    BY <1>1, <1>2, <1>3, <1>4 DEF IdentityInv

LEMMA RewriteIdentity ==
    ASSUME TextSortsAsTime, StoreInv, IdentityInv, raw' = raw,
           NEW src, NEW l, NEW t, NEW f, NEW kind, Says(src, l, t, f, kind),
           ~Clash(l, t, f, kind, src), <<l, t>> \in DOMAIN states, Writes(l, t, f, kind, src)
    PROVE  IdentityInv'
<1>1. UNCHANGED <<listings, assignments, states, metrics, histories>>
    BY RewriteIsQuiet, RewriteKeepsListing DEF Writes
<1>2. RawGrows
    BY DEF RawGrows
<1>3. CASE UNCHANGED developers
    BY <1>1, <1>2, <1>3, IdentityStays DEF db
<1>4. ASSUME NEW d \in DOMAIN developers, NEW name, name # None,
             developers' = [developers EXCEPT ![d].name = name], developers[d].last = t,
             Sighted(l, d, t), NameAt(l, t) = name
      PROVE  IdentityInv'
    <2>1. PICK row : row = developers[d]
        OBVIOUS
    <2>2. /\ row = [name |-> row.name, first |-> row.first, last |-> row.last]
          /\ developers = [e \in DOMAIN developers |-> developers[e]]
        BY <2>1 DEF IdentityInv
    <2>3. [row EXCEPT !.name = name] = [name |-> name, first |-> row.first, last |-> row.last]
        BY <2>2
    <2>4. /\ DOMAIN developers' = DOMAIN developers
          /\ developers'[d] = [name |-> name, first |-> row.first, last |-> row.last]
          /\ \A e \in DOMAIN developers \ {d} : developers'[e] = developers[e]
        BY <1>4, <2>1, <2>3
    <2>5. \A k, e, u : (Sighted(k, e, u)' <=> Sighted(k, e, u)) /\ NameAt(k, u)' = NameAt(k, u)
        BY <1>1 DEF Sighted, NameAt, FactsOf
    <2>6. ASSUME NEW e \in DOMAIN developers
          PROVE  /\ developers'[e].first = developers[e].first
                 /\ developers'[e].last = developers[e].last
                 /\ e # d => developers'[e].name = developers[e].name
        BY <2>1, <2>4
    <2>7. ASSUME NEW e \in DOMAIN developers PROVE DeveloperMatches(e)' /\ NameIsSeen(e)'
        <3>1. DeveloperMatches(e) /\ NameIsSeen(e)
            BY DEF IdentityInv
        <3>2. DeveloperMatches(e)'
            BY <1>1, <2>6, <3>1 DEF DeveloperMatches
        <3>3. CASE e = d
            <4>1. developers'[d].name = name /\ developers'[d].last = t
                BY <1>4, <2>1, <2>4
            <4>2. Sighted(l, d, t)' /\ NameAt(l, t)' = name
                BY <1>4, <2>5
            <4>3. NameIsSeen(d)'
                BY <4>1, <4>2 DEF NameIsSeen
            <4> QED
                BY <3>2, <3>3, <4>3
        <3>4. CASE e # d
            BY <2>5, <2>6, <3>1, <3>2, <3>4 DEF NameIsSeen
        <3> QED
            BY <3>3, <3>4
    <2>8. ASSUME NEW k \in DOMAIN listings PROVE ListingMatches(k)'
        <3>1. ListingMatches(k)
            BY DEF IdentityInv
        <3> QED
            BY <1>1, <3>1 DEF ListingMatches
    <2>9. developers' = [e \in DOMAIN developers' |->
            [name |-> developers'[e].name,
             first |-> developers'[e].first, last |-> developers'[e].last]]
        <3>1. \A e \in DOMAIN developers : developers'[e]
                = [name |-> developers'[e].name,
                   first |-> developers'[e].first, last |-> developers'[e].last]
            BY <2>4 DEF IdentityInv
        <3>2. developers' = [e \in DOMAIN developers |-> developers'[e]]
            BY <1>4, <2>2
        <3> QED
            BY <2>4, <3>1, <3>2
    <2> QED
        BY <1>1, <2>4, <2>7, <2>8, <2>9 DEF IdentityInv
<1>5. UpsertDeveloper(f.developer, t)
    BY DEF Writes
<1> QED
    BY <1>3, <1>4, <1>5, RewriteKeepsDeveloper DEF IsRenamed

-----------------------------------------------------------------------------
(* A game written for the first time.                                      *)
FirstTables(l, t, f, src) ==
    /\ DOMAIN states' = DOMAIN states \cup {<<l, t>>}
    /\ <<l, t>> \notin DOMAIN states /\ <<l, t>> \notin DOMAIN assignments
    /\ states'[<<l, t>>] = [value |-> State(f), lineage |-> {src}]
    /\ \A at \in DOMAIN states : states'[at] = states[at]
    /\ DOMAIN assignments' = DOMAIN assignments
         \cup (IF f.developer = None THEN {} ELSE {<<l, t>>})
    /\ \A at \in DOMAIN assignments : assignments'[at] = assignments[at]
    /\ f.developer # None => assignments'[<<l, t>>] = f.developer.id

LEMMA FirstIsAdded ==
    ASSUME StoreInv, NEW src, NEW l, NEW t, NEW f, NEW kind, Says(src, l, t, f, kind),
           <<l, t>> \notin DOMAIN states, Writes(l, t, f, kind, src)
    PROVE  FirstTables(l, t, f, src)
<1>1. Observed(l, t) /\ TablesAreKeyed
    BY DEF StoreInv, Says
<1>2. <<l, t>> \notin DOMAIN assignments
    BY <1>1 DEF Observed
<1>3. IsTable(states) /\ assignments = [at \in DOMAIN assignments |-> assignments[at]]
    BY <1>1 DEF TablesAreKeyed
<1>4. /\ DOMAIN assignments' = DOMAIN assignments
            \cup (IF f.developer = None THEN {} ELSE {<<l, t>>})
      /\ \A at \in DOMAIN assignments : assignments'[at] = assignments[at]
      /\ f.developer # None => assignments'[<<l, t>>] = f.developer.id
    BY <1>2, <1>3, FirstAssigns DEF Writes
<1>5. /\ DOMAIN states' = DOMAIN states \cup {<<l, t>>}
      /\ states'[<<l, t>>] = [value |-> State(f), lineage |-> {src}]
      /\ \A at \in DOMAIN states : states'[at] = states[at]
    BY <1>3, FirstStates DEF Writes
<1> QED
    BY <1>2, <1>4, <1>5 DEF FirstTables

(* What a table says of a listing: as before, and the new sighting.        *)
LEMMA RowIsAdded ==
    ASSUME NEW old, NEW new, DOMAIN old \subseteq Listing \X Instant,
           NEW l \in Listing, NEW t \in Instant, <<l, t>> \notin DOMAIN old,
           DOMAIN new = DOMAIN old \cup {<<l, t>>},
           \A at \in DOMAIN old : new[at] = old[at],
           NEW f, new[<<l, t>>].value.published = f
    PROVE  /\ Times(new, l) = Times(old, l) \cup {t} /\ t \notin Times(old, l)
           /\ PublishedOf(new, l) = PublishedOf(old, l) \cup ({f} \ {None})
           /\ \A k : k # l => /\ Times(new, k) = Times(old, k)
                              /\ PublishedOf(new, k) = PublishedOf(old, k)
<1>1. DOMAIN new \subseteq Listing \X Instant
    OBVIOUS
<1>2. ASSUME NEW k
      PROVE  /\ Times(new, k) = Times(old, k) \cup (IF k = l THEN {t} ELSE {})
             /\ PublishedOf(new, k)
                  = PublishedOf(old, k) \cup (IF k = l THEN {f} \ {None} ELSE {})
    <2>1. ASSUME NEW u
          PROVE  /\ u \in Times(new, k) <=> <<k, u>> \in DOMAIN new
                 /\ u \in Times(old, k) <=> <<k, u>> \in DOMAIN old
        BY <1>1, TimesOfTable
    <2>2. ASSUME NEW x
          PROVE  /\ x \in PublishedOf(new, k) <=> x # None /\ \E u :
                       <<k, u>> \in DOMAIN new /\ x = new[<<k, u>>].value.published
                 /\ x \in PublishedOf(old, k) <=> x # None /\ \E u :
                       <<k, u>> \in DOMAIN old /\ x = old[<<k, u>>].value.published
        <3>1. x \in PublishedOf(new, k) <=> x # None /\ \E u :
                       <<k, u>> \in DOMAIN new /\ x = new[<<k, u>>].value.published
            BY <1>1, TimesOfTable DEF PublishedOf
        <3>2. x \in PublishedOf(old, k) <=> x # None /\ \E u :
                       <<k, u>> \in DOMAIN old /\ x = old[<<k, u>>].value.published
            BY TimesOfTable DEF PublishedOf
        <3> QED
            BY <3>1, <3>2
    <2>3. \A u : <<k, u>> \in DOMAIN new <=> <<k, u>> \in DOMAIN old \/ (k = l /\ u = t)
        OBVIOUS
    <2>4. \A u : <<k, u>> \in DOMAIN old =>
                    new[<<k, u>>].value.published = old[<<k, u>>].value.published
        OBVIOUS
    <2>5. Times(new, k) = Times(old, k) \cup (IF k = l THEN {t} ELSE {})
        BY <2>1, <2>3
    <2>6. ASSUME NEW x
          PROVE  x \in PublishedOf(new, k) <=>
                    x \in PublishedOf(old, k) \/ (k = l /\ x = f /\ x # None)
        <3>1. \A u : k = l /\ u = t => new[<<k, u>>].value.published = f
            OBVIOUS
        <3> QED
            <4>1. ASSUME x \in PublishedOf(new, k)
                  PROVE  x \in PublishedOf(old, k) \/ (k = l /\ x = f /\ x # None)
                <5>1. PICK u : /\ <<k, u>> \in DOMAIN new /\ x # None
                               /\ x = new[<<k, u>>].value.published
                    BY <2>2, <4>1
                <5>2. CASE <<k, u>> \in DOMAIN old
                    BY <2>2, <2>4, <5>1, <5>2
                <5>3. CASE <<k, u>> \notin DOMAIN old
                    BY <2>3, <3>1, <5>1, <5>3
                <5> QED
                    BY <5>2, <5>3
            <4>2. ASSUME x \in PublishedOf(old, k) PROVE x \in PublishedOf(new, k)
                <5>1. PICK u : /\ <<k, u>> \in DOMAIN old /\ x # None
                               /\ x = old[<<k, u>>].value.published
                    BY <2>2, <4>2
                <5>2. <<k, u>> \in DOMAIN new /\ x = new[<<k, u>>].value.published
                    BY <2>3, <2>4, <5>1
                <5> QED
                    BY <2>2, <5>1, <5>2
            <4>3. ASSUME k = l, x = f, x # None PROVE x \in PublishedOf(new, k)
                <5>1. <<k, t>> \in DOMAIN new /\ x = new[<<k, t>>].value.published
                    BY <4>3
                <5> QED
                    BY <2>2, <4>3, <5>1
            <4> QED
                BY <4>1, <4>2, <4>3
    <2> QED
        BY <2>5, <2>6
<1>3. t \notin Times(old, l)
    BY TimesOfTable
<1> QED
    BY <1>2, <1>3

LEMMA FirstTimes ==
    ASSUME StoreInv, IdentityInv, NEW l \in Listing, NEW t \in Instant, NEW f, NEW src,
           FirstTables(l, t, f, src)
    PROVE  /\ DOMAIN states' \subseteq Listing \X Instant
           /\ DOMAIN assignments' \subseteq Listing \X Instant
           /\ Times(states', l) = Times(states, l) \cup {t} /\ t \notin Times(states, l)
           /\ PublishedOf(states', l) = PublishedOf(states, l) \cup ({f.published} \ {None})
           /\ \A k : k # l => /\ Times(states', k) = Times(states, k)
                              /\ PublishedOf(states', k) = PublishedOf(states, k)
<1>1. /\ DOMAIN states \subseteq Listing \X Instant
      /\ DOMAIN assignments \subseteq Listing \X Instant
    BY IdentityIsTyped
<1>2. /\ DOMAIN states' \subseteq Listing \X Instant
      /\ DOMAIN assignments' \subseteq Listing \X Instant
    BY <1>1 DEF FirstTables
<1>3. states'[<<l, t>>].value.published = f.published
    BY DEF FirstTables, State
<1>4. PICK old, new : old = states /\ new = states'
    OBVIOUS
<1>5. /\ DOMAIN new = DOMAIN old \cup {<<l, t>>} /\ <<l, t>> \notin DOMAIN old
      /\ \A at \in DOMAIN old : new[at] = old[at]
      /\ new[<<l, t>>].value.published = f.published /\ DOMAIN old \subseteq Listing \X Instant
    BY <1>1, <1>3, <1>4 DEF FirstTables
<1>6. /\ Times(new, l) = Times(old, l) \cup {t} /\ t \notin Times(old, l)
      /\ PublishedOf(new, l) = PublishedOf(old, l) \cup ({f.published} \ {None})
      /\ \A k : k # l => /\ Times(new, k) = Times(old, k)
                         /\ PublishedOf(new, k) = PublishedOf(old, k)
    BY <1>5, RowIsAdded
<1> QED
    BY <1>2, <1>4, <1>6

LEMMA PublishedAreNumbers ==
    ASSUME StoreInv, NEW l, NEW x \in PublishedOf(states, l)
    PROVE  x \in Nat
<1>1. DOMAIN states \subseteq Listing \X Instant
    BY DEF StoreInv, TypeOK
<1>2. PICK t : <<l, t>> \in DOMAIN states /\ x = states[<<l, t>>].value.published /\ x # None
    BY <1>1, TimesOfTable DEF PublishedOf
<1>3. PICK src, f, kind : StateSaid(src, l, t, f, kind)
    BY <1>2, StatesAreSaid
<1>4. states[<<l, t>>].value = State(f)
    BY <1>3 DEF StateSaid
<1>5. x = f.published
    BY <1>2, <1>4 DEF State
<1> QED
    BY <1>2, <1>3, <1>5 DEF StateSaid, Says, FactsAreTyped

LEMMA FirstListing ==
    ASSUME TextSortsAsTime, StoreInv, IdentityInv,
           NEW l \in Listing, NEW t \in Instant, NEW f, NEW src, FactsAreTyped(f),
           FirstTables(l, t, f, src), UpsertListing(l, t, f)
    PROVE  ListingMatches(l)'
<1>1. PICK row : row = listings[l]
    OBVIOUS
<1>2. PICK new : new = listings'[l]
    OBVIOUS
<1>3. PICK times, published, d : /\ times = Times(states, l) /\ d = DeveloperOf(f)
                                 /\ published = PublishedOf(states, l)
    OBVIOUS
<1>4. /\ l \in DOMAIN listings => row.first \in Instant /\ row.last \in Instant
      /\ DOMAIN states \subseteq Listing \X Instant
      /\ DOMAIN assignments \subseteq Listing \X Instant
      /\ l \in DOMAIN listings <=> \E u : <<l, u>> \in DOMAIN states
    BY <1>1, IdentityIsTyped
<1>5. ListingIsMerged(l, t, f)
    BY <1>1, <1>4, UpsertedListing
<1>6. /\ Times(states', l) = times \cup {t} /\ t \notin times
      /\ PublishedOf(states', l) = published \cup ({f.published} \ {None})
      /\ DOMAIN assignments' \subseteq Listing \X Instant
    BY <1>3, FirstTimes
<1>7. /\ <<l, t>> \in DOMAIN assignments' <=> f.developer # None
      /\ d # None <=> f.developer # None
      /\ d # None => assignments'[<<l, t>>] = d
    BY <1>3, NoneAssumption DEF FirstTables, DeveloperOf, FactsAreTyped
<1>8. \A u : <<l, u>> \in DOMAIN assignments => <<l, u>> \in DOMAIN assignments'
                  /\ assignments'[<<l, u>>] = assignments[<<l, u>>]
    BY DEF FirstTables
<1>9. \A u : u # t /\ <<l, u>> \in DOMAIN assignments' => <<l, u>> \in DOMAIN assignments
    BY DEF FirstTables
<1>10. \A u : u \in Times(assignments', l) <=> <<l, u>> \in DOMAIN assignments'
    BY <1>6, TimesOfTable
<1>11. t \in Nat /\ \A u \in times : u \in Nat
    BY <1>3, <1>4, TimesOfTable, InstantAssumption
<1>12. \A x \in published : x \in Nat /\ x # None
    BY <1>3, PublishedAreNumbers DEF PublishedOf
<1>13. CASE l \notin DOMAIN listings
    <2>1. new = [developer |-> d, published |-> f.published, first |-> t, last |-> t]
        BY <1>2, <1>3, <1>5, <1>13 DEF ListingIsMerged
    <2>2. new.developer = d /\ new.published = f.published /\ new.first = t /\ new.last = t
        BY <2>1
    <2>3. times = {}
        BY <1>3, <1>4, <1>13, TimesOfTable
    <2>4. published = {}
        BY <1>3, <2>3 DEF PublishedOf
    <2>5. Oldest({t}, t) /\ Newest({t}, t)
        BY <1>11 DEF Oldest, Newest
    <2>6. IF PublishedOf(states', l) = {} THEN new.published = None
          ELSE Oldest(PublishedOf(states', l), new.published)
        BY <1>6, <2>2, <2>4 DEF Oldest, FactsAreTyped
    <2>7. <<l, new.last>> \in DOMAIN assignments' => new.developer = assignments'[<<l, new.last>>]
        BY <1>7, <2>2
    <2>8. new.developer # None =>
             \E u \in Times(assignments', l) : assignments'[<<l, u>>] = new.developer
        BY <1>7, <1>10, <2>2
    <2> QED
        BY <1>2, <1>6, <2>2, <2>3, <2>5, <2>6, <2>7, <2>8 DEF ListingMatches
<1>14. CASE l \in DOMAIN listings
    <2>1. ListingMatches(l)
        BY <1>14 DEF IdentityInv
    <2>2. /\ Oldest(times, row.first) /\ Newest(times, row.last)
          /\ IF published = {} THEN row.published = None ELSE Oldest(published, row.published)
          /\ <<l, row.last>> \in DOMAIN assignments =>
                row.developer = assignments[<<l, row.last>>]
          /\ row.developer # None =>
                \E u : <<l, u>> \in DOMAIN assignments /\ assignments[<<l, u>>] = row.developer
        BY <1>1, <1>3, <1>4, <2>1, TimesOfTable DEF ListingMatches
    <2>3. new = MergedListing(row, t, f)
        BY <1>1, <1>2, <1>5, <1>14 DEF ListingIsMerged
    <2>4. /\ new.developer = IF row.last <= t /\ d # None THEN d ELSE row.developer
          /\ new.published = IF f.published # None
                                /\ (row.published = None \/ f.published < row.published)
                             THEN f.published ELSE row.published
          /\ new.first = IF row.first < t THEN row.first ELSE t
          /\ new.last = IF row.last < t THEN t ELSE row.last
        BY <1>3, <2>3 DEF MergedListing
    <2>5. row.first \in Nat /\ row.last \in Nat /\ row.first \in times /\ row.last \in times
          /\ row.last # t
        BY <1>6, <1>11, <2>2 DEF Oldest, Newest
    <2>6. Oldest(times \cup {t}, new.first) /\ Newest(times \cup {t}, new.last)
        BY <1>11, <2>2, <2>4, <2>5 DEF Oldest, Newest
    <2>7. IF PublishedOf(states', l) = {} THEN new.published = None
          ELSE Oldest(PublishedOf(states', l), new.published)
        <3>1. CASE f.published = None
            <4>1. PublishedOf(states', l) = published /\ new.published = row.published
                BY <1>6, <2>4, <3>1
            <4> QED
                BY <2>2, <4>1
        <3>2. CASE f.published # None
            <4>1. PublishedOf(states', l) = published \cup {f.published} /\ f.published \in Nat
                BY <1>6, <3>2 DEF FactsAreTyped
            <4>2. Oldest(published \cup {f.published}, new.published)
                <5>1. CASE published = {}
                    BY <2>2, <2>4, <3>2, <4>1, <5>1 DEF Oldest
                <5>2. CASE published # {}
                    <6>1. row.published \in published /\ row.published \in Nat
                          /\ row.published # None /\ \A x \in published : row.published <= x
                        BY <1>12, <2>2, <5>2 DEF Oldest
                    <6> QED
                        BY <1>12, <2>4, <3>2, <4>1, <6>1 DEF Oldest
                <5> QED
                    BY <5>1, <5>2
            <4> QED
                BY <4>1, <4>2
        <3> QED
            BY <3>1, <3>2
    <2>8. <<l, new.last>> \in DOMAIN assignments' => new.developer = assignments'[<<l, new.last>>]
        <3>1. CASE row.last < t
            BY <1>7, <1>11, <2>4, <2>5, <3>1
        <3>2. CASE ~(row.last < t)
            <4>1. new.last = row.last /\ new.developer = row.developer /\ row.last # t
                BY <1>11, <2>4, <2>5, <3>2
            <4> QED
                BY <1>8, <1>9, <2>2, <4>1
        <3> QED
            BY <3>1, <3>2
    <2>9. new.developer # None =>
             \E u \in Times(assignments', l) : assignments'[<<l, u>>] = new.developer
        <3>1. CASE new.developer = d /\ d # None
            BY <1>7, <1>10, <3>1
        <3>2. CASE new.developer = row.developer
            BY <1>8, <1>10, <2>2, <3>2
        <3> QED
            BY <2>4, <3>1, <3>2
    <2> QED
        BY <1>2, <1>6, <2>6, <2>7, <2>8, <2>9 DEF ListingMatches
<1> QED
    BY <1>13, <1>14

LEMMA OtherListings ==
    ASSUME StoreInv, IdentityInv, NEW l \in Listing, NEW t \in Instant, NEW f, NEW src,
           FirstTables(l, t, f, src), NEW k \in DOMAIN listings, k # l, listings'[k] = listings[k]
    PROVE  ListingMatches(k)'
<1>1. ListingMatches(k)
    BY DEF IdentityInv
<1>2. /\ Times(states', k) = Times(states, k) /\ PublishedOf(states', k) = PublishedOf(states, k)
      /\ DOMAIN assignments' \subseteq Listing \X Instant
      /\ DOMAIN assignments \subseteq Listing \X Instant
    BY FirstTimes, IdentityIsTyped
<1>3. \A u : <<k, u>> # <<l, t>>
    OBVIOUS
<1>4. \A u : /\ <<k, u>> \in DOMAIN assignments' <=> <<k, u>> \in DOMAIN assignments
             /\ <<k, u>> \in DOMAIN assignments =>
                   assignments'[<<k, u>>] = assignments[<<k, u>>]
    BY <1>3 DEF FirstTables
<1>5. PICK old, new : old = assignments /\ new = assignments'
    OBVIOUS
<1>6. Times(new, k) = Times(old, k) /\ \A u \in Times(old, k) : new[<<k, u>>] = old[<<k, u>>]
    <2>1. \A u : u \in Times(new, k) <=> <<k, u>> \in DOMAIN new
        BY <1>2, <1>5, TimesOfTable
    <2>2. \A u : u \in Times(old, k) <=> <<k, u>> \in DOMAIN old
        BY <1>2, <1>5, TimesOfTable
    <2> QED
        BY <1>4, <1>5, <2>1, <2>2
<1> QED
    BY <1>1, <1>2, <1>4, <1>5, <1>6 DEF ListingMatches

(* What is assigned to a developer: as before, and the new sighting.       *)
SightedOnceMore(e, l, t, f) ==
    /\ SeenTimes(assignments', e) = SeenTimes(assignments, e)
         \cup (IF f.developer # None /\ e = f.developer.id THEN {t} ELSE {})
    /\ \A k, u : Sighted(k, e, u)' <=>
         \/ Sighted(k, e, u)
         \/ k = l /\ u = t /\ f.developer # None /\ e = f.developer.id

LEMMA SightingIsAdded ==
    ASSUME StoreInv, IdentityInv, NEW l \in Listing, NEW t \in Instant, NEW f, NEW src,
           FirstTables(l, t, f, src), NEW e
    PROVE  SightedOnceMore(e, l, t, f)
<1>1. PICK old, new : old = assignments /\ new = assignments'
    OBVIOUS
<1>2. DOMAIN new \subseteq Listing \X Instant /\ DOMAIN old \subseteq Listing \X Instant
    BY <1>1, FirstTimes, IdentityIsTyped
<1>3. \A k, u : <<k, u>> \in DOMAIN new /\ new[<<k, u>>] = e <=>
                \/ <<k, u>> \in DOMAIN old /\ old[<<k, u>>] = e
                \/ k = l /\ u = t /\ f.developer # None /\ e = f.developer.id
    BY <1>1 DEF FirstTables
<1>4. ASSUME NEW u
      PROVE  u \in SeenTimes(new, e) <=>
                \/ u \in SeenTimes(old, e)
                \/ u = t /\ f.developer # None /\ e = f.developer.id
    <2>1. u \in SeenTimes(new, e) <=> \E k \in Listing : <<k, u>> \in DOMAIN new /\ new[<<k, u>>] = e
        BY <1>2, SeenOfTable
    <2>2. u \in SeenTimes(old, e) <=> \E k \in Listing : <<k, u>> \in DOMAIN old /\ old[<<k, u>>] = e
        BY <1>2, SeenOfTable
    <2> QED
        BY <1>3, <2>1, <2>2
<1> QED
    BY <1>1, <1>3, <1>4 DEF Sighted, SightedOnceMore

LEMMA OtherDevelopers ==
    ASSUME StoreInv, IdentityInv, raw' = raw,
           NEW l \in Listing, NEW t \in Instant, NEW f, NEW src,
           FirstTables(l, t, f, src), NEW e \in DOMAIN developers,
           f.developer = None \/ e # f.developer.id, developers'[e] = developers[e]
    PROVE  DeveloperMatches(e)' /\ NameIsSeen(e)'
<1>1. DeveloperMatches(e) /\ NameIsSeen(e)
    BY DEF IdentityInv
<1>2. /\ SeenTimes(assignments', e) = SeenTimes(assignments, e)
      /\ \A k, u : Sighted(k, e, u)' <=> Sighted(k, e, u)
    <2>1. SightedOnceMore(e, l, t, f)
        BY SightingIsAdded
    <2> QED
        BY <2>1 DEF SightedOnceMore
<1>3. ASSUME NEW k, NEW u, Sighted(k, e, u) PROVE NameAt(k, u)' = NameAt(k, u)
    <2>1. <<k, u>> \in DOMAIN states
        BY <1>3, SightedIsStored
    <2>2. RawGrows /\ states'[<<k, u>>] = states[<<k, u>>]
        BY <2>1 DEF RawGrows, FirstTables
    <2> QED
        BY <2>1, <2>2, SightingStays
<1>4. PICK last, name : last = developers[e].last /\ name = developers[e].name
    OBVIOUS
<1>5. DeveloperMatches(e)'
    BY <1>1, <1>2 DEF DeveloperMatches
<1>6. NameIsSeen(e)'
    BY <1>1, <1>2, <1>3, <1>4 DEF NameIsSeen
<1> QED
    BY <1>5, <1>6

LEMMA FirstDeveloper ==
    ASSUME TextSortsAsTime, StoreInv, IdentityInv, raw' = raw,
           NEW l \in Listing, NEW t \in Instant, NEW f, NEW src, NEW kind,
           Says(src, l, t, f, kind), FirstTables(l, t, f, src), f.developer # None,
           UpsertDeveloper(f.developer, t), NEW d, d = f.developer.id
    PROVE  DeveloperMatches(d)' /\ NameIsSeen(d)'
<1>1. PICK row, new, name : /\ row = developers[d] /\ new = developers'[d]
                            /\ name = f.developer.name
    OBVIOUS
<1>2. PICK seen : seen = SeenTimes(assignments, d)
    OBVIOUS
<1>3. SeenTimes(assignments', d) = seen \cup {t}
    BY <1>2, SightingIsAdded DEF SightedOnceMore
<1>4. \A k, u : Sighted(k, d, u)' <=> Sighted(k, d, u) \/ (k = l /\ u = t)
    <2>1. SightedOnceMore(d, l, t, f)
        BY SightingIsAdded
    <2> QED
        BY <2>1 DEF SightedOnceMore
<1>5. /\ d \in DOMAIN developers => row.first \in Instant /\ row.last \in Instant
      /\ DOMAIN assignments \subseteq Listing \X Instant
    BY <1>1, IdentityIsTyped
<1>6. DeveloperIsMerged(f.developer, t)
    BY <1>1, <1>5, UpsertedDeveloper
<1>7. NameAt(l, t)' = name
    <2>1. states'[<<l, t>>].lineage = {src}
        BY DEF FirstTables
    <2>2. (CHOOSE r \in states'[<<l, t>>].lineage : TRUE) = src
        BY <2>1
    <2>3. FactsOf(src)' = f
        BY DEF Says, FactsOf
    <2> QED
        BY <1>1, <2>2, <2>3 DEF NameAt
<1>8. ASSUME NEW k, NEW u, Sighted(k, d, u) PROVE NameAt(k, u)' = NameAt(k, u)
    <2>1. <<k, u>> \in DOMAIN states
        BY <1>8, SightedIsStored
    <2>2. RawGrows /\ states'[<<k, u>>] = states[<<k, u>>]
        BY <2>1 DEF RawGrows, FirstTables
    <2> QED
        BY <2>1, <2>2, SightingStays
<1>9. t \in Nat /\ \A u \in seen : u \in Nat
    <2>1. ASSUME NEW u \in seen PROVE u \in Instant
        <3>1. \E k \in Listing : <<k, u>> \in DOMAIN assignments
            BY <1>2, <1>5, SeenOfTable
        <3> QED
            BY <1>5, <3>1
    <2> QED
        BY <2>1, InstantAssumption
<1>10. \A k, u : Sighted(k, d, u) => u \in seen
    <2>1. ASSUME NEW k, NEW u, Sighted(k, d, u) PROVE u \in seen
        BY <1>2, <1>5, <2>1, SeenOfTable DEF Sighted
    <2> QED
        BY <2>1
<1>11. CASE d \notin DOMAIN developers
    <2>1. new = [name |-> name, first |-> t, last |-> t]
        BY <1>1, <1>6, <1>11 DEF DeveloperIsMerged
    <2>2. new.name = name /\ new.first = t /\ new.last = t
        BY <2>1
    <2>3. seen = {}
        <3>1. ASSUME NEW u \in seen PROVE FALSE
            <4>1. \E k \in Listing : /\ <<k, u>> \in DOMAIN assignments
                                     /\ assignments[<<k, u>>] = d
                BY <1>2, <1>5, SeenOfTable
            <4> QED
                BY <1>11, <4>1 DEF IdentityInv
        <3> QED
            BY <3>1
    <2>4. DeveloperMatches(d)'
        BY <1>1, <1>3, <1>9, <2>2, <2>3 DEF DeveloperMatches, Oldest, Newest
    <2>5. Sighted(l, d, t)'
        BY <1>4
    <2>6. NameIsSeen(d)'
        BY <1>1, <1>7, <2>2, <2>5 DEF NameIsSeen
    <2> QED
        BY <2>4, <2>6
<1>12. CASE d \in DOMAIN developers
    <2>1. DeveloperMatches(d) /\ NameIsSeen(d)
        BY <1>12 DEF IdentityInv
    <2>2. Oldest(seen, row.first) /\ Newest(seen, row.last)
        BY <1>1, <1>2, <2>1 DEF DeveloperMatches
    <2>3. new = MergedDeveloper(row, t, name)
        BY <1>1, <1>6, <1>12 DEF DeveloperIsMerged
    <2>4. /\ new.name = IF row.last <= t /\ name # None THEN name ELSE row.name
          /\ new.first = IF row.first < t THEN row.first ELSE t
          /\ new.last = IF row.last < t THEN t ELSE row.last
        BY <2>3 DEF MergedDeveloper
    <2>5. row.first \in Nat /\ row.last \in Nat
        BY <1>9, <2>2 DEF Oldest, Newest
    <2>6. DeveloperMatches(d)'
        <3>1. Oldest(seen \cup {t}, new.first) /\ Newest(seen \cup {t}, new.last)
            BY <1>9, <2>2, <2>4, <2>5 DEF Oldest, Newest
        <3> QED
            BY <1>1, <1>3, <3>1 DEF DeveloperMatches
    <2>7. NameIsSeen(d)'
        <3>1. ASSUME NEW k, Sighted(k, d, new.last)', NameAt(k, new.last)' # None
              PROVE  \E j : Sighted(j, d, new.last)' /\ NameAt(j, new.last)' = new.name
            <4>1. CASE row.last <= t /\ name # None
                <5>1. new.last = t /\ new.name = name
                    BY <1>9, <2>4, <2>5, <4>1
                <5> QED
                    BY <1>4, <1>7, <5>1
            <4>2. CASE t < row.last \/ name = None
                <5>1. new.name = row.name
                    BY <1>9, <2>4, <2>5, <4>2
                <5>2. new.last = row.last /\ Sighted(k, d, row.last)
                    <6>1. CASE t < row.last
                        BY <1>4, <1>9, <2>4, <2>5, <3>1, <6>1
                    <6>2. CASE ~(t < row.last)
                        <7>1. new.last = t /\ name = None
                            BY <1>9, <2>4, <2>5, <4>2, <6>2
                        <7>2. ~(k = l)
                            BY <1>7, <3>1, <7>1
                        <7>3. Sighted(k, d, t)
                            BY <1>4, <3>1, <7>1, <7>2
                        <7>4. t <= row.last
                            BY <1>10, <2>2, <7>3 DEF Newest
                        <7> QED
                            BY <1>9, <2>5, <6>2, <7>1, <7>3, <7>4
                    <6> QED
                        BY <6>1, <6>2
                <5>3. NameAt(k, row.last) # None
                    BY <1>8, <3>1, <5>2
                <5>4. PICK j : Sighted(j, d, row.last) /\ NameAt(j, row.last) = row.name
                    BY <1>1, <2>1, <5>2, <5>3 DEF NameIsSeen
                <5> QED
                    BY <1>4, <1>8, <5>1, <5>2, <5>4
            <4> QED
                BY <1>9, <2>5, <4>1, <4>2
        <3> QED
            BY <1>1, <3>1 DEF NameIsSeen
    <2> QED
        BY <2>6, <2>7
<1> QED
    BY <1>11, <1>12

LEMMA FirstIdentity ==
    ASSUME TextSortsAsTime, StoreInv, IdentityInv, raw' = raw,
           NEW src, NEW l, NEW t, NEW f, NEW kind, Says(src, l, t, f, kind),
           <<l, t>> \notin DOMAIN states, Writes(l, t, f, kind, src)
    PROVE  IdentityInv'
<1>1. FirstTables(l, t, f, src) /\ l \in Listing /\ t \in Instant /\ FactsAreTyped(f)
    BY FirstIsAdded DEF Says
<1>2. /\ UpsertListing(l, t, f) /\ UpsertDeveloper(f.developer, t)
      /\ l \in DOMAIN listings => listings[l].first \in Instant /\ listings[l].last \in Instant
    BY IdentityIsTyped DEF Writes
<1>3. ListingIsMerged(l, t, f)
    BY <1>1, <1>2, UpsertedListing
<1>4. DOMAIN listings' = {id[1] : id \in DOMAIN states'}
    <2>1. <<l, t>>[1] = l
        OBVIOUS
    <2>2. {id[1] : id \in DOMAIN states'} = {id[1] : id \in DOMAIN states} \cup {l}
        BY <1>1, <2>1 DEF FirstTables
    <2> QED
        BY <1>3, <2>2 DEF ListingIsMerged, IdentityInv
<1>5. ASSUME NEW k \in DOMAIN listings' PROVE ListingMatches(k)'
    <2>1. CASE k = l
        BY <1>1, <1>2, <2>1, FirstListing
    <2>2. CASE k # l
        BY <1>1, <1>3, <2>2, OtherListings DEF ListingIsMerged
    <2> QED
        BY <2>1, <2>2
<1>6. listings' = [k \in DOMAIN listings' |->
        [developer |-> listings'[k].developer, published |-> listings'[k].published,
         first |-> listings'[k].first, last |-> listings'[k].last]]
    <2>1. listings' = [k \in DOMAIN listings' |-> listings'[k]]
        BY <1>2 DEF UpsertListing, Put
    <2>2. ASSUME NEW k \in DOMAIN listings'
          PROVE  listings'[k] =
            [developer |-> listings'[k].developer, published |-> listings'[k].published,
             first |-> listings'[k].first, last |-> listings'[k].last]
        <3>1. CASE k # l
            BY <1>3, <3>1 DEF ListingIsMerged, IdentityInv
        <3>2. CASE k = l
            BY <1>3, <3>2 DEF ListingIsMerged, MergedListing
        <3> QED
            BY <3>1, <3>2
    <2> QED
        BY <2>1, <2>2
<1>7. CASE f.developer = None
    <2>1. developers' = developers
        BY <1>2, <1>7 DEF UpsertDeveloper
    <2>2. ASSUME NEW e \in DOMAIN developers PROVE DeveloperMatches(e)' /\ NameIsSeen(e)'
        BY <1>1, <1>7, <2>1, OtherDevelopers
    <2>3. \A at \in DOMAIN assignments' : assignments'[at] \in DOMAIN developers'
        BY <1>1, <1>7, <2>1 DEF FirstTables, IdentityInv
    <2> QED
        BY <1>4, <1>5, <1>6, <2>1, <2>2, <2>3 DEF IdentityInv
<1>8. CASE f.developer # None
    <2>1. PICK d : d = f.developer.id
        OBVIOUS
    <2>2. d \in DOMAIN developers =>
             developers[d].first \in Instant /\ developers[d].last \in Instant
        BY IdentityIsTyped
    <2>3. DeveloperIsMerged(f.developer, t)
        BY <1>1, <1>2, <1>8, <2>1, <2>2, UpsertedDeveloper
    <2>4. ASSUME NEW e \in DOMAIN developers' PROVE DeveloperMatches(e)' /\ NameIsSeen(e)'
        <3>1. CASE e = d
            BY <1>1, <1>2, <1>8, <2>1, <3>1, FirstDeveloper
        <3>2. CASE e # d
            BY <1>1, <2>1, <2>3, <3>2, OtherDevelopers DEF DeveloperIsMerged
        <3> QED
            BY <3>1, <3>2
    <2>5. \A at \in DOMAIN assignments' : assignments'[at] \in DOMAIN developers'
        BY <1>1, <1>8, <2>3 DEF FirstTables, IdentityInv, DeveloperIsMerged
    <2>6. developers' = [e \in DOMAIN developers' |->
            [name |-> developers'[e].name,
             first |-> developers'[e].first, last |-> developers'[e].last]]
        <3>1. developers' = [e \in DOMAIN developers' |-> developers'[e]]
            BY <1>2, <1>8 DEF UpsertDeveloper, Put
        <3>2. ASSUME NEW e \in DOMAIN developers'
              PROVE  developers'[e] =
                [name |-> developers'[e].name,
                 first |-> developers'[e].first, last |-> developers'[e].last]
            <4>1. CASE e # d
                BY <2>1, <2>3, <4>1 DEF DeveloperIsMerged, IdentityInv
            <4>2. CASE e = d
                BY <2>1, <2>3, <4>2 DEF DeveloperIsMerged, MergedDeveloper
            <4> QED
                BY <4>1, <4>2
        <3> QED
            BY <3>1, <3>2
    <2> QED
        BY <1>4, <1>5, <1>6, <2>4, <2>5, <2>6 DEF IdentityInv
<1> QED
    BY <1>7, <1>8

(* What a step does: it writes a game for the first time or once more, or  *)
(* leaves the tables alone.                                                *)
LEMMA StepWrites ==
    ASSUME StoreInv, [Next]_vars
    PROVE  \/ UNCHANGED db /\ RawGrows
           \/ \E p \in Process : \E src, l, t, f, kind :
                /\ raw' = raw /\ src = pending[p] /\ Says(src, l, t, f, kind)
                /\ ~Clash(l, t, f, kind, src) /\ Writes(l, t, f, kind, src)
<1>1. TypeOK /\ (raw' = raw => RawGrows)
    BY DEF StoreInv, RawGrows
<1>2. ASSUME NEW p \in Process, Capture(p) PROVE UNCHANGED db /\ RawGrows
    BY <1>1, <1>2, CaptureGrows DEF Capture
<1>3. ASSUME NEW p \in Process, Replay(p) \/ Refuse(p) \/ Stop(p) PROVE UNCHANGED db /\ RawGrows
    BY <1>1, <1>3 DEF Replay, Refuse, Stop
<1>4. ASSUME NEW p \in Process, Commit(p)
      PROVE  \E src, l, t, f, kind :
                /\ raw' = raw /\ src = pending[p] /\ Says(src, l, t, f, kind)
                /\ ~Clash(l, t, f, kind, src) /\ Writes(l, t, f, kind, src)
    <2>1. raw' = raw
        BY <1>4 DEF Commit
    <2> QED
        BY <1>1, <1>4, <2>1, CommitWrites
<1>5. CASE UNCHANGED vars
    BY <1>1, <1>5 DEF vars, db
<1> QED
    BY <1>2, <1>3, <1>4, <1>5 DEF Next

LEMMA IdentityStep ==
    ASSUME TextSortsAsTime, StoreInv, IdentityInv, [Next]_vars
    PROVE  IdentityInv'
<1>1. CASE UNCHANGED db /\ RawGrows
    BY <1>1, IdentityStays
<1>2. ASSUME NEW p \in Process, NEW src, NEW l, NEW t, NEW f, NEW kind,
             raw' = raw, src = pending[p], Says(src, l, t, f, kind),
             ~Clash(l, t, f, kind, src), Writes(l, t, f, kind, src)
      PROVE  IdentityInv'
    <2>1. CASE <<l, t>> \in DOMAIN states
        BY <1>2, <2>1, RewriteIdentity
    <2>2. CASE <<l, t>> \notin DOMAIN states
        BY <1>2, <2>2, FirstIdentity
    <2> QED
        BY <2>1, <2>2
<1> QED
    BY <1>1, <1>2, StepWrites

LEMMA IdentityInitially == Init => IdentityInv
<1>1. DOMAIN <<>> = {}
    OBVIOUS
<1> QED
    BY <1>1 DEF Init, IdentityInv

LEMMA IdentityInvHolds ==
    ASSUME TextSortsAsTime
    PROVE  Spec => []IdentityInv
<1>1. StoreInv /\ IdentityInv /\ [Next]_vars => IdentityInv'
    BY IdentityStep
<1> QED
    BY <1>1, IdentityInitially, StoreInvHolds, PTL DEF Spec

(* _upsert_listing, _upsert_developer: in whatever order sightings are     *)
(* written, by however many processes, the identity tables are what the    *)
(* histories say.                                                          *)
THEOREM IdentityIsOfTheHistory ==
    ASSUME TextSortsAsTime
    PROVE  Spec => []IdentityMatchesHistory
<1>1. IdentityInv => IdentityMatchesHistory
    BY IdentityIsAsRecorded
<1> QED
    BY <1>1, IdentityInvHolds, PTL

-----------------------------------------------------------------------------
(* NothingRegresses and RewritesLeaveNoTrace, of one step.                 *)
ListingAdvances(l) ==
    listings'[l].developer # listings[l].developer =>
        /\ listings'[l].developer # None
        /\ \A t \in Times(states, l) : t <= listings'[l].last
        /\ <<l, listings'[l].last>> \in DOMAIN assignments'
        /\ assignments'[<<l, listings'[l].last>>] = listings'[l].developer
NameAdvances(d) ==
    developers'[d].name # developers[d].name =>
        /\ developers'[d].name # None
        /\ \E l \in Listing : LET at == <<l, developers'[d].last>> IN
             at \in DOMAIN assignments' /\ assignments'[at] = d
LeavesNoTrace(p) ==
    LET l == Game(p).listing  t == At(p)  d == Facts(p).developer IN
    Working(p) /\ pending'[p] # pending[p] /\ <<l, t>> \in DOMAIN states =>
        /\ UNCHANGED <<listings, assignments, states, metrics, histories>>
        /\ \/ UNCHANGED developers
           \/ /\ developers' = [developers EXCEPT ![d.id].name = d.name]
              /\ \E k \in Listing \ {l} : /\ <<k, t>> \in DOMAIN assignments
                                         /\ assignments[<<k, t>>] = d.id
OnlyRenames(l, t, d) ==
    /\ UNCHANGED <<listings, assignments, states, metrics, histories>>
    /\ \/ UNCHANGED developers
       \/ /\ developers' = [developers EXCEPT ![d.id].name = d.name]
          /\ \E k \in Listing \ {l} : /\ <<k, t>> \in DOMAIN assignments
                                     /\ assignments[<<k, t>>] = d.id
StatesStay == \A at \in DOMAIN states : at \in DOMAIN states' /\ states'[at] = states[at]

(* A first observation makes a developer current only if none is newer.    *)
LEMMA FirstAdvancesListing ==
    ASSUME TextSortsAsTime, StoreInv, IdentityInv,
           NEW src, NEW l, NEW t, NEW f, NEW kind, Says(src, l, t, f, kind),
           <<l, t>> \notin DOMAIN states, Writes(l, t, f, kind, src),
           NEW k \in DOMAIN listings
    PROVE  ListingAdvances(k)
<1>1. FirstTables(l, t, f, src) /\ t \in Instant /\ FactsAreTyped(f)
    BY FirstIsAdded DEF Says
<1>2. /\ UpsertListing(l, t, f)
      /\ listings[k].first \in Instant /\ listings[k].last \in Instant
    BY IdentityIsTyped DEF Writes
<1>3. CASE k # l
    <2>1. l \in DOMAIN listings =>
            listings[l].first \in Instant /\ listings[l].last \in Instant
        BY IdentityIsTyped
    <2>2. ListingIsMerged(l, t, f)
        BY <1>1, <1>2, <2>1, UpsertedListing
    <2>3. listings'[k] = listings[k]
        BY <1>3, <2>2 DEF ListingIsMerged
    <2> QED
        BY <2>3 DEF ListingAdvances
<1>4. CASE k = l
    <2>1. ListingIsMerged(l, t, f)
        BY <1>1, <1>2, <1>4, UpsertedListing
    <2>2. PICK old, new, d : old = listings[l] /\ new = listings'[l] /\ d = DeveloperOf(f)
        OBVIOUS
    <2>3. new = MergedListing(old, t, f)
        BY <1>4, <2>1, <2>2 DEF ListingIsMerged
    <2>4. /\ new.developer = IF old.last <= t /\ d # None THEN d ELSE old.developer
          /\ new.last = IF old.last < t THEN t ELSE old.last
        BY <2>2, <2>3 DEF MergedListing
    <2>5. PICK times : times = Times(states, l)
        OBVIOUS
    <2>6. ListingMatches(l)
        BY <1>4 DEF IdentityInv
    <2>7. Newest(times, old.last)
        BY <2>2, <2>5, <2>6 DEF ListingMatches
    <2>8. old.last \in Nat /\ t \in Nat
        BY <1>1, <1>2, <1>4, <2>2, InstantAssumption
    <2>9. SUFFICES ASSUME new.developer # old.developer
          PROVE  /\ new.developer # None
                 /\ \A u \in times : u <= new.last
                 /\ <<l, new.last>> \in DOMAIN assignments'
                 /\ assignments'[<<l, new.last>>] = new.developer
        BY <1>4, <2>2, <2>5 DEF ListingAdvances
    <2>10. old.last <= t /\ d # None /\ new.developer = d /\ new.last = t
        BY <2>4, <2>8, <2>9
    <2>11. f.developer # None /\ d = f.developer.id
        BY <2>2, <2>10 DEF DeveloperOf
    <2>12. <<l, t>> \in DOMAIN assignments' /\ assignments'[<<l, t>>] = d
        BY <1>1, <2>11 DEF FirstTables
    <2>13. \A u \in times : u <= t
        <3>1. \A u \in times : u \in Nat
            <4>1. \A u \in times : <<l, u>> \in DOMAIN states
                BY <2>5, IdentityIsTyped, TimesOfTable
            <4>2. DOMAIN states \subseteq Listing \X Instant
                BY IdentityIsTyped
            <4> QED
                BY <4>1, <4>2, InstantAssumption
        <3> QED
            BY <2>7, <2>8, <2>10, <3>1 DEF Newest
    <2> QED
        BY <2>10, <2>12, <2>13
<1> QED
    BY <1>3, <1>4

(* So it is with the display name of a developer.                          *)
LEMMA FirstAdvancesName ==
    ASSUME TextSortsAsTime, StoreInv, IdentityInv,
           NEW src, NEW l, NEW t, NEW f, NEW kind, Says(src, l, t, f, kind),
           <<l, t>> \notin DOMAIN states, Writes(l, t, f, kind, src),
           NEW e \in DOMAIN developers
    PROVE  NameAdvances(e)
<1>1. FirstTables(l, t, f, src) /\ t \in Instant /\ l \in Listing
    BY FirstIsAdded DEF Says
<1>2. UpsertDeveloper(f.developer, t)
    BY DEF Writes
<1>3. CASE f.developer = None
    BY <1>2, <1>3 DEF UpsertDeveloper, NameAdvances
<1>4. CASE f.developer # None
    <2>1. PICK d, name : d = f.developer.id /\ name = f.developer.name
        OBVIOUS
    <2>2. d \in DOMAIN developers =>
             developers[d].first \in Instant /\ developers[d].last \in Instant
        BY IdentityIsTyped
    <2>3. DeveloperIsMerged(f.developer, t)
        BY <1>1, <1>2, <1>4, <2>1, <2>2, UpsertedDeveloper
    <2>4. CASE e # d
        BY <2>1, <2>3, <2>4 DEF DeveloperIsMerged, NameAdvances
    <2>5. CASE e = d
        <3>1. PICK old, new : old = developers[d] /\ new = developers'[d]
            OBVIOUS
        <3>2. new = MergedDeveloper(old, t, name)
            BY <2>1, <2>3, <2>5, <3>1 DEF DeveloperIsMerged
        <3>3. /\ new.name = IF old.last <= t /\ name # None THEN name ELSE old.name
              /\ new.last = IF old.last < t THEN t ELSE old.last
            BY <3>2 DEF MergedDeveloper
        <3>4. old.last \in Nat /\ t \in Nat
            BY <1>1, <2>2, <2>5, <3>1, InstantAssumption
        <3>5. ASSUME new.name # old.name
              PROVE  new.name # None /\ new.last = t
            BY <3>3, <3>4, <3>5
        <3>6. <<l, t>> \in DOMAIN assignments' /\ assignments'[<<l, t>>] = d
            BY <1>1, <1>4, <2>1 DEF FirstTables
        <3> QED
            BY <1>1, <2>5, <3>1, <3>5, <3>6 DEF NameAdvances
    <2> QED
        BY <2>4, <2>5
<1> QED
    BY <1>3, <1>4

(* A rewrite changes at most the name of the developer it has.             *)
LEMMA RewriteAdvances ==
    ASSUME TextSortsAsTime, StoreInv, IdentityInv,
           NEW src, NEW l, NEW t, NEW f, NEW kind, Says(src, l, t, f, kind),
           ~Clash(l, t, f, kind, src), <<l, t>> \in DOMAIN states,
           Writes(l, t, f, kind, src)
    PROVE  /\ OnlyRenames(l, t, f.developer)
           /\ \A e \in DOMAIN developers : NameAdvances(e)
<1>1. UNCHANGED <<assignments, states, metrics, histories>>
    BY RewriteIsQuiet
<1>2. listings' = listings
    BY RewriteKeepsListing DEF Writes
<1>3. CASE UNCHANGED developers
    BY <1>1, <1>2, <1>3 DEF NameAdvances, OnlyRenames
<1>4. ASSUME NEW d \in DOMAIN developers, IsRenamed(d, l, t, f)
      PROVE  /\ OnlyRenames(l, t, f.developer)
             /\ \A e \in DOMAIN developers : NameAdvances(e)
    <2>1. developers[d] = [name |-> developers[d].name, first |-> developers[d].first,
                           last |-> developers[d].last]
        BY DEF IdentityInv
    <2>2. developers'[d].name = f.developer.name /\ developers'[d].last = t
        BY <1>4, <2>1 DEF IsRenamed
    <2>3. \A e \in DOMAIN developers : e # d => developers'[e] = developers[e]
        BY <1>4 DEF IsRenamed
    <2>4. l \in Listing /\ <<l, t>> \in DOMAIN assignments' /\ assignments'[<<l, t>>] = d
        BY <1>1, <1>4 DEF IsRenamed, Sighted
    <2>5. ASSUME NEW e \in DOMAIN developers PROVE NameAdvances(e)
        <3>1. CASE e = d
            BY <1>4, <2>2, <2>4, <3>1 DEF IsRenamed, NameAdvances
        <3>2. CASE e # d
            BY <2>3, <3>2 DEF NameAdvances
        <3> QED
            BY <3>1, <3>2
    <2> QED
        BY <1>1, <1>2, <1>4, <2>5 DEF IsRenamed, OnlyRenames
<1>5. UpsertDeveloper(f.developer, t)
    BY DEF Writes
<1> QED
    BY <1>3, <1>4, <1>5, RewriteKeepsDeveloper

LEMMA TablesAdvance ==
    ASSUME TextSortsAsTime, StoreInv, IdentityInv, [Next]_vars
    PROVE  /\ \A l \in DOMAIN listings : ListingAdvances(l)
           /\ \A d \in DOMAIN developers : NameAdvances(d)
           /\ StatesStay
<1>1. CASE UNCHANGED db
    BY <1>1 DEF db, ListingAdvances, NameAdvances, StatesStay
<1>2. ASSUME NEW src, NEW l, NEW t, NEW f, NEW kind, Says(src, l, t, f, kind),
             ~Clash(l, t, f, kind, src), Writes(l, t, f, kind, src)
      PROVE  /\ \A k \in DOMAIN listings : ListingAdvances(k)
             /\ \A d \in DOMAIN developers : NameAdvances(d)
             /\ StatesStay
    <2>1. CASE <<l, t>> \in DOMAIN states
        <3>1. /\ OnlyRenames(l, t, f.developer)
              /\ \A e \in DOMAIN developers : NameAdvances(e)
            BY <1>2, <2>1, RewriteAdvances
        <3> QED
            BY <3>1 DEF OnlyRenames, ListingAdvances, StatesStay
    <2>2. CASE <<l, t>> \notin DOMAIN states
        <3>1. FirstTables(l, t, f, src)
            BY <1>2, <2>2, FirstIsAdded
        <3>2. StatesStay
            BY <3>1 DEF FirstTables, StatesStay
        <3> QED
            BY <1>2, <2>2, <3>2, FirstAdvancesListing, FirstAdvancesName
    <2> QED
        BY <2>1, <2>2
<1> QED
    BY <1>1, <1>2, StepWrites

(* Only the process itself leaves a game, by a commit that writes it, or   *)
(* with nothing written.                                                   *)
LEMMA RewriteStep ==
    ASSUME TextSortsAsTime, StoreInv, IdentityInv, [Next]_vars, NEW p \in Process
    PROVE  LeavesNoTrace(p)
<1>1. SUFFICES ASSUME Working(p), pending'[p] # pending[p],
                      <<Game(p).listing, At(p)>> \in DOMAIN states
      PROVE  OnlyRenames(Game(p).listing, At(p), Facts(p).developer)
    BY DEF LeavesNoTrace, OnlyRenames
<1>2. TypeOK /\ pending \in [Process -> Sources \cup {NoWork}]
    BY DEF StoreInv, TypeOK
<1>3. PICK q \in Process : Capture(q) \/ Replay(q) \/ Commit(q) \/ Refuse(q) \/ Stop(q)
    BY <1>1 DEF Next, vars
<1>4. p = q
    <2>1. \A r \in Process : r # q => pending'[r] = pending[r]
        BY <1>2, <1>3 DEF Capture, Replay, Commit, Refuse, Stop, Advance, Drop
    <2> QED
        BY <1>1, <2>1
<1>5. CASE Refuse(p) \/ Stop(p)
    BY <1>5 DEF Refuse, Stop, db, OnlyRenames
<1>6. CASE Commit(p)
    <2>1. PICK src, l, t, f, kind :
              /\ src = pending[p] /\ Says(src, l, t, f, kind)
              /\ ~Clash(l, t, f, kind, src) /\ Writes(l, t, f, kind, src)
        BY <1>2, <1>6, CommitWrites
    <2>2. Game(p).listing = l /\ At(p) = t /\ Facts(p) = f
        BY <2>1 DEF Says, Game, At, Facts, FactsOf, Snapshot
    <2>3. OnlyRenames(l, t, f.developer)
        BY <1>1, <2>1, <2>2, RewriteAdvances
    <2> QED
        BY <2>2, <2>3
<1>7. CASE Capture(p) \/ Replay(p)
    BY <1>1, <1>7 DEF Capture, Replay
<1> QED
    BY <1>3, <1>4, <1>5, <1>6, <1>7

(* current_state, persist: current values never go back to an older        *)
(* sighting, whichever process writes when, and a rewrite, of whatever     *)
(* snapshot, leaves what was written before as it was.                     *)
THEOREM HistoryStaysKept ==
    ASSUME TextSortsAsTime
    PROVE  Spec => HistoryIsKept
<1>1. StoreInv /\ IdentityInv /\ [Next]_vars =>
        /\ \A l \in DOMAIN listings : ListingAdvances(l)
        /\ \A d \in DOMAIN developers : NameAdvances(d)
        /\ StatesStay
        /\ \A p \in Process : LeavesNoTrace(p)
    BY TablesAdvance, RewriteStep
<1> QED
    BY <1>1, StoreInvHolds, IdentityInvHolds, PTL
       DEF Spec, HistoryIsKept, NothingRegresses, RewritesLeaveNoTrace,
           ListingAdvances, NameAdvances, StatesStay, LeavesNoTrace
=============================================================================
