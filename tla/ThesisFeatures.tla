--------------------------- MODULE ThesisFeatures ---------------------------
(* What a thesis report derives from frozen evidence: the traction of the   *)
(* listings (thesis_traction.py), the anomaly queue (thesis_anomaly.py),    *)
(* the quality of the competitors (thesis_directness.py) and the row of the *)
(* comparison (thesis_comparison.py).                                       *)
(*                                                                          *)
(* A listing is a number, by which listing identifiers are ordered.  An     *)
(* optional value is a set of at most one value.  Times and ages are in     *)
(* half days; a pace is a number of ratings over a number of half days and  *)
(* is compared by cross-multiplication.                                     *)
EXTENDS ReplayStatistics

Day == 2
IsOptional(set) == \A v, w \in set : v = w
The(optional) == CHOOSE value \in optional : TRUE

(* A set as a sequence: each member is at the place that the number of      *)
(* members before it says.                                                  *)
Arranged(set, before) ==
    [k \in 1..Cardinality(set) |->
        CHOOSE x \in set : Cardinality({y \in set : <<y, x>> \in before}) = k - 1]

-----------------------------------------------------------------------------
(* Traction.                                                                *)

Age(published, reference) == {reference - p : p \in published}

(* lt_7_days is 0, over_365_days is 5.                                      *)
AgeBucket(age) == {Cardinality({d \in {7, 31, 91, 181, 366} : a >= d * Day}) : a \in age}

Pace(age, count) ==
    {[ratings |-> n, over |-> a] : n \in count, a \in {b \in age : b >= Day}}
Slower(x, y) == x.ratings * y.over < y.ratings * x.over
AtLeastPerDay(pace, rate) == pace.ratings * Day >= rate * pace.over

(* mutant: only the last prior artifact that lists the listing is read.     *)
PointsOfLastPrior(l, rating, priors) ==
    LET listing == SelectSeq(priors, LAMBDA p : l \in DOMAIN p.rows)
        last == {p \in ToSet(listing) : p = listing[Len(listing)]} IN
    {point \in UNION {{[count |-> r.count, seen |-> r.seen, sha |-> p.sha] :
                          r \in p.rows[l].rating} : p \in last} :
        \E r \in rating : point.seen < r.seen}

(* The ratings the priors hold of the listing from before the current one.  *)
PriorPoints(l, rating, priors) ==
    {point \in UNION {{[count |-> r.count, seen |-> r.seen, sha |-> p.sha] :
                          r \in p.rows[l].rating} :
                      p \in {x \in ToSet(priors) : l \in DOMAIN x.rows}} :
        \E r \in rating : point.seen < r.seen}

Latest(points) == {p \in points : \A q \in points : q.seen <= p.seen}
Selected(points) == CHOOSE p \in Latest(points) : \A q \in Latest(points) : p.sha <= q.sha
Conflicting(points) == Cardinality({p.count : p \in Latest(points)}) > 1

Longitudinal(rating, points) ==
    LET current == The(rating)
        prior == Selected(points)
        over == current.seen - prior.seen
        delta == current.count - prior.count
    IN [status |-> IF rating = {} THEN "current_missing"
                   ELSE IF points = {} THEN "no_prior_observation"
                   ELSE IF over < Day THEN "interval_too_short"
                   ELSE IF delta < 0 THEN "negative_revision"
                   ELSE "observed",
        prior |-> IF points = {} THEN {} ELSE {prior},
        velocity |-> IF points = {} \/ over < Day THEN {}
                     ELSE {[ratings |-> delta, over |-> over]}]

Derived(l, current, priors) ==
    LET found == current.rows[l]
        age == Age(found.published, current.at) IN
    [rating |-> found.rating, age |-> age, bucket |-> AgeBucket(age),
     pace |-> Pace(age, {r.count : r \in found.rating}),
     longitudinal |-> Longitudinal(found.rating, PriorPoints(l, found.rating, priors)),
     members |-> {}, paced |-> {}, percentile |-> {}]

Paced(bucket, peers) == {p \in peers : p.row.bucket = bucket /\ p.row.pace # {}}
Cohort(bucket, peers) == {p \in peers : p.row.bucket = bucket}

Materialized(row, peers) ==
    LET paced == Paced(row.bucket, peers) IN
    [row EXCEPT
        !.members = {Cardinality(Cohort(b, peers)) : b \in {{x} : x \in row.bucket}},
        !.paced = {Cardinality(paced) : b \in row.bucket},
        !.percentile = {Share(Cardinality({m \in paced : ~Slower(p, The(m.row.pace))}),
                              Cardinality(paced)) : p \in row.pace}]

(* The evidence is refused if a listing was published after the snapshot or *)
(* the latest prior observations of it disagree.                            *)
Derivable(listings, current, priors) ==
    \A l \in listings :
        /\ \A p \in current.rows[l].published : p <= current.at
        /\ ~Conflicting(PriorPoints(l, current.rows[l].rating, priors))

RowOf(l, rows) == The({r.row : r \in {d \in rows : d.listing = l}})

Traction(listings, current, priors) ==
    LET derived == {[listing |-> l, row |-> Derived(l, current, priors)] : l \in listings}
        rows == {[listing |-> d.listing, row |-> Materialized(d.row, derived)] : d \in derived} IN
    [l \in listings |-> RowOf(l, rows)]

-----------------------------------------------------------------------------
(* The anomaly queue.  A policy has an optional threshold for each gate.    *)

Gate(threshold, value, passes) ==
    IF threshold = {} THEN "not_configured"
    ELSE IF value = {} THEN "unknown"
    ELSE IF passes THEN "pass" ELSE "fail"

Gates(row, policy) == <<
    Gate(policy.max_age, row.age, \A t \in policy.max_age, a \in row.age : a <= t * Day),
    Gate(policy.min_rating, row.rating,
         \A t \in policy.min_rating, r \in row.rating : r.count >= t),
    Gate(policy.min_pace, row.pace,
         \A t \in policy.min_pace, p \in row.pace : AtLeastPerDay(p, t)),
    Gate(policy.min_percentile, row.percentile,
         \A t \in policy.min_percentile, p \in row.percentile : p >= Hundredths(t)),
    Gate(policy.min_delta, row.longitudinal.velocity,
         \A t \in policy.min_delta, v \in row.longitudinal.velocity : AtLeastPerDay(v, t))>>

IsCandidate(row, policy) == ToSet(Gates(row, policy)) \subseteq {"not_configured", "pass"}

(* A listing with a value is ahead of one without.                          *)
Faster(a, b) == a.pace # {} /\ \A q \in b.pace : \E p \in a.pace : Slower(q, p)
MoreRated(a, b) == a.rating # {} /\ \A q \in b.rating : \E p \in a.rating : p.count > q.count
Younger(a, b) == a.age # {} /\ \A q \in b.age : \E p \in a.age : p < q

(* Faster first, then more ratings, then younger, then the identifier.      *)
Before(l, m, rows) ==
    \/ Faster(rows[l], rows[m])
    \/ /\ ~Faster(rows[m], rows[l])
       /\ \/ MoreRated(rows[l], rows[m])
          \/ /\ ~MoreRated(rows[m], rows[l])
             /\ \/ Younger(rows[l], rows[m])
                \/ ~Younger(rows[m], rows[l]) /\ l < m

(* Without a policy the queue is disabled and empty.                        *)
Candidates(members, rows, policies) ==
    {l \in ToSet(members) : \E p \in policies : IsCandidate(rows[l], p)}
Queue(members, rows, policies) ==
    LET candidates == Candidates(members, rows, policies) IN
    Arranged(candidates, {p \in candidates \X candidates : Before(p[1], p[2], rows)})

-----------------------------------------------------------------------------
(* The quality of the competitors.                                          *)

(* text is what the words of the listing match, if it has any.              *)
Directness(text) ==
    IF text = {} THEN "insufficient_evidence"
    ELSE IF text = {{"theme", "mechanic"}} THEN "direct_candidate"
    ELSE IF text = {{}} THEN "noise_candidate" ELSE "adjacent_candidate"

Directnesses ==
    <<"direct_candidate", "adjacent_candidate", "noise_candidate", "insufficient_evidence">>

Verdicts == {"confirmed_direct", "adjacent", "not_direct", "unresolved"}

Of(report, directness) == {l \in DOMAIN report.rows : report.rows[l].directness = directness}
Direct(report) == Of(report, "direct_candidate")
Judged(reviews, verdicts) ==
    UNION {{l \in DOMAIN r.verdicts : r.verdicts[l] \in verdicts} : r \in reviews}

(* mutant: one confirmed candidate is taken for a complete review.          *)
ReviewStateOfAny(direct, reviewed, confirmed) ==
    IF direct = {} THEN "no_direct_candidates"
    ELSE IF reviewed = {} THEN "not_reviewed"
    ELSE IF confirmed # {} THEN "all_reviewed_with_confirmed"
    ELSE IF reviewed # direct THEN "partially_reviewed"
    ELSE "all_direct_candidates_reviewed_zero_confirmed"
ReviewState(direct, reviewed, confirmed) ==
    IF direct = {} THEN "no_direct_candidates"
    ELSE IF reviewed = {} THEN "not_reviewed"
    ELSE IF reviewed # direct THEN "partially_reviewed"
    ELSE IF confirmed # {} THEN "all_reviewed_with_confirmed"
    ELSE "all_direct_candidates_reviewed_zero_confirmed"

Contribution(query, members, foundBy) ==
    [found |-> Cardinality({l \in members : query \in foundBy[l]}),
     alone |-> Cardinality({l \in members : foundBy[l] = {query}})]

(* The overlaps of the pairs of queries that found something.               *)
Overlaps(queries, members, foundBy) ==
    LET Found(q) == {l \in members : q \in foundBy[l]}
        pairs == SetToSeq({pair \in kSubset(2, queries) : \E q \in pair : Found(q) # {}})
    IN [i \in DOMAIN pairs |->
            Share(Cardinality({l \in members : pairs[i] \subseteq foundBy[l]}),
                  Cardinality(UNION {Found(q) : q \in pairs[i]}))]

Surface(queries, members, foundBy) ==
    LET overlaps == Overlaps(queries, members, foundBy) IN
    [multiple |-> Cardinality({l \in members : Cardinality(foundBy[l]) > 1}),
     queries |-> [q \in queries |-> Contribution(q, members, foundBy)],
     mean |-> IF overlaps = << >> THEN {}
              ELSE {Total(overlaps) \div Len(overlaps)},
     median |-> IF overlaps = << >> THEN {} ELSE {Median(overlaps)}]

Quality(report, reviews, queries, foundBy) ==
    LET reviewed == Judged(reviews, Verdicts)
        confirmed == Judged(reviews, {"confirmed_direct"}) IN
    [union |-> Cardinality(DOMAIN report.rows),
     sourced |-> Cardinality({l \in DOMAIN report.rows : report.rows[l].source}),
     directness |-> [d \in ToSet(Directnesses) |-> Cardinality(Of(report, d))],
     reviewed |-> Cardinality(reviewed),
     confirmed |-> Cardinality(confirmed),
     rejected |-> Cardinality(Judged(reviews, {"adjacent", "not_direct"})),
     unresolved |-> Cardinality(Judged(reviews, {"unresolved"})),
     state |-> ReviewState(Direct(report), reviewed, confirmed),
     surface |-> Surface(queries, DOMAIN report.rows, foundBy)]

-----------------------------------------------------------------------------
(* The row of the comparison.                                               *)

Fresh(row) == \E a \in row.age : a <= 180 * Day

(* The first of the members no other is ahead of.                           *)
Highlight(among, members, ahead) ==
    LET known == {i \in DOMAIN members : members[i] \in among}
        Ahead(j, i) == <<members[j], members[i]>> \in ahead
        best == {i \in known : \A j \in known : ~Ahead(j, i) /\ (Ahead(i, j) \/ i <= j)}
    IN {members[i] : i \in best}

ComparisonRow(report, reviews, members, rows, candidates, quality) ==
    LET confirmed == Judged(reviews, {"confirmed_direct"})
        adjacent == Of(report, "adjacent_candidate")
        dated == {l \in ToSet(members) : rows[l].age # {}}
        rated == {l \in ToSet(members) : rows[l].rating # {}}
        paced == {l \in ToSet(members) : rows[l].pace # {}}
        moreRated == {p \in rated \X rated : MoreRated(rows[p[1]], rows[p[2]])}
        faster == {p \in paced \X paced : Faster(rows[p[1]], rows[p[2]])} IN
    [union |-> quality.union,
     direct |-> quality.directness["direct_candidate"],
     adjacent |-> quality.directness["adjacent_candidate"],
     confirmed |-> quality.confirmed,
     unresolved |-> quality.unresolved,
     fresh_confirmed |-> Cardinality({l \in confirmed : Fresh(rows[l])}),
     recent |-> Cardinality({l \in dated : Fresh(rows[l])}),
     dated |-> Cardinality(dated),
     best_rating |-> Highlight(confirmed \cap rated, members, moreRated),
     best_pace |-> Highlight(confirmed \cap paced, members, faster),
     best_adjacent |-> Highlight(adjacent \cap rated, members, moreRated),
     anomalies |-> Len(candidates),
     longitudinal |-> Cardinality({l \in ToSet(members) : rows[l].longitudinal.velocity # {}}),
     mean |-> quality.surface.mean,
     multiple |-> quality.surface.multiple]

-----------------------------------------------------------------------------
(* What the reports demand of themselves when they are made, on the numbers *)
(* they carry; nothing that fails is published.                             *)

SoundDelta(row) ==
    LET delta == row.longitudinal IN
    /\ row.rating = {} <=> delta.status = "current_missing"
    /\ IF delta.status \in {"current_missing", "no_prior_observation"}
       THEN delta.prior = {} /\ delta.velocity = {}
       ELSE \E c \in row.rating, p \in delta.prior :
           LET over == c.seen - p.seen
               change == c.count - p.count
           IN /\ over > 0
              /\ delta.velocity = IF over < Day THEN {} ELSE {[ratings |-> change, over |-> over]}
              /\ delta.status = IF over < Day THEN "interval_too_short"
                                ELSE IF change < 0 THEN "negative_revision" ELSE "observed"

SoundRow(row) ==
    /\ SoundDelta(row)
    /\ row.age = {} => row.bucket = {}
    /\ \A p \in row.pace : \E a \in row.age, r \in row.rating :
          a >= Day /\ p = [ratings |-> r.count, over |-> a]
    /\ IF row.bucket = {} THEN row.members = {} /\ row.paced = {} /\ row.percentile = {}
       ELSE /\ \E m \in row.members, n \in row.paced : n <= m
            /\ row.percentile = {} <=> row.pace = {}

SoundQueue(queue, members, rows, policies) ==
    /\ ToSet(queue) = Candidates(members, rows, policies)
    /\ \A i, j \in DOMAIN queue : i < j => Before(queue[i], queue[j], rows)

SoundSurface(surface, union) ==
    /\ surface.multiple <= union
    /\ \A q \in DOMAIN surface.queries :
          surface.queries[q].alone <= surface.queries[q].found /\ surface.queries[q].found <= union
    /\ surface.mean = {} <=> surface.median = {}

SoundQuality(quality) ==
    LET direct == quality.directness["direct_candidate"] IN
    /\ quality.sourced <= quality.union
    /\ Total([i \in 1..4 |-> quality.directness[Directnesses[i]]]) = quality.union
    /\ quality.reviewed <= direct
    /\ quality.confirmed + quality.rejected + quality.unresolved = quality.reviewed
    /\ quality.state =
          IF direct = 0 THEN "no_direct_candidates"
          ELSE IF quality.reviewed = 0 THEN "not_reviewed"
          ELSE IF quality.reviewed < direct THEN "partially_reviewed"
          ELSE IF quality.confirmed > 0 THEN "all_reviewed_with_confirmed"
          ELSE "all_direct_candidates_reviewed_zero_confirmed"
    /\ SoundSurface(quality.surface, quality.union)

SoundComparison(row) ==
    /\ row.direct + row.adjacent <= row.union
    /\ row.confirmed <= row.direct /\ row.unresolved <= row.direct
    /\ row.fresh_confirmed <= row.confirmed
    /\ row.anomalies <= row.union /\ row.longitudinal <= row.union
=============================================================================
