-------------------------- MODULE ReplayStatistics --------------------------
(* The statistics the replayed experiments share: the depth of the feed     *)
(* (experiments/feed_depth.py), the stability of session profiles           *)
(* (experiments/session_profile_stability.py) and the collection cadence    *)
(* (experiments/collection_cadence.py) define them alike.                   *)
(*                                                                          *)
(* A ratio is a number of parts of Unit, which divides evenly for rankings  *)
(* of at most four games, their medians and their quartiles.  Thresholds    *)
(* are given in hundredths.                                                 *)
EXTENDS Integers, Sequences, FiniteSets, SequencesExt

Unit == 1920000
Hundredths(n) == n * (Unit \div 100)
Share(part, whole) == (part * Unit) \div whole

(* A sample is a function from its members, whatever they are, to values.   *)
Size(values) == Cardinality(DOMAIN values)

(* The value at place k, from 1, when they are sorted.                      *)
Smallest(values, k) ==
    CHOOSE v \in Range(values) :
        /\ Cardinality({m \in DOMAIN values : values[m] < v}) < k
        /\ Cardinality({m \in DOMAIN values : values[m] <= v}) >= k

Median(values) ==
    LET n == Size(values) IN
    IF n % 2 = 1 THEN Smallest(values, (n + 1) \div 2)
    ELSE (Smallest(values, n \div 2) + Smallest(values, n \div 2 + 1)) \div 2

(* The q-th quartile, interpolated between the two nearest values.          *)
Quartile(values, q) ==
    LET position == (Size(values) - 1) * q
        lower == position \div 4
        upper == Min({lower + 1, Size(values) - 1})
        part == position % 4 IN
    (Smallest(values, lower + 1) * (4 - part) + Smallest(values, upper + 1) * part) \div 4

Top(ranking, depth) == ToSet(SubSeq(ranking, 1, Min({depth, Len(ranking)})))

Jaccard(first, second) ==
    LET union == ToSet(first) \cup ToSet(second) IN
    IF union = {} THEN Unit
    ELSE Share(Cardinality(ToSet(first) \cap ToSet(second)), Cardinality(union))

Total(terms) ==
    LET sum[k \in 0..Len(terms)] == IF k = 0 THEN 0 ELSE sum[k - 1] + terms[k]
    IN sum[Len(terms)]

(* 0.9^depth.                                                               *)
Persistence(depth) ==
    LET power[k \in 0..depth] == IF k = 0 THEN Unit ELSE (power[k - 1] * 9) \div 10
    IN power[depth]

(* The overlap of the prefixes, each depth weighted 0.1 * 0.9^(depth - 1)   *)
(* and the last also with the weight of all deeper ones.                    *)
RankedOverlap(first, second) ==
    LET limit == Max({Len(first), Len(second)})
        Overlap(depth) == Cardinality(Top(first, depth) \cap Top(second, depth))
        Weight(depth) == Persistence(depth - 1) \div 10
    IN IF limit = 0 THEN Unit
       ELSE Total([depth \in 1..limit |-> (Weight(depth) * Overlap(depth)) \div depth])
            + (Persistence(limit) * Overlap(limit)) \div limit

Measures == {"jaccard", "overlap"}

Similarity(measure, first, second) ==
    IF measure = "jaccard" THEN Jaccard(first, second) ELSE RankedOverlap(first, second)
=============================================================================
