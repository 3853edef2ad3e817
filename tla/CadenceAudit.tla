--------------------------- MODULE CadenceAudit ---------------------------
(* The audit of the collection cadence experiment: how rarely each kind of  *)
(* evidence may be collected without losing what daily collection shows     *)
(* (experiments/collection_cadence_evidence.py loads the daily series,      *)
(* experiments/collection_cadence.py downsamples them, and                  *)
(* experiments/collection_cadence_protocol.py cites what they rest on).     *)
(*                                                                          *)
(* The histories of the observation stores are read series by series, and   *)
(* read a second time for the citations; meanwhile other processes persist  *)
(* observations, of the past as well (a replay of older raw evidence).      *)
(* Whether the plan was frozen in time is the subject of VersionedStores.   *)
EXTENDS FeedExperiments

CONSTANTS
    Listing,            \* the cohort of the plan
    Queries,            \* the members of the query family
    AuditManifests,     \* what may be submitted: [checkpoints, feed, search]
    Histories,          \* the stored observations: functions from series to sets of
                        \* [id, at, retrieved, value, sound]
    Backfills,          \* observations that may still be persisted: <<series, observation>>
    Intervals,          \* the candidate cadences in days, with 1
    MinSeries,          \* what a sufficient sample of listings has
    MaxEvidenceAge,     \* the age an observation may have at its checkpoint
    Day, MinSpacing, MaxSpacing, MaxBand  \* the schedule of the checkpoints

ASSUME IntervalsAssumption ==
    1 \in Intervals /\ Intervals \subseteq Nat \ {0} /\ IsFiniteSet(Intervals)
ASSUME SpacingAssumption == MinSpacing <= Day /\ Day <= MaxSpacing
ASSUME ListingsAssumption == IsFiniteSet(Listing) /\ MinSeries \in Nat \ {0}
ASSUME ManifestsAssumption ==
    \A manifest \in AuditManifests :
        manifest.checkpoints \in Seq(Int) /\ manifest.checkpoints # << >>

Signal == {"yandex_games_rating", "rating_count", "media_manifest", "game_page_update"}
Series == Listing \X Signal

(* Persisted observations are dated, and no two of a series share an id and *)
(* both times.                                                              *)
Backfilled(series) == {b[2] : b \in {c \in Backfills : c[1] = series}}
ASSUME HistoriesAssumption ==
    /\ \A b \in Backfills : b[1] \in Series
    /\ \A stored \in Histories :
        /\ DOMAIN stored = Series
        /\ \A series \in Series :
            LET ever == stored[series] \cup Backfilled(series) IN
            /\ IsFiniteSet(stored[series])
            /\ \A o \in ever : o.at \in Int /\ o.retrieved \in Int /\ o.id \in Int
            /\ \A o, p \in ever :
                  o.at = p.at /\ o.retrieved = p.retrieved /\ o.id = p.id => o = p

VARIABLES
    histories,          \* the persisted observations of each series
    audit               \* the audit in progress: its stage and what it has read

cadenceVars == <<histories, audit>>
experimentVars == <<feedVars, cadenceVars>>

Idle == [stage |-> "idle"]

---------------------------------------------------------------------------
(* The schedule a plan may declare.                                         *)

ClockSpan(times) ==
    LET clocks == {t % Day : t \in times}
        After(c) == IF \E d \in clocks : d > c THEN Min({d \in clocks : d > c}) - c
                    ELSE Day - c + Min(clocks) IN
    Day - Max({After(c) : c \in clocks})

ValidSchedule(checkpoints) ==
    /\ \A i \in 1..(Len(checkpoints) - 1) :
          /\ checkpoints[i + 1] \div Day = checkpoints[i] \div Day + 1
          /\ checkpoints[i + 1] - checkpoints[i] \in MinSpacing..MaxSpacing
    /\ ClockSpan(ToSet(checkpoints)) <= MaxBand

---------------------------------------------------------------------------
(* What counts at a checkpoint.                                             *)

(* mutant: an observation retrieved after the checkpoint counts *)
ObservedBy(observation, checkpoint) ==
    observation.at <= checkpoint /\ checkpoint - observation.at <= MaxEvidenceAge

Fresh(observation, checkpoint) ==
    /\ observation.retrieved <= checkpoint
    /\ observation.at <= checkpoint
    /\ checkpoint - observation.at <= MaxEvidenceAge

FreshAt(history, checkpoint) == {o \in history : Fresh(o, checkpoint)}

Later(a, b) ==
    \/ a.at > b.at
    \/ a.at = b.at /\ a.retrieved > b.retrieved
    \/ a.at = b.at /\ a.retrieved = b.retrieved /\ a.id > b.id

Latest(history) == CHOOSE o \in history : \A p \in history \ {o} : Later(o, p)

Checkpoints == audit.manifest.checkpoints

Readable(history) ==
    \A i \in DOMAIN Checkpoints : FreshAt(history, Checkpoints[i]) # {}

Points(history) ==
    [i \in DOMAIN Checkpoints |-> Latest(FreshAt(history, Checkpoints[i]))]

EligibleSeries(history) ==
    Readable(history) /\ \A i \in DOMAIN Checkpoints : Points(history)[i].sound

RunInTime(run, checkpoint) ==
    /\ run.status # "running"
    /\ run.completed <= checkpoint
    /\ run.started <= checkpoint /\ checkpoint - run.started <= MaxEvidenceAge

EligibleFeed ==
    \A i \in DOMAIN Checkpoints :
        LET run == archive[audit.manifest.feed[i]] IN
        RunInTime(run, Checkpoints[i]) /\ EligibleTrial(run)

(* One run for each query at each checkpoint, all of one context.           *)
EligibleSearch ==
    \A i \in DOMAIN Checkpoints :
        LET chosen == {archive[r] : r \in audit.manifest.search[i]} IN
        /\ \A run \in chosen :
              /\ RunInTime(run, Checkpoints[i])
              /\ Replays(run) /\ run.kind = "search" /\ CleanProvenance(run)
              /\ Ranking(run, Limit) # << >>
        /\ Cardinality({run.context : run \in chosen}) = 1
        /\ {run.query : run \in chosen} = Queries

SearchRun(i, query) ==
    CHOOSE run \in {archive[r] : r \in audit.manifest.search[i]} : run.query = query

---------------------------------------------------------------------------
(* The policy.                                                              *)

Retained(i, interval) == ((i - 1) \div interval) * interval + 1

MatchRatio(points, interval) ==
    Share(Cardinality({i \in DOMAIN points :
                          points[Retained(i, interval)].value = points[i].value}),
          Len(points))

Of(signal) == {s \in DOMAIN audit.points : s[2] = signal}

Ratios(signal, interval) == [s \in Of(signal) |-> MatchRatio(audit.points[s], interval)]

Sufficient(signal) == Cardinality(Of(signal)) >= MinSeries

SignalPasses(signal, interval) ==
    /\ Sufficient(signal)
    /\ Median(Ratios(signal, interval)) >= Hundredths(90)
    /\ Quartile(Ratios(signal, interval), 1) >= Hundredths(80)

Required(capability) ==
    IF capability = "catalogue_metadata" THEN {"yandex_games_rating", "rating_count"}
    ELSE {"game_page_update"}

(* mutant: the rating alone decides the cadence of the catalogue *)
RatingOnly(capability) == Required(capability) \ {"rating_count"}

(* Media take part only when there are enough of them.                      *)
Participating(capability) ==
    Required(capability) \cup
    (IF capability = "catalogue_metadata" /\ Sufficient("media_manifest")
     THEN {"media_manifest"} ELSE {})

Slowest(intervals) == IF intervals = {} THEN 0 ELSE Max(intervals)

CapabilityCadence(capability) ==
    IF \A s \in Required(capability) : Sufficient(s)
    THEN Slowest({n \in Intervals : \A s \in Participating(capability) : SignalPasses(s, n)})
    ELSE 0

(* In binary64 the overlap of a ranking with itself is not 1 for every      *)
(* length: the weights of four games, or of twenty, add up to a little less.*)
(* Up to four games, only that of four is short.                            *)
ComputedOverlap(first, second) ==
    IF first = second /\ Len(first) = 4 THEN Unit - 1 ELSE RankedOverlap(first, second)

Computed(measure, first, second) ==
    IF measure = "overlap" THEN ComputedOverlap(first, second) ELSE Jaccard(first, second)

OverTime(rankings, interval, measure) ==
    Median([i \in DOMAIN rankings |->
              Computed(measure, rankings[Retained(i, interval)], rankings[i])])

OverGroup(group, interval, measure) ==
    [series \in group |-> OverTime(series.rankings, interval, measure)]

(* The ranking series of one kind and depth.                                *)
Group(kind, d) == {s \in audit.rankings : s.kind = kind /\ s.depth = d}

RankingPasses(kind, d, interval) ==
    LET jaccards == OverGroup(Group(kind, d), interval, "jaccard")
        overlaps == OverGroup(Group(kind, d), interval, "overlap") IN
    /\ Median(jaccards) >= Hundredths(80) /\ Quartile(jaccards, 1) >= Hundredths(65)
    /\ Median(overlaps) >= Hundredths(75) /\ Quartile(overlaps, 1) >= Hundredths(60)

RankingCadence(kind, d) ==
    IF Group(kind, d) = {} THEN 0
    ELSE Slowest({n \in Intervals : RankingPasses(kind, d, n)})

(* Daily downsampling changes nothing, and the program asserts as much.     *)
DailyIdentity ==
    /\ \A kind \in {"feed", "search"}, d \in Candidates : Group(kind, d) # {} =>
          LET overlaps == OverGroup(Group(kind, d), 1, "overlap") IN
          Median(overlaps) = Unit /\ Quartile(overlaps, 1) = Unit
    /\ \A signal \in Signal : \A s \in Of(signal) : Ratios(signal, 1)[s] = Unit

---------------------------------------------------------------------------

CadenceInit ==
    /\ histories \in Histories
    /\ audit = Idle

(* Another process persists an observation.  Histories only grow.           *)
Backfill(series, observation) ==
    /\ observation \notin histories[series]
    /\ histories' = [histories EXCEPT ![series] = @ \cup {observation}]
    /\ UNCHANGED <<feedVars, audit>>

(* No run is bound twice.                                                   *)
Bound(manifest) == ToSet(manifest.feed) \cup UNION ToSet(manifest.search)

StartAudit(manifest) ==
    /\ audit = Idle /\ feedRequest = NoRequest
    /\ ValidSchedule(manifest.checkpoints)
    /\ \A i \in DOMAIN manifest.search : Cardinality(manifest.search[i]) = Cardinality(Queries)
    /\ Cardinality(Bound(manifest)) = Len(manifest.checkpoints) * (1 + Cardinality(Queries))
    /\ audit' = [stage |-> "state", manifest |-> manifest, left |-> Series,
                 points |-> [s \in {} |-> << >>], rankings |-> {},
                 cadence |-> [c \in {} |-> 0], ranks |-> [g \in {} |-> 0],
                 cited |-> [s \in {} |-> << >>]]
    /\ UNCHANGED <<feedVars, histories>>

NextOf(set) == CHOOSE x \in set : TRUE
Extended(f, x, y) == [z \in DOMAIN f \cup {x} |-> IF z = x THEN y ELSE f[z]]

(* One series is read and its observations validated, or it is rejected.    *)
LoadSeries ==
    /\ audit.stage = "state" /\ audit.left # {}
    /\ LET series == NextOf(audit.left)
           history == histories[series] IN
       audit' = [audit EXCEPT
           !.left = @ \ {series},
           !.points = IF EligibleSeries(history) THEN Extended(@, series, Points(history)) ELSE @]
    /\ UNCHANGED <<feedVars, histories>>

RankingSeries(kind, d, runs) ==
    [kind |-> kind, depth |-> d, rankings |-> [i \in DOMAIN runs |-> Ranking(runs[i], d)]]

(* The rankings of the feed, of all depths or none, ...                     *)
LoadFeed ==
    /\ audit.stage = "state" /\ audit.left = {}
    /\ audit' = [audit EXCEPT !.stage = "search", !.rankings =
          IF ~EligibleFeed THEN {}
          ELSE {RankingSeries("feed", d, [i \in DOMAIN Checkpoints |->
                                            archive[audit.manifest.feed[i]]])
                : d \in Candidates}]
    /\ UNCHANGED <<feedVars, histories>>

(* ... and those of the searches, of all queries or none.                   *)
LoadSearch ==
    /\ audit.stage = "search"
    /\ audit' = [audit EXCEPT !.stage = "evaluate", !.rankings = @ \cup
          IF ~EligibleSearch THEN {}
          ELSE {RankingSeries("search", d, [i \in DOMAIN Checkpoints |-> SearchRun(i, q)])
                : d \in Candidates, q \in Queries}]
    /\ UNCHANGED <<feedVars, histories>>

(* Without any series there is nothing to evaluate; without the identity of *)
(* daily collection the evaluation refuses its own result.                  *)
Evaluate ==
    /\ audit.stage = "evaluate"
    /\ audit' =
          IF DOMAIN audit.points = {} /\ audit.rankings = {}
          THEN [audit EXCEPT !.stage = "no evidence"]
          ELSE IF ~DailyIdentity THEN [audit EXCEPT !.stage = "not an identity"]
          ELSE [audit EXCEPT !.stage = "cite", !.left = DOMAIN audit.points,
                 !.cadence = [c \in {"catalogue_metadata", "game_page"} |-> CapabilityCadence(c)],
                 !.ranks = [g \in {"feed", "search"} \X Candidates |-> RankingCadence(g[1], g[2])]]
    /\ UNCHANGED <<feedVars, histories>>

(* mutant: the citation is whatever was observed last before the checkpoint *)
CitedBackThen(history) ==
    [i \in DOMAIN Checkpoints |->
        Latest({o \in history : ObservedBy(o, Checkpoints[i])})]

Cited(history) == Points(history)

(* What an eligible series rests on is looked up again.                     *)
Cite ==
    /\ audit.stage = "cite" /\ audit.left # {}
    /\ LET series == NextOf(audit.left)
           history == histories[series] IN
       audit' = IF Readable(history)
                THEN [audit EXCEPT !.left = @ \ {series},
                                   !.cited = Extended(@, series, Cited(history))]
                ELSE [audit EXCEPT !.stage = "lost its evidence"]
    /\ UNCHANGED <<feedVars, histories>>

Publish ==
    /\ audit.stage = "cite" /\ audit.left = {}
    /\ audit' = [audit EXCEPT !.stage = "reported"]
    /\ UNCHANGED <<feedVars, histories>>

CadenceNext ==
    \/ \E b \in Backfills : Backfill(b[1], b[2])
    \/ \E manifest \in AuditManifests : StartAudit(manifest)
    \/ LoadSeries \/ LoadFeed \/ LoadSearch \/ Evaluate \/ Cite \/ Publish

ExperimentInit == FeedInit /\ CadenceInit

(* The two kinds of analysis run one at a time; collection goes on.         *)
ExperimentNext ==
    \/ Collect /\ UNCHANGED cadenceVars
    \/ audit = Idle /\ Analyse /\ UNCHANGED cadenceVars
    \/ feedReports = {} /\ CadenceNext

ExperimentSpec == ExperimentInit /\ [][ExperimentNext]_experimentVars

---------------------------------------------------------------------------

(* The second reading finds evidence for whatever the first accepted, and   *)
(* what it cites was there to be seen at the checkpoint and is not older    *)
(* than what was analysed, although observations are persisted in between   *)
(* (collection_cadence_protocol.py:408-524).                                *)
CitationsHold ==
    /\ audit.stage # "lost its evidence"
    /\ audit.stage \in {"cite", "reported"} =>
          \A series \in DOMAIN audit.cited : \A i \in DOMAIN Checkpoints :
             LET cited == audit.cited[series][i]
                 analysed == audit.points[series][i] IN
             /\ Fresh(cited, Checkpoints[i])
             /\ cited = analysed \/ Later(cited, analysed)

(* A recommended cadence fits every kind of state it stands for: of the n   *)
(* series of a required signal at most a quarter, rounded up, would show    *)
(* less than 80% of the days right, and half of them nine days in ten; no   *)
(* sufficient sample is left without a cadence; and too small a sample of   *)
(* media neither slows nor speeds it (collection_cadence.py:248-362).       *)
CadenceFitsEverySignal ==
    audit.stage \in {"cite", "reported"} =>
        \A capability \in {"catalogue_metadata", "game_page"} :
            LET recommended == audit.cadence[capability]
                Kept(s) == MatchRatio(audit.points[s], recommended) IN
            /\ recommended = 0 <=> \E signal \in Required(capability) : ~Sufficient(signal)
            /\ recommended # 0 => \A signal \in Required(capability) :
                  LET n == Cardinality(Of(signal)) IN
                  /\ Cardinality({s \in Of(signal) : Kept(s) < Hundredths(80)}) <= Few(n)
                  /\ 2 * Cardinality({s \in Of(signal) : Kept(s) >= Hundredths(90)}) >= n
=============================================================================
