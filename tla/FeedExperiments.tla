-------------------------- MODULE FeedExperiments --------------------------
(* The two experiments on the recommendation feed: how many pages of it are *)
(* worth collecting (experiments/feed_depth.py) and whether a persistent    *)
(* anonymous profile sees another feed than a clean one                     *)
(* (experiments/session_profile_stability.py).                              *)
(*                                                                          *)
(* Both are given runs, replay them one after another from the probe store  *)
(* and the raw store, reject those that do not qualify and apply a frozen   *)
(* policy to the others.  Collection goes on meanwhile: a run that is       *)
(* running when it is replayed may be completed a moment later.             *)
EXTENDS ReplayStatistics

CONSTANTS
    Archives,           \* the probe runs that may be stored: functions from run to
                        \* [kind, query, context, declared, status, profile, session,
                        \*  provenance, started, completed, pages]
    Depths,             \* the candidate depths, ascending; the last is the page limit
    TrialRequests,      \* sequences of runs submitted to the depth experiment
    BlockRequests,      \* sequences of blocks of four runs submitted to the profile experiment
    MinTrials, MinBlocks, MinPerOrder,  \* what a sufficient sample has
    MinSpan, MinHours, Hour,            \* over which time it extends
    MaxBlockSpan,       \* how far apart the runs of a block may start
    MaxReports          \* bound: the reports of these two experiments

RunFields == {"kind", "query", "context", "declared", "status", "profile", "session",
              "provenance", "started", "completed", "pages"}
StoredGame == [app : Nat, sponsored : BOOLEAN]
StoredPage == [games : Seq(StoredGame), more : BOOLEAN, sound : BOOLEAN]

ASSUME DepthsAssumption == Depths \in Seq(Nat \ {0}) /\ Depths # << >>
ASSUME SampleAssumption == MinTrials >= 2 /\ MinBlocks >= 1 /\ Hour >= 1
ASSUME ArchivesAssumption ==
    \A stored \in Archives : \A r \in DOMAIN stored :
        /\ DOMAIN stored[r] = RunFields
        /\ stored[r].started \in Int
        /\ stored[r].pages \in Seq(StoredPage)
ASSUME RequestsAssumption ==
    \A stored \in Archives :
        /\ TrialRequests \subseteq Seq(DOMAIN stored)
        /\ BlockRequests \subseteq Seq([1..4 -> DOMAIN stored])

VARIABLES
    archive,            \* the stored runs
    feedRequest,        \* the submission in hand
    replayed,           \* its eligible observations so far
    rejected,           \* its rejected members so far
    feedReports         \* the reports written

feedVars == <<archive, feedRequest, replayed, rejected, feedReports>>

Limit == Last(Depths)
Candidates == ToSet(Depths)
NoRequest == [kind |-> "none", submitted |-> << >>, left |-> << >>]

Distinct(list) == IsInjective(list)

---------------------------------------------------------------------------
(* Replaying one run.                                                       *)

(* A clean run carries no cookies, a persistent one the digest of its own.  *)
CleanProvenance(run) == run.profile = "clean" /\ run.provenance /\ run.session = "none"
PersistentProvenance(run) == run.profile = "persistent" /\ run.provenance /\ run.session # "none"

(* A run that is completed, requested all pages in the declared context,    *)
(* holds a prefix of them that ends early only where the feed ended, and    *)
(* whose pages are reproduced by their raw evidence.                        *)
Replays(run) ==
    /\ run.declared
    /\ run.status = "completed"
    /\ Len(run.pages) \in 1..Limit
    /\ Len(run.pages) < Limit => ~Last(run.pages).more
    /\ \A i \in DOMAIN run.pages : run.pages[i].sound

(* Where a game is shown: the page and the place on it.                     *)
Places(run, depth) ==
    UNION {{i} \X DOMAIN run.pages[i].games : i \in 1..Min({depth, Len(run.pages)})}
Shown(run, at) == run.pages[at[1]].games[at[2]]
Above(a, b) == a[1] < b[1] \/ (a[1] = b[1] /\ a[2] < b[2])

(* The organic games of the first pages, each where it first occurs.        *)
Ranked(run, depth) ==
    {at \in Places(run, depth) :
        /\ ~Shown(run, at).sponsored
        /\ \A b \in Places(run, depth) : Above(b, at) =>
              Shown(run, b).sponsored \/ Shown(run, b).app # Shown(run, at).app}

Ranking(run, depth) ==
    LET ranked == Ranked(run, depth)
        Place(k) == CHOOSE at \in ranked : Cardinality({b \in ranked : Above(b, at)}) = k - 1
    IN [k \in 1..Cardinality(ranked) |-> Shown(run, Place(k)).app]

Rankings(run) == [d \in Candidates |-> Ranking(run, d)]

EligibleTrial(run) ==
    /\ Replays(run) /\ run.kind = "feed"
    /\ run.profile = "clean" /\ run.provenance
    /\ Ranking(run, Limit) # << >>

Observation(r) ==
    LET run == archive[r] IN
    [run |-> r, started |-> run.started, profile |-> run.profile,
     session |-> run.session, rankings |-> Rankings(run)]

---------------------------------------------------------------------------
(* The policy of the depth experiment.                                      *)

Pairs(list) == {p \in (DOMAIN list) \X (DOMAIN list) : p[1] < p[2]}

(* How far any two trials agree.                                            *)
RankStability(trials, d) ==
    Median([p \in Pairs(trials) |->
        RankedOverlap(trials[p[1]].rankings[d], trials[p[2]].rankings[d])])

Coverage(trial, d) == Share(Len(trial.rankings[d]), Len(trial.rankings[Limit]))

NextDepth(d) == Min({e \in Candidates : e > d})

MarginalGain(trial, d) ==
    LET now == Len(trial.rankings[d])
        next == Len(trial.rankings[NextDepth(d)]) IN
    IF next = 0 THEN 0 ELSE Share(next - now, next)

Coverages(trials, d) == [i \in DOMAIN trials |-> Coverage(trials[i], d)]
MarginalGains(trials, d) == [i \in DOMAIN trials |-> MarginalGain(trials[i], d)]

DepthPasses(trials, d) ==
    /\ Median(Coverages(trials, d)) >= Hundredths(90)
    /\ Quartile(Coverages(trials, d), 1) >= Hundredths(85)
    /\ Median(MarginalGains(trials, d)) <= Hundredths(10)
    /\ RankStability(trials, d) >= RankStability(trials, Limit) - Hundredths(3)

(* mutant: the deepest passing candidate instead of the shallowest *)
DeepestDepth(trials) ==
    LET passing == {d \in Candidates \ {Limit} : DepthPasses(trials, d)} IN
    IF passing = {} THEN Limit ELSE Max(passing)

RecommendedDepth(trials) ==
    Min({d \in Candidates \ {Limit} : DepthPasses(trials, d)} \cup {Limit})

StartTimes(list) == {list[i].started : i \in DOMAIN list}

SpansTime(list) ==
    /\ Max(StartTimes(list)) - Min(StartTimes(list)) >= MinSpan
    /\ Cardinality({t \div Hour : t \in StartTimes(list)}) >= MinHours

SufficientTrials(trials) == Len(trials) >= MinTrials /\ SpansTime(trials)

DepthVerdict(trials) ==
    IF SufficientTrials(trials) THEN RecommendedDepth(trials) ELSE 0

---------------------------------------------------------------------------
(* The policy of the profile experiment.                                    *)

(* The four in the order of their starts, if these are distinct.            *)
Chronologies(four) ==
    {block \in [1..4 -> ToSet(four)] :
        \A i \in 1..3 : archive[block[i]].started < archive[block[i + 1]].started}
Chronological(four) == CHOOSE block \in Chronologies(four) : TRUE

Profiles(block) == [i \in DOMAIN block |-> archive[block[i]].profile]

(* Two clean and two persistent runs of one session, the pairs nested,      *)
(* all started within a short time of each other.                           *)
EligibleBlock(four) ==
    LET block == Chronological(four) IN
    /\ \A r \in ToSet(four) :
          /\ Replays(archive[r]) /\ archive[r].kind = "feed"
          /\ CleanProvenance(archive[r]) \/ PersistentProvenance(archive[r])
          /\ Ranking(archive[r], Limit) # << >>
    /\ Chronologies(four) # {}
    /\ archive[block[4]].started - archive[block[1]].started <= MaxBlockSpan
    /\ Profiles(block) \in {<<"clean", "persistent", "persistent", "clean">>,
                            <<"persistent", "clean", "clean", "persistent">>}
    /\ \A r, s \in ToSet(four) :
          {archive[r].profile, archive[s].profile} = {"persistent"}
             => archive[r].session = archive[s].session

BlockObservation(four) ==
    LET block == Chronological(four)
        At(profile) == {i \in 1..4 : archive[block[i]].profile = profile}
        With(profile) == <<Observation(block[Min(At(profile))]), Observation(block[Max(At(profile))])>>
    IN [runs |-> block, started |-> archive[block[1]].started,
        order |-> archive[block[1]].profile, session |-> With("persistent")[1].session,
        clean |-> With("clean"), persistent |-> With("persistent")]

(* mutant: only the clean runs are compared with each other *)
CleanPair(block) == {block.clean}

SameProfile(block) == {block.clean, block.persistent}

(* How far two runs of one profile agree, at worst.                         *)
Baseline(block, measure, d) ==
    Min({Similarity(measure, pair[1].rankings[d], pair[2].rankings[d])
         : pair \in SameProfile(block)})

Cross(block, measure, d) ==
    Median([p \in {1, 2} \X {1, 2} |->
        Similarity(measure, block.clean[p[1]].rankings[d], block.persistent[p[2]].rankings[d])])

Gap(block, measure, d) == Max({0, Baseline(block, measure, d) - Cross(block, measure, d)})

Repeatable(blocks, measure, d) ==
    Median([i \in DOMAIN blocks |-> Baseline(blocks[i], measure, d)]) >= Hundredths(50)
Tolerable(blocks, measure, d) ==
    LET gaps == [i \in DOMAIN blocks |-> Gap(blocks[i], measure, d)] IN
    /\ Median(gaps) <= Hundredths(10)
    /\ Quartile(gaps, 3) <= Hundredths(15)

Classification(blocks, d) ==
    IF \E measure \in Measures : ~Repeatable(blocks, measure, d) THEN "inconclusive"
    ELSE IF \A measure \in Measures : Tolerable(blocks, measure, d) THEN "stable"
    ELSE "material_difference"

SufficientBlocks(blocks) ==
    /\ Len(blocks) >= MinBlocks
    /\ SpansTime(blocks)
    /\ \A order \in {"clean", "persistent"} :
          Cardinality({i \in DOMAIN blocks : blocks[i].order = order}) >= MinPerOrder

ProfileVerdict(blocks) ==
    [d \in Candidates |-> IF SufficientBlocks(blocks) THEN Classification(blocks, d)
                          ELSE "none"]

---------------------------------------------------------------------------

FeedInit ==
    /\ archive \in Archives
    /\ feedRequest = NoRequest
    /\ replayed = << >>
    /\ rejected = << >>
    /\ feedReports = {}

(* The collector completes a run it was still collecting.                   *)
CompleteFeedRun(r) ==
    /\ archive[r].status = "running"
    /\ archive' = [archive EXCEPT ![r].status = "completed"]
    /\ UNCHANGED <<feedRequest, replayed, rejected, feedReports>>

Submit(kind, list) ==
    /\ feedRequest = NoRequest
    /\ Cardinality(feedReports) < MaxReports
    /\ feedRequest' = [kind |-> kind, submitted |-> list, left |-> list]
    /\ replayed' = << >>
    /\ rejected' = << >>
    /\ UNCHANGED <<archive, feedReports>>

(* No run may be submitted twice, within a block or in two blocks.          *)
SubmitTrials(list) == Distinct(list) /\ Submit("depth", list)
SubmitBlocks(list) ==
    /\ \A i \in DOMAIN list : Distinct(list[i])
    /\ \A i, j \in DOMAIN list : i # j => ToSet(list[i]) \cap ToSet(list[j]) = {}
    /\ Submit("profile", list)

(* The next member of the submission is replayed or rejected.               *)
Load(kind, eligible, observation) ==
    /\ feedRequest.kind = kind
    /\ feedRequest.left # << >>
    /\ IF eligible
       THEN replayed' = Append(replayed, observation) /\ UNCHANGED rejected
       ELSE rejected' = Append(rejected, Head(feedRequest.left)) /\ UNCHANGED replayed
    /\ feedRequest' = [feedRequest EXCEPT !.left = Tail(@)]
    /\ UNCHANGED <<archive, feedReports>>

Submitted == Head(feedRequest.left)
LoadTrial == Load("depth", EligibleTrial(archive[Submitted]), Observation(Submitted))
LoadBlock == Load("profile", EligibleBlock(Submitted), BlockObservation(Submitted))

Report(verdict) ==
    /\ feedReports' = feedReports \cup
          {[kind |-> feedRequest.kind, submitted |-> feedRequest.submitted,
            replayed |-> replayed, rejected |-> rejected, verdict |-> verdict]}
    /\ feedRequest' = NoRequest
    /\ replayed' = << >>
    /\ rejected' = << >>
    /\ UNCHANGED archive

ReportDepth ==
    /\ feedRequest.kind = "depth" /\ feedRequest.left = << >>
    /\ Report(IF replayed = << >> THEN 0 ELSE DepthVerdict(replayed))

Sessions == {replayed[i].session : i \in DOMAIN replayed}

ReportProfile ==
    /\ feedRequest.kind = "profile" /\ feedRequest.left = << >>
    /\ Cardinality(Sessions) <= 1
    /\ Report(IF replayed = << >> THEN [d \in Candidates |-> "none"]
              ELSE ProfileVerdict(replayed))

(* Blocks of two sessions fail the analysis.                                *)
RefuseMixedSessions ==
    /\ feedRequest.kind = "profile" /\ feedRequest.left = << >>
    /\ Cardinality(Sessions) > 1
    /\ feedRequest' = NoRequest
    /\ replayed' = << >>
    /\ rejected' = << >>
    /\ UNCHANGED <<archive, feedReports>>

Collect == \E r \in DOMAIN archive : CompleteFeedRun(r)

Analyse ==
    \/ \E list \in TrialRequests : SubmitTrials(list)
    \/ \E list \in BlockRequests : SubmitBlocks(list)
    \/ LoadTrial \/ ReportDepth
    \/ LoadBlock \/ ReportProfile \/ RefuseMixedSessions

FeedNext == Collect \/ Analyse

---------------------------------------------------------------------------

Turned(block) == [block EXCEPT !.clean = block.persistent, !.persistent = block.clean]
Exchanged(blocks) == [i \in DOMAIN blocks |-> Turned(blocks[i])]

(* A verdict depends on the evidence only.  Two analyses that replayed the  *)
(* same runs agree, in whatever order they were submitted, whatever else    *)
(* was submitted with them and whatever was completed in between; and which *)
(* of two profiles is called the clean one makes no difference to whether   *)
(* they differ (feed_depth.py:372-427, session_profile_stability.py:637-783)*)
VerdictsFollowTheEvidence ==
    \A a \in feedReports :
        /\ \A b \in feedReports :
              a.kind = b.kind /\ ToSet(a.replayed) = ToSet(b.replayed)
                 => a.verdict = b.verdict
        /\ a.kind = "profile" /\ a.replayed # << >> =>
              a.verdict = ProfileVerdict(Exchanged(a.replayed))

Few(n) == (n + 2) \div 4

(* A verdict holds for most of the sample, not for its average: of n trials *)
(* at most a quarter, rounded up, lose more than 15% of their games at the  *)
(* recommended depth; of n blocks of a stable depth at most a quarter,      *)
(* rounded up, show a profile effect above 15%; and every candidate         *)
(* shallower than the recommended one fails the policy                      *)
(* (feed_depth.py:430-483, session_profile_stability.py:730-783).           *)
VerdictsHoldForMost ==
    \A report \in feedReports :
        LET n == Len(report.replayed)
            verdict == report.verdict
            At(i) == report.replayed[i] IN
        IF report.kind = "depth"
        THEN verdict # 0 =>
                /\ Cardinality({i \in 1..n : Coverage(At(i), verdict) < Hundredths(85)}) <= Few(n)
                /\ \A d \in Candidates : d < verdict => ~DepthPasses(report.replayed, d)
        ELSE \A d \in Candidates, measure \in Measures : verdict[d] = "stable" =>
                Cardinality({i \in 1..n : Gap(At(i), measure, d) > Hundredths(15)}) <= Few(n)
=============================================================================
