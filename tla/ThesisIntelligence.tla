------------------------- MODULE ThesisIntelligence -------------------------
(***************************************************************************)
(* From collected metadata to intelligence: experiments that collect the   *)
(* metadata of their listings in batches, fail, resume and are frozen into *)
(* artifacts (analyst_workflow.py, analyst/), directness reviews written   *)
(* on them (thesis_directness.py), and thesis intelligence built from a    *)
(* current artifact, prior ones and reviews, and verified against them     *)
(* (thesis_workflow.py).                                                   *)
(*                                                                         *)
(* The searches of an experiment, its scheduler and the life of its        *)
(* workdir are ProbeCollection's, QueryScheduler's and WorkdirLifecycle's: *)
(* here an experiment starts with its comparable sets and an artifact is   *)
(* published in one step.  A digest is the value it digests, but for the   *)
(* order of the digests of artifacts, which is Digest's.                   *)
(***************************************************************************)
EXTENDS ThesisFeatures

CONSTANTS
    Suite,          \* the theses of the suite, in the order it declares them
    Runs,           \* runs of the experiment, in the order they start
    Scope,          \* the theses of the manifest of each run
    Members,        \* the listings of the comparable set of each thesis
    Queries,        \* the queries of each thesis
    FoundBy,        \* the queries of a thesis that found a listing
    FirstPublished, \* when a listing was published, if the source says so
    Offered,        \* what the source says of a listing at a time
    Sporadic,       \* listings a response may leave out
    Policy,         \* the anomaly policy, if there is one
    Digest,         \* order of the digests of the artifacts
    BatchSize,
    Opinion,        \* the verdict an analyst would give of a listing
    MaxNow, MaxFaults, MaxInvocations, MaxReviews, MaxBuilds, MaxPriors

(* Runs start in their order; artifacts of two runs differ, and so do their *)
(* digests.                                                                 *)
ASSUME RunsAssumption ==
    /\ Runs \subseteq Nat /\ BatchSize \in Nat \ {0} /\ MaxNow \in Nat
    /\ \A r \in Runs : Digest[r] \in Nat
    /\ \A r, s \in Runs : Digest[r] = Digest[s] => r = s

(* A comparable set lists a listing once, and because a query found it.     *)
ASSUME SetsAssumption ==
    /\ Suite \in Seq(DOMAIN Members)
    /\ \A r \in Runs : Scope[r] \in Seq(DOMAIN Members)
    /\ \A t \in DOMAIN Members :
          /\ Members[t] \in Seq(Nat)
          /\ \A i, j \in DOMAIN Members[t] : Members[t][i] = Members[t][j] => i = j
          /\ \A l \in ToSet(Members[t]) : FoundBy[t][l] # {}

(* There is one policy or none.                                             *)
ASSUME PolicyAssumption == IsOptional(Policy)

(* What a source says and an analyst judges of a listing.                   *)
ASSUME ListingsAssumption ==
    \A t \in DOMAIN Members : \A l \in ToSet(Members[t]) :
        /\ FirstPublished[l] \subseteq Int /\ IsOptional(FirstPublished[l])
        /\ \A time \in 1..MaxNow :
              Offered[l][time].rated \subseteq Nat /\ IsOptional(Offered[l][time].rated)
        /\ Opinion[l] \in Verdicts

VARIABLES
    now,         \* half days, when the last invocation began
    attempts,    \* each run: stage, raw snapshots, those of earlier invocations
    faults,      \* failures and gaps in responses so far
    experiments, \* the published experiment artifacts
    reviews,     \* the directness reviews written so far
    intelligence \* the published intelligence artifacts

thesisVars == <<now, attempts, faults, experiments, reviews, intelligence>>

-----------------------------------------------------------------------------
(* Collection and freezing.                                                 *)

(* The members of the theses, each where it first occurs.                   *)
Places(theses) == UNION {{i} \X DOMAIN Members[theses[i]] : i \in DOMAIN theses}
Listed(theses, place) == Members[theses[place[1]]][place[2]]
Precedes(p, q) == p[1] < q[1] \/ (p[1] = q[1] /\ p[2] < q[2])
FirstPlaces(theses) ==
    {place \in Places(theses) : \A other \in Places(theses) :
        Precedes(other, place) => Listed(theses, other) # Listed(theses, place)}

Listings(theses) ==
    LET first == FirstPlaces(theses)
        order == Arranged(first, {p \in first \X first : Precedes(p[1], p[2])}) IN
    [k \in DOMAIN order |-> Listed(theses, order[k])]

Catalogue == [r \in Runs |-> Listings(Scope[r])]  \* what each run collects

Batch(r, i) ==
    LET all == Catalogue[r] IN
    SubSeq(all, (i - 1) * BatchSize + 1, Min({i * BatchSize, Len(all)}))
Collected(r) == Len(attempts[r].store) - attempts[r].reused
Complete(r) == Collected(r) * BatchSize >= Len(Catalogue[r])

(* The responses of this invocation that hold a listing.                    *)
Bound(attempt) == {i \in DOMAIN attempt.store :
                      i > attempt.reused /\ DOMAIN attempt.store[i].offers # {}}

Holding(l, store, raws) == {i \in raws : l \in DOMAIN store[i].offers}

(* mutant: the last rating the workdir holds, whatever the snapshot binds.  *)
LatestRating(l, store, raws) ==
    LET rated == {i \in Holding(l, store, DOMAIN store) : store[i].offers[l].rated # {}} IN
    {[count |-> The(store[i].offers[l].rated), seen |-> store[i].at] :
        i \in {j \in rated : \A k \in rated : k <= j}}
Rating(l, store, raws) ==
    LET rated == {i \in Holding(l, store, raws) : store[i].offers[l].rated # {}} IN
    {[count |-> The(store[i].offers[l].rated), seen |-> store[i].at] :
        i \in {j \in rated : \A k \in rated : k <= j}}

Published(l, store, raws) ==
    IF Holding(l, store, raws) = {} THEN {} ELSE FirstPublished[l]

Snapshot(r) ==
    [run |-> r, at |-> now, scope |-> Scope[r], store |-> attempts[r].store, raws |-> Bound(attempts[r])]

Exported(snapshot) ==
    [l \in ToSet(Listings(snapshot.scope)) |->
        [rating |-> Rating(l, snapshot.store, snapshot.raws),
         published |-> Published(l, snapshot.store, snapshot.raws)]]

Frozen(r) ==
    [run |-> r, at |-> now, scope |-> Scope[r], store |-> attempts[r].store,
     raws |-> Bound(attempts[r]), sha |-> Digest[r], rows |-> Exported(Snapshot(r))]

ThesisInit ==
    /\ now = 0
    /\ attempts = [r \in Runs |-> [stage |-> "new", store |-> << >>, reused |-> 0, invocation |-> 1]]
    /\ faults = 0
    /\ experiments = {}
    /\ reviews = {}
    /\ intelligence = {}

(* An invocation takes no time, beside what passes until the next one.  A   *)
(* run starts when the one before it has ended or failed, but a failed run  *)
(* may be resumed while another one collects.                               *)
Start(r, time) ==
    /\ attempts[r].stage = "new"
    /\ \A s \in Runs : s < r => attempts[s].stage \in {"done", "failed"}
    /\ now' = time
    /\ attempts' = [attempts EXCEPT ![r].stage = "collecting"]
    /\ UNCHANGED <<faults, experiments, reviews, intelligence>>

(* One batch is requested, stored raw and normalized.                       *)
CollectBatch(r, missing) ==
    LET batch == ToSet(Batch(r, Collected(r) + 1)) IN
    /\ attempts[r].stage = "collecting"
    /\ ~Complete(r)
    /\ missing \subseteq batch
    /\ attempts' = [attempts EXCEPT ![r].store = Append(@,
           [at |-> now, invocation |-> attempts[r].invocation,
            offers |-> [l \in batch \ missing |-> Offered[l][now]]])]
    /\ faults' = faults + Cardinality(missing) /\ faults' <= MaxFaults
    /\ UNCHANGED <<now, experiments, reviews, intelligence>>

(* A batch fails for good, the process dies, or nothing was returned that   *)
(* a snapshot could bind.                                                   *)
FailAttempt(r) ==
    /\ attempts[r].stage = "collecting"
    /\ faults < MaxFaults
    /\ attempts' = [attempts EXCEPT ![r].stage = "failed"]
    /\ faults' = faults + 1
    /\ UNCHANGED <<now, experiments, reviews, intelligence>>

RefuseSnapshot(r) ==
    /\ attempts[r].stage = "collecting"
    /\ Complete(r)
    /\ Bound(attempts[r]) = {}
    /\ attempts' = [attempts EXCEPT ![r].stage = "failed"]
    /\ UNCHANGED <<now, faults, experiments, reviews, intelligence>>

(* Queries are reused, the metadata is collected again from the first batch.*)
Resume(r, time) ==
    /\ attempts[r].stage = "failed"
    /\ attempts[r].invocation < MaxInvocations
    /\ now' = time
    /\ attempts' = [attempts EXCEPT ![r].stage = "collecting",
                                    ![r].reused = Len(attempts[r].store),
                                    ![r].invocation = @ + 1]
    /\ UNCHANGED <<faults, experiments, reviews, intelligence>>

(* Snapshot, export and publication; the workdir is removed.                *)
Freeze(r) ==
    /\ attempts[r].stage = "collecting"
    /\ Complete(r)
    /\ Bound(attempts[r]) # {}
    /\ experiments' = experiments \cup {Frozen(r)}
    /\ attempts' = [attempts EXCEPT ![r] = [@ EXCEPT !.stage = "done", !.store = << >>, !.reused = 0]]
    /\ UNCHANGED <<now, faults, reviews, intelligence>>

-----------------------------------------------------------------------------
(* Semantic reports and reviews.  What is read from here on is published    *)
(* and never changes, so it is enough to look when every run has ended.     *)

RunsEnded ==
    \A r \in Runs : \/ attempts[r].stage = "done"
                    \/ attempts[r].stage = "failed" /\ attempts[r].invocation = MaxInvocations

(* The words of the latest bound response that holds the listing.           *)
SemanticRow(l, experiment) ==
    LET holding == Holding(l, experiment.store, experiment.raws)
        text == UNION {experiment.store[i].offers[l].text :
                          i \in {j \in holding : \A k \in holding : k <= j}} IN
    [source |-> holding # {}, directness |-> Directness(text)]

Report(experiment, thesis) ==
    [run |-> experiment.run, thesis |-> thesis,
     rows |-> [l \in ToSet(Members[thesis]) |-> SemanticRow(l, experiment)]]

Review(experiment, thesis, verdicts) ==
    LET report == Report(experiment, thesis) IN
    /\ RunsEnded /\ Cardinality(reviews) < MaxReviews
    /\ DOMAIN verdicts \subseteq Direct(report)
    /\ reviews' = reviews \cup {[report |-> report, verdicts |-> verdicts]}
    /\ UNCHANGED <<now, attempts, faults, experiments, intelligence>>

(* mutant: a review fits if it judges direct candidates of the thesis.      *)
FitsCandidates(review, current) ==
    DOMAIN review.verdicts \subseteq Direct(Report(current, review.report.thesis))
Fits(review, current) ==
    /\ review.report = Report(current, review.report.thesis)
    /\ DOMAIN review.verdicts \subseteq Direct(review.report)

-----------------------------------------------------------------------------
(* Intelligence.                                                            *)

(* mutant: the history is taken in the order it is supplied.                *)
AsSupplied(priors) == priors
Earlier(p, q) == p.at < q.at \/ (p.at = q.at /\ p.run < q.run)
Canonical(priors) ==
    LET before == {p \in (DOMAIN priors) \X (DOMAIN priors) :
                      \/ Earlier(priors[p[1]], priors[p[2]])
                      \/ ~Earlier(priors[p[2]], priors[p[1]]) /\ p[1] < p[2]}
        order == Arranged(DOMAIN priors, before) IN
    [k \in DOMAIN priors |-> priors[order[k]]]

Acceptable(current, priors, supplied) ==
    /\ current.scope = Suite
    /\ Cardinality(ToSet(priors)) = Len(priors)
    /\ current \notin ToSet(priors)
    /\ \A v \in supplied : v.report.thesis \in ToSet(Suite) /\ Fits(v, current)
    /\ \A v, w \in supplied : v.report.thesis = w.report.thesis => v = w
    /\ Derivable(ToSet(Listings(Suite)), current, priors)

Binding(experiment) == [sha |-> experiment.sha, run |-> experiment.run, at |-> experiment.at]

Inputs(current, priors, supplied) ==
    [current |-> Binding(current), priors |-> [i \in DOMAIN priors |-> Binding(Canonical(priors)[i])],
     reviews |-> supplied]

ThesisReport(thesis, current, rows, supplied) ==
    LET report == Report(current, thesis)
        own == {v \in supplied : v.report.thesis = thesis}
        queue == Queue(Members[thesis], rows, Policy)
        quality == Quality(report, own, Queries[thesis], FoundBy[thesis]) IN
    [thesis |-> thesis, report |-> report, rows |-> [i \in DOMAIN Members[thesis] |-> rows[Members[thesis][i]]],
     gates |-> [i \in DOMAIN Members[thesis] |-> {Gates(rows[Members[thesis][i]], p) : p \in Policy}],
     queue |-> queue, quality |-> quality,
     comparison |-> ComparisonRow(report, own, Members[thesis], rows, queue, quality)]

Bundle(current, priors, supplied) ==
    LET rows == Traction(ToSet(Listings(Suite)), current, Canonical(priors)) IN
    [run |-> current.run, inputs |-> Inputs(current, priors, supplied), reviews |-> supplied,
     theses |-> [i \in DOMAIN Suite |-> ThesisReport(Suite[i], current, rows, supplied)]]

(* The validators of the reports and of their inputs.                       *)
SoundReport(report) ==
    LET members == Members[report.thesis]
        rows == [l \in ToSet(members) |-> The({report.rows[i] : i \in {j \in DOMAIN members : members[j] = l}})]
    IN /\ Len(report.rows) = report.quality.union
       /\ \A l \in ToSet(members) : SoundRow(rows[l])
       /\ SoundQueue(report.queue, members, rows, Policy)
       /\ SoundQuality(report.quality)
       /\ SoundComparison(report.comparison)

SoundInputs(inputs) ==
    /\ \A i, j \in DOMAIN inputs.priors :
          i < j => /\ inputs.priors[i].at <= inputs.priors[j].at
                   /\ inputs.priors[i].sha # inputs.priors[j].sha
    /\ inputs.current \notin ToSet(inputs.priors)

Sound(bundle) == SoundInputs(bundle.inputs) /\ \A report \in ToSet(bundle.theses) : SoundReport(report)

Identified(artifact, current, priors) ==
    artifact.inputs = Inputs(current, priors, artifact.reviews)

Verifies(artifact, current, priors) ==
    /\ Identified(artifact, current, priors)
    /\ Acceptable(current, priors, artifact.reviews)
    /\ artifact = Bundle(current, priors, artifact.reviews)

(* Built, verified against its sources, and published under its inputs.     *)
Build(current, priors, supplied) ==
    LET bundle == Bundle(current, priors, supplied) IN
    /\ RunsEnded /\ Cardinality(intelligence) < MaxBuilds
    /\ Acceptable(current, priors, supplied)
    /\ \A x \in intelligence : x.inputs # bundle.inputs
    /\ Sound(bundle) /\ Verifies(bundle, current, priors)
    /\ intelligence' = intelligence \cup {bundle}
    /\ UNCHANGED <<now, attempts, faults, experiments, reviews>>

Histories == UNION {[1..n -> experiments] : n \in 0..MaxPriors}
Judgements(candidates) == {[l \in judged |-> Opinion[l]] : judged \in SUBSET candidates}

ThesisNext ==
    \/ \E r \in Runs : FailAttempt(r) \/ RefuseSnapshot(r) \/ Freeze(r)
    \/ \E r \in Runs, time \in (now + 1)..MaxNow : Start(r, time) \/ Resume(r, time)
    \/ \E r \in Runs, missing \in SUBSET Sporadic : CollectBatch(r, missing)
    \/ \E e \in experiments : \E i \in DOMAIN e.scope :
          \E verdicts \in Judgements(Direct(Report(e, e.scope[i]))) :
             Review(e, e.scope[i], verdicts)
    \/ \E current \in experiments, priors \in Histories, supplied \in SUBSET reviews :
          Build(current, priors, supplied)

ThesisSpec == ThesisInit /\ [][ThesisNext]_thesisVars

-----------------------------------------------------------------------------
(* Properties.                                                              *)

Rows(x) == UNION {{<<Members[y.thesis][i], y.rows[i]>> : i \in DOMAIN y.rows} : y \in ToSet(x.theses)}
Past(x) == {e \in experiments : \E i \in DOMAIN x.inputs.priors : x.inputs.priors[i] = Binding(e)}

(* The ratings that artifacts hold of a listing from before another one.    *)
EarlierRatings(l, rating, past) ==
    {r \in UNION {e.rows[l].rating : e \in {p \in past : l \in DOMAIN p.rows}} :
        \E c \in rating : r.seen < c.seen}
Nearest(earlier) == {r \in earlier : \A s \in earlier : s.seen <= r.seen}

(* A velocity is the change from the nearest earlier rating that any of the *)
(* prior artifacts holds, at least a day before the current one, whatever   *)
(* order the artifacts were frozen or supplied in; and a listing is in the  *)
(* queue of a policy that asks for a velocity only if it has one            *)
(* (thesis_traction.py:675-758, thesis_anomaly.py:288-304).                 *)
VelocityIsMeasured ==
    \A x \in intelligence : \A entry \in Rows(x) :
        LET l == entry[1]
            row == entry[2]
            nearest == Nearest(EarlierRatings(l, row.rating, Past(x)))
        IN /\ row.longitudinal.velocity =
                 {[ratings |-> p[1].count - p[2].count, over |-> p[1].seen - p[2].seen] :
                     p \in {q \in row.rating \X nearest : q[1].seen - q[2].seen >= Day}}
           /\ \A y \in ToSet(x.theses) : (l \in ToSet(y.queue) /\ \E p \in Policy : p.min_delta # {})
                 => row.longitudinal.velocity # {}

(* What an artifact says of a listing comes from one response that the      *)
(* invocation that published it received, never from an earlier one that    *)
(* failed: its rating, its time and its words (analyst/export.py:399-427,   *)
(* analyst/semantic.py:192-238, analyst_workflow.py:885-905).               *)
IsOfInvocation(e, last) ==
    \A l \in DOMAIN e.rows :
        LET heard == {i \in DOMAIN e.store : e.store[i].invocation = last /\ l \in DOMAIN e.store[i].offers}
        IN /\ e.rows[l].rating = UNION {{[count |-> n, seen |-> e.store[i].at] :
                                            n \in e.store[i].offers[l].rated} : i \in heard}
           /\ SemanticRow(l, e).directness = Directness(UNION {e.store[i].offers[l].text : i \in heard})
EvidenceIsOfTheLastAttempt ==
    \A e \in experiments : IsOfInvocation(e, attempts[e.run].invocation)

(* Every verdict an artifact counts was given on the evidence the artifact  *)
(* shows: the listing was a direct candidate in the report of this very run *)
(* and thesis, and a competitor is called confirmed, or the candidates      *)
(* fully reviewed, on no other ground (thesis_directness.py:348-389,        *)
(* thesis_workflow.py:536-564).                                             *)
ReviewsBindTheirEvidence ==
    \A x \in intelligence : \A y \in ToSet(x.theses) :
        LET judged == {j \in x.reviews \X Direct(y.report) :
                           /\ j[1].report.thesis = y.thesis /\ j[1].report.run = x.run
                           /\ j[2] \in DOMAIN j[1].verdicts}
            confirmed == {l \in Direct(y.report) :
                             \E j \in judged : j[2] = l /\ j[1].verdicts[l] = "confirmed_direct"}
        IN /\ y.quality.reviewed = Cardinality({j[2] : j \in judged})
           /\ y.quality.confirmed = Cardinality(confirmed)
           /\ y.comparison.fresh_confirmed <= Cardinality(confirmed)
           /\ y.comparison.best_rating \cup y.comparison.best_pace \subseteq confirmed
           /\ y.quality.state = "all_reviewed_with_confirmed" =>
                 confirmed # {} /\ {j[2] : j \in judged} = Direct(y.report)

(* An intelligence artifact verifies against its own sources in whatever    *)
(* order they are supplied, and against no others (thesis_workflow.py:      *)
(* 401-463, thesis_intelligence.py:252-287).                                *)
ArtifactsReproduce ==
    \A x \in intelligence : \A c \in experiments, priors \in Histories :
        Verifies(x, c, priors) <=>
            /\ c.run = x.run
            /\ ToSet(priors) = Past(x)
            /\ Len(priors) = Cardinality(Past(x))

(* What the inputs are accepted for can be built: none of the checks that   *)
(* the reports make of their own numbers, and not the verification before   *)
(* the publication, ever refuses a result the code itself computed          *)
(* (thesis_traction.py:112-278, thesis_anomaly.py:76-97,                    *)
(* thesis_directness.py:240-301, thesis_comparison.py:91-153, 214-240).     *)
AcceptedInputsAreBuilt ==
    RunsEnded /\ intelligence = {} =>
        \A current \in experiments, priors \in Histories, supplied \in SUBSET reviews :
            Acceptable(current, priors, supplied) =>
                LET bundle == Bundle(current, priors, supplied) IN
                Sound(bundle) /\ Verifies(bundle, current, priors)
=============================================================================
