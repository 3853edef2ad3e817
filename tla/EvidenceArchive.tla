--------------------------- MODULE EvidenceArchive ---------------------------
(***************************************************************************)
(* Durable evidence archive: the workflow that copies the Actions          *)
(* artifacts named by the committed requests into GitHub Releases before   *)
(* they expire. Runs are serialised; a run walks the requests in order and *)
(* stops at the first error, it may be cancelled between and during any    *)
(* two calls of GitHub, and is expected to be rerun.                       *)
(*                                                                         *)
(* Bytes are identified with the artifact they are: equal digest and size  *)
(* mean equal bytes. A request's three asset names never change. GitHub is *)
(* external and does what gh is used for.                                  *)
(***************************************************************************)
EXTENDS Integers, FiniteSets

CONSTANTS
    N,          \* request files, processed in the order of their names
    Tag,        \* release tags
    Artifacts,  \* Actions artifacts 1..Artifacts
    MaxCommits, \* bound: commits that change the catalog
    MaxFaults   \* bound: failing calls and cancelled runs

ASSUME ArchiveAssumption ==
    /\ IsFiniteSet(Tag)
    /\ {N, Artifacts, MaxCommits, MaxFaults} \subseteq Nat

VARIABLES
    request,     \* research/archive/requests/*.json on the main branch
    retrievable, \* artifacts that have not expired and agree with their metadata
    release,     \* of each tag: none, draft or published
    assets,      \* of each release: its asset names and their contents
    run,         \* the workflow run: see Idle
    outcome,     \* of the last run
    commits, faults

vars == <<request, retrievable, release, assets, run, outcome, commits, faults>>

-----------------------------------------------------------------------------
File == 1..N
Name == {"wrapper", "manifest", "checksum"}
Artifact == 1..Artifacts

(* DurableArchiveRequest: a file without artifact is not in the catalog. *)
Absent == [tag |-> CHOOSE t \in Tag : TRUE, artifact |-> 0]
Declaration == [tag : Tag, artifact : Artifact]
Declared(catalog) == {f \in File : catalog[f] # Absent}

(* validate_request_catalog *)
CatalogValid(catalog) ==
    \A f, g \in Declared(catalog) :
        f # g => /\ catalog[f].tag # catalog[g].tag
                 /\ catalog[f].artifact # catalog[g].artifact

(* What build writes for a request: the wrapper is the artifact itself,    *)
(* the manifest binds it to the request, the checksum to its bytes.        *)
(* An interrupted upload leaves a name with other bytes.                   *)
Damaged == [archive |-> 0, artifact |-> 0]
Built(n, f, declaration) ==
    [archive |-> IF n = "manifest" THEN f ELSE 0, artifact |-> declaration.artifact]

(* verify --request, and sha256sum -c *)
Verified(catalog, f, content) ==
    /\ DOMAIN content = Name
    /\ \A n \in Name : content[n] = Built(n, f, catalog[f])

Archived(catalog, f) ==
    /\ release[catalog[f].tag] = "published"
    /\ Verified(catalog, f, assets[catalog[f].tag])

Idle == [pc |-> "idle", at |-> 0, checkout |-> [f \in File |-> Absent],
         draft |-> FALSE, seen |-> {}]

Tagged == run.checkout[run.at].tag
At(pc) == run.pc = pc

With(content, n, c) ==
    [m \in DOMAIN content \cup {n} |-> IF m = n THEN c ELSE content[m]]

Init ==
    /\ request = [f \in File |-> Absent]
    /\ retrievable = Artifact
    /\ release = [t \in Tag |-> "none"]
    /\ assets = [t \in Tag |-> [n \in {} |-> Damaged]]
    /\ run = Idle
    /\ outcome = "none"
    /\ commits = 0
    /\ faults = 0

-----------------------------------------------------------------------------
(* A request is added or amended on the main branch, at any time. *)
Commit(f) ==
    /\ commits < MaxCommits
    /\ commits' = commits + 1
    /\ \E d \in Declaration : request' = [request EXCEPT ![f] = d]
    /\ UNCHANGED <<retrievable, release, assets, run, outcome, faults>>

(* The retention of an artifact ends. *)
Expire(a) ==
    /\ retrievable' = retrievable \ {a}
    /\ retrievable' # retrievable
    /\ UNCHANGED <<request, release, assets, run, outcome, commits, faults>>

Continue(pc) == run' = [run EXCEPT !.pc = pc]

(* exit 1, or a command that fails under set -e *)
Exit ==
    /\ run' = Idle
    /\ outcome' = "failed"

NextRequest ==
    LET later == {f \in Declared(run.checkout) : f > run.at} IN
    IF later = {}
    THEN /\ run' = Idle
         /\ outcome' = "succeeded"
    ELSE /\ run' = [Idle EXCEPT !.pc = "look", !.checkout = run.checkout,
                        !.at = CHOOSE f \in later : \A g \in later : f <= g]
         /\ UNCHANGED outcome

(* A push or a dispatch starts a run, on the latest catalog: a pending run *)
(* is replaced by a newer one. An empty catalog is left alone.             *)
Start ==
    /\ At("idle")
    /\ Declared(request) # {}
    /\ IF CatalogValid(request)
       THEN /\ run' = [Idle EXCEPT !.pc = "look", !.checkout = request,
                          !.at = CHOOSE f \in Declared(request) :
                                    \A g \in Declared(request) : f <= g]
            /\ outcome' = "none"
       ELSE Exit
    /\ UNCHANGED <<request, retrievable, release, assets, commits, faults>>

(* mutant: only complete releases are looked for. *)
LookForCompleteReleases ==
    /\ At("look")
    /\ LET found == release[Tagged] # "none"
           seen == IF found THEN DOMAIN assets[Tagged] ELSE {} IN
         IF found /\ seen # Name
         THEN Exit
         ELSE /\ run' = [run EXCEPT !.draft = found /\ release[Tagged] = "draft",
                            !.seen = seen,
                            !.pc = IF seen = Name THEN "verify" ELSE "resolve"]
              /\ UNCHANGED outcome
    /\ UNCHANGED <<request, retrievable, release, assets, commits, faults>>

(* gh release view: a failure of the call looks like a missing release.    *)
Look ==
    /\ At("look")
    /\ \E found \in {release[Tagged] # "none", FALSE} :
         LET seen == IF found THEN DOMAIN assets[Tagged] ELSE {}
             draft == found /\ release[Tagged] = "draft" IN
         /\ faults' = faults + IF release[Tagged] # "none" /\ ~found THEN 1 ELSE 0
         /\ IF found /\ seen # Name /\ ~draft
            THEN Exit
            ELSE /\ run' = [run EXCEPT !.draft = draft, !.seen = seen,
                               !.pc = IF seen = Name THEN "verify" ELSE "resolve"]
                 /\ UNCHANGED outcome
    /\ faults' <= MaxFaults
    /\ UNCHANGED <<request, retrievable, release, assets, commits>>

(* mutant: a complete draft counts as archived. *)
VerifyDraftOrRelease ==
    /\ At("verify")
    /\ IF Verified(run.checkout, run.at, assets[Tagged]) THEN NextRequest ELSE Exit
    /\ UNCHANGED <<request, retrievable, release, assets, commits, faults>>

(* A complete release is downloaded and verified against the request.      *)
VerifyExisting ==
    /\ At("verify")
    /\ IF Verified(run.checkout, run.at, assets[Tagged])
       THEN IF run.draft THEN Continue("publish") /\ UNCHANGED outcome
                         ELSE NextRequest
       ELSE Exit
    /\ UNCHANGED <<request, retrievable, release, assets, commits, faults>>

(* The metadata of the artifact must agree with the request, ... *)
Resolve ==
    /\ At("resolve")
    /\ IF run.checkout[run.at].artifact \in retrievable
       THEN Continue("download") /\ UNCHANGED outcome
       ELSE Exit
    /\ UNCHANGED <<request, retrievable, release, assets, commits, faults>>

(* ... and it must still be there when it is downloaded and inventoried.   *)
Download ==
    /\ At("download")
    /\ IF run.checkout[run.at].artifact \in retrievable
       THEN /\ Continue(IF run.draft THEN "upload" ELSE "create")
            /\ UNCHANGED outcome
       ELSE Exit
    /\ UNCHANGED <<request, retrievable, release, assets, commits, faults>>

(* gh release create --draft refuses a tag that has a release already.     *)
Create ==
    /\ At("create")
    /\ IF release[Tagged] = "none"
       THEN /\ release' = [release EXCEPT ![Tagged] = "draft"]
            /\ Continue("upload")
            /\ UNCHANGED outcome
       ELSE /\ Exit
            /\ UNCHANGED release
    /\ UNCHANGED <<request, retrievable, assets, commits, faults>>

(* mutant: gh release upload --clobber, of every asset. *)
UploadClobber ==
    /\ At("upload")
    /\ assets' = [assets EXCEPT ![Tagged] =
                     [n \in Name |-> Built(n, run.at, run.checkout[run.at])]]
    /\ Continue("recheck")
    /\ UNCHANGED <<request, retrievable, release, outcome, commits, faults>>

(* The assets the draft did not have are uploaded in order, and never      *)
(* replace one.                                                            *)
Order == <<"wrapper", "manifest", "checksum">>
Upload ==
    /\ At("upload")
    /\ LET missing == {k \in 1..3 : Order[k] \notin run.seen}
           name == Order[CHOOSE k \in missing : \A l \in missing : k <= l] IN
         IF missing = {}
         THEN /\ Continue("recheck")
              /\ UNCHANGED <<assets, outcome>>
         ELSE IF name \in DOMAIN assets[Tagged]
         THEN /\ Exit
              /\ UNCHANGED assets
         ELSE /\ assets' = [assets EXCEPT ![Tagged] =
                               With(@, name, Built(name, run.at, run.checkout[run.at]))]
              /\ run' = [run EXCEPT !.seen = @ \cup {name}]
              /\ UNCHANGED outcome
    /\ UNCHANGED <<request, retrievable, release, commits, faults>>

(* mutant: what was uploaded is published as it is. *)
RecheckNothing ==
    /\ At("recheck")
    /\ Continue("publish")
    /\ UNCHANGED <<request, retrievable, release, assets, outcome, commits, faults>>

(* The release is downloaded again and must verify before it is published. *)
Recheck ==
    /\ At("recheck")
    /\ IF Verified(run.checkout, run.at, assets[Tagged])
       THEN Continue("publish") /\ UNCHANGED outcome
       ELSE Exit
    /\ UNCHANGED <<request, retrievable, release, assets, commits, faults>>

(* gh release edit --draft=false *)
Publish ==
    /\ At("publish")
    /\ release' = [release EXCEPT ![Tagged] = "published"]
    /\ NextRequest
    /\ UNCHANGED <<request, retrievable, assets, commits, faults>>

(* A call fails, or the run is cancelled, also in the middle of an upload. *)
(* (A call that fails after its effect is the call, then a fault.)         *)
Fault ==
    /\ ~At("idle")
    /\ faults < MaxFaults
    /\ faults' = faults + 1
    /\ Exit
    /\ \/ UNCHANGED assets
       \/ /\ At("upload")
          /\ \E n \in Name \ (run.seen \cup DOMAIN assets[Tagged]) :
                assets' = [assets EXCEPT ![Tagged] = With(@, n, Damaged)]
    /\ UNCHANGED <<request, retrievable, release, commits>>

-----------------------------------------------------------------------------
Step == \/ Look \/ VerifyExisting \/ Resolve \/ Download
        \/ Create \/ Upload \/ Recheck \/ Publish

Next == \/ \E f \in File : Commit(f)
        \/ \E a \in Artifact : Expire(a)
        \/ Start \/ Step \/ Fault

Spec == Init /\ [][Next]_vars

(* The steps of a run are executed, and the workflow is run again and      *)
(* again: by pushes, or by whoever sees that a run has failed.             *)
FairSpec == Spec /\ WF_vars(Step) /\ WF_vars(Start)

-----------------------------------------------------------------------------
Content == [archive : 0..N, artifact : 0..Artifacts]

(* The types of the variables; a run that is not idle works on a request   *)
(* of its own checkout.                                                    *)
TypeOK ==
    /\ request \in [File -> Declaration \cup {Absent}]
    /\ retrievable \subseteq Artifact
    /\ release \in [Tag -> {"none", "draft", "published"}]
    /\ DOMAIN assets = Tag
    /\ \A t \in Tag : /\ DOMAIN assets[t] \subseteq Name
                      /\ \A n \in DOMAIN assets[t] : assets[t][n] \in Content
                      /\ release[t] = "none" => DOMAIN assets[t] = {}
    /\ run.pc \in {"idle", "look", "verify", "resolve", "download", "create",
                   "upload", "recheck", "publish"}
    /\ ~At("idle") => run.at \in Declared(run.checkout)
    /\ outcome \in {"none", "failed", "succeeded"}
    /\ commits \in 0..MaxCommits
    /\ faults \in 0..MaxFaults

(* durable-evidence-archive.md, byte-preserving rule: a published release  *)
(* is complete and all of it is about one artifact, whatever drafts, from  *)
(* interrupted runs or for amended requests, it was completed from.        *)
PublishedEvidenceIsWhole ==
    \A t \in Tag : release[t] = "published" =>
        \E f \in File, a \in Artifact :
            /\ DOMAIN assets[t] = Name
            /\ \A n \in Name : assets[t][n] = Built(n, f, [tag |-> t, artifact |-> a])

(* Reconciliation, rule 9: no run replaces or removes evidence, published  *)
(* releases are not touched at all.                                        *)
EvidenceIsCreateOnly ==
    [][ \A t \in Tag :
          /\ DOMAIN assets[t] \subseteq DOMAIN assets'[t]
          /\ \A n \in DOMAIN assets[t] : assets'[t][n] = assets[t][n]
          /\ release[t] = "published" => /\ release'[t] = "published"
                                         /\ assets'[t] = assets[t] ]_vars

(* A green run means that every request it was started with is durably     *)
(* archived, whether by this run or by an earlier one.                     *)
SuccessMeansArchived ==
    [][ LET catalog == run.checkout IN
        (outcome' = "succeeded" /\ outcome # "succeeded") =>
            \A f \in Declared(catalog) :
                /\ release'[catalog[f].tag] = "published"
                /\ Verified(catalog, f, assets'[catalog[f].tag]) ]_vars

(* Reconciliation: reruns complete what interrupted runs left. As long as  *)
(* the artifacts can be retrieved and no draft holds bytes that no request *)
(* asks for, every request is archived in the end.                         *)
Archivable ==
    /\ CatalogValid(request)
    /\ \A f \in Declared(request) :
          /\ request[f].artifact \in retrievable
          /\ \A n \in DOMAIN assets[request[f].tag] :
                assets[request[f].tag][n] = Built(n, f, request[f])

RerunsCompleteTheCatalog ==
    <>[]Archivable => <>[](\A f \in Declared(request) : Archived(request, f))
=============================================================================
