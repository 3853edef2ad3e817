----------------------- MODULE EvidenceArchiveProofs -----------------------
(***************************************************************************)
(* Proofs about EvidenceArchive, for any number of requests, tags and      *)
(* artifacts, and any faults: what is published is whole, nothing archived *)
(* is replaced, and a green run archived everything it was started with.   *)
(***************************************************************************)
EXTENDS EvidenceArchive, FiniteSetTheorems, TLAPS

Catalogs == [File -> Declaration \cup {Absent}]
Places == {"idle", "look", "verify", "resolve", "download", "create",
           "upload", "recheck", "publish"}
RunRecords == [pc : Places, at : 0..N, checkout : Catalogs,
               draft : BOOLEAN, seen : SUBSET Name]

LEMMA LeastExists ==
    ASSUME NEW S \in SUBSET Nat, S # {}
    PROVE  \E x \in S : \A y \in S : x <= y
<1>1. PICK x \in S : \A y \in S : ~(<<y, x>> \in OpToRel(<, Nat))
    BY WFMin, NatLessThanWellFounded, Zenon
<1>2. \A y \in S : ~(y < x)
    BY <1>1, Zenon DEF OpToRel
<1>3. \A y \in S : x <= y
    BY <1>2
<1> QED
    BY <1>3

LEMMA NumbersAreNaturals ==
    N \in Nat /\ Artifacts \in Nat /\ MaxCommits \in Nat /\ MaxFaults \in Nat
BY ArchiveAssumption

(* A request that is in a catalog names a tag and an artifact.             *)
LEMMA DeclaredTypes ==
    ASSUME NEW catalog \in Catalogs, NEW f \in Declared(catalog)
    PROVE  /\ f \in File /\ catalog[f] \in Declaration
           /\ catalog[f].tag \in Tag /\ catalog[f].artifact \in Artifact
BY DEF Catalogs, Declared, Declaration

(* The run that was started or goes on works on a declared request of its  *)
(* checkout, and has no declared request between.                          *)
LEMMA FirstOf ==
    ASSUME NEW catalog, NEW S \in SUBSET Declared(catalog), S # {}
    PROVE  LET first == CHOOSE f \in S : \A g \in S : f <= g IN
           first \in S /\ \A g \in S : first <= g
<1>1. S \in SUBSET Nat
    BY NumbersAreNaturals DEF Declared, File
<1>2. PICK f \in S : \A g \in S : f <= g
    BY <1>1, LeastExists
<1> QED
    BY <1>2

-----------------------------------------------------------------------------
(* The parts of the invariant.                                             *)

Types == TypeOK /\ request \in Catalogs /\ run \in RunRecords

(* What the run knows of the release it works on.                          *)
Phases ==
    /\ run.pc \in {"upload", "recheck", "publish"} => release[Tagged] = "draft"
    /\ ~At("idle") /\ run.draft => release[Tagged] = "draft"
    /\ At("verify") /\ ~run.draft => release[Tagged] = "published"
    /\ At("publish") => Verified(run.checkout, run.at, assets[Tagged])

(* The requests before the present one are archived.                       *)
Behind ==
    ~At("idle") => \A f \in Declared(run.checkout) : f < run.at => Archived(run.checkout, f)

LEMMA InitInv ==
    ASSUME Init
    PROVE  Types /\ Phases /\ Behind /\ PublishedEvidenceIsWhole
<1>1. Idle \in RunRecords /\ Idle.pc = "idle"
    BY NumbersAreNaturals DEF Idle, RunRecords, Catalogs, Places
<1>2. Phases /\ Behind /\ PublishedEvidenceIsWhole
    BY <1>1 DEF Init, Phases, Behind, PublishedEvidenceIsWhole, At
<1>3. TypeOK /\ request \in Catalogs
    BY <1>1, NumbersAreNaturals DEF Init, TypeOK, At, Catalogs
<1> QED
    BY <1>1, <1>2, <1>3 DEF Init, Types

(* What the run does next: it leaves, it goes on to the next request, or it*)
(* stays with its request.                                                 *)
LEMMA IdleTypes == Idle \in RunRecords /\ Idle.pc = "idle" /\ Idle.draft = FALSE
BY NumbersAreNaturals DEF Idle, RunRecords, Catalogs, Places

Stays ==
    /\ run' \in RunRecords
    /\ run'.at = run.at /\ run'.checkout = run.checkout

LEMMA RunContinues ==
    ASSUME Types, NEW pc \in Places, Continue(pc)
    PROVE  Stays /\ run'.pc = pc /\ run'.draft = run.draft /\ run'.seen = run.seen
BY DEF Types, RunRecords, Continue, Stays

LEMMA RunBegins ==
    ASSUME NEW catalog \in Catalogs, NEW f \in Declared(catalog),
           run' = [Idle EXCEPT !.pc = "look", !.checkout = catalog, !.at = f]
    PROVE  /\ run' \in RunRecords /\ run'.pc = "look" /\ run'.at = f
           /\ run'.checkout = catalog /\ run'.draft = FALSE
<1>1. f \in 0..N
    BY NumbersAreNaturals DEF Declared, File
<1> QED
    BY <1>1 DEF RunRecords, Idle, Places

LEMMA RequestEnds ==
    ASSUME Types, ~At("idle"), NextRequest
    PROVE  /\ run' \in RunRecords
           /\ \/ /\ run' = Idle /\ outcome' = "succeeded"
                 /\ \A f \in Declared(run.checkout) : f <= run.at
              \/ /\ UNCHANGED outcome
                 /\ run'.pc = "look" /\ run'.draft = FALSE /\ run'.checkout = run.checkout
                 /\ run'.at \in Declared(run.checkout)
                 /\ \A f \in Declared(run.checkout) : f < run'.at => f <= run.at
<1> DEFINE later == {f \in Declared(run.checkout) : f > run.at}
           first == CHOOSE f \in later : \A g \in later : f <= g
<1>1. /\ run.checkout \in Catalogs /\ run.at \in Int
      /\ \A f \in Declared(run.checkout) : f \in Int
    BY NumbersAreNaturals DEF Types, RunRecords, Declared, File
<1>2. CASE later = {}
    <2>1. run' = Idle /\ outcome' = "succeeded"
        BY <1>2 DEF NextRequest
    <2> QED
        BY <1>1, <1>2, <2>1, IdleTypes
<1>3. CASE later # {}
    <2>1. first \in later /\ \A g \in later : first <= g
        BY <1>3, FirstOf
    <2>2. /\ run' = [Idle EXCEPT !.pc = "look", !.checkout = run.checkout, !.at = first]
          /\ UNCHANGED outcome
        BY <1>3 DEF NextRequest
    <2> HIDE DEF first
    <2>3. /\ run' \in RunRecords /\ run'.pc = "look" /\ run'.at = first
          /\ run'.checkout = run.checkout /\ run'.draft = FALSE
        BY <1>1, <2>1, <2>2, RunBegins
    <2> QED
        BY <1>1, <2>1, <2>2, <2>3
<1> QED
    BY <1>2, <1>3

-----------------------------------------------------------------------------
(* What a step does to releases and their assets.                          *)
DraftCreated ==
    /\ At("create") /\ release[Tagged] = "none"
    /\ release' = [release EXCEPT ![Tagged] = "draft"] /\ UNCHANGED assets
AssetAdded ==
    /\ At("upload") /\ UNCHANGED release
    /\ \E n \in Name \ DOMAIN assets[Tagged], c \in Content :
          assets' = [assets EXCEPT ![Tagged] = With(@, n, c)]
ReleasePublished ==
    /\ At("publish")
    /\ release' = [release EXCEPT ![Tagged] = "published"] /\ UNCHANGED assets

LEMMA WorkingOn ==
    ASSUME Types, ~At("idle")
    PROVE  /\ run.at \in Declared(run.checkout) /\ run.checkout \in Catalogs
           /\ run.at \in File /\ Tagged \in Tag
           /\ run.checkout[run.at].artifact \in Artifact
BY DeclaredTypes DEF Types, TypeOK, RunRecords, Tagged

LEMMA UploadAdds ==
    ASSUME Types, Upload
    PROVE  \/ /\ UNCHANGED <<release, assets>>
              /\ Exit \/ (Continue("recheck") /\ UNCHANGED outcome)
           \/ AssetAdded /\ run' = [run EXCEPT !.seen = run'.seen] /\ run'.seen \in SUBSET Name
              /\ UNCHANGED outcome
<1> DEFINE missing == {k \in 1..3 : Order[k] \notin run.seen}
           least == CHOOSE k \in missing : \A l \in missing : k <= l
<1>1. CASE missing = {}
    BY <1>1 DEF Upload
<1>2. CASE missing # {}
    <2>1. least \in missing
        <3>1. missing \in SUBSET Nat
            OBVIOUS
        <3> QED
            BY <1>2, <3>1, LeastExists
    <2> DEFINE name == Order[least]
    <2>2. name \in Name
        <3>1. \A k \in 1..3 : Order[k] \in Name
            BY DEF Order, Name
        <3> QED
            BY <2>1, <3>1
    <2>3. \/ UNCHANGED <<release, assets>> /\ Exit
          \/ /\ name \notin DOMAIN assets[Tagged] /\ UNCHANGED <<release, outcome>>
             /\ assets' = [assets EXCEPT ![Tagged] =
                              With(@, name, Built(name, run.at, run.checkout[run.at]))]
             /\ run' = [run EXCEPT !.seen = @ \cup {name}]
        BY <1>2 DEF Upload
    <2>4. At("upload")
        BY DEF Upload
    <2>5. Built(name, run.at, run.checkout[run.at]) \in Content
        BY <2>4, WorkingOn, NumbersAreNaturals DEF Built, Content, File, Artifact, At
    <2> HIDE DEF name
    <2>6. ASSUME run' = [run EXCEPT !.seen = @ \cup {name}]
          PROVE  run' = [run EXCEPT !.seen = run'.seen] /\ run'.seen \in SUBSET Name
        BY <2>2, <2>6 DEF Types, RunRecords
    <2> QED
        BY <2>2, <2>3, <2>4, <2>5, <2>6 DEF AssetAdded
<1> QED
    BY <1>1, <1>2

LEMMA FaultAdds ==
    ASSUME Types, Fault
    PROVE  UNCHANGED <<release, assets>> \/ AssetAdded
<1>1. Damaged \in Content
    BY NumbersAreNaturals DEF Damaged, Content
<1> QED
    BY <1>1 DEF Fault, AssetAdded

LEMMA EvidenceStep ==
    ASSUME Types, [Next]_vars
    PROVE  UNCHANGED <<release, assets>> \/ DraftCreated \/ AssetAdded \/ ReleasePublished
<1>1. CASE Create
    BY <1>1 DEF Create, DraftCreated
<1>2. CASE Publish
    BY <1>2 DEF Publish, ReleasePublished
<1>3. CASE (\E f \in File : Commit(f)) \/ (\E a \in Artifact : Expire(a)) \/ Start
    BY <1>3 DEF Commit, Expire, Start
<1>4. CASE Look \/ VerifyExisting \/ Resolve \/ Download \/ Recheck
    BY <1>4 DEF Look, VerifyExisting, Resolve, Download, Recheck
<1>5. CASE UNCHANGED vars
    BY <1>5 DEF vars
<1> QED
    BY <1>1, <1>2, <1>3, <1>4, <1>5, UploadAdds, FaultAdds DEF Next, Step

(* Evidence is only added, and to drafts.                                  *)
CreateOnly ==
    \A t \in Tag :
        /\ DOMAIN assets[t] \subseteq DOMAIN assets'[t]
        /\ \A n \in DOMAIN assets[t] : assets'[t][n] = assets[t][n]
        /\ release[t] = "published" => /\ release'[t] = "published"
                                       /\ assets'[t] = assets[t]

LEMMA StepCreatesOnly ==
    ASSUME Types, Phases, [Next]_vars
    PROVE  CreateOnly
<1>1. DOMAIN assets = Tag /\ DOMAIN release = Tag
    BY DEF Types, TypeOK
<1>2. CASE DraftCreated
    BY <1>1, <1>2 DEF DraftCreated, CreateOnly
<1>3. CASE AssetAdded
    <2>1. PICK n \in Name \ DOMAIN assets[Tagged], c \in Content :
             assets' = [assets EXCEPT ![Tagged] = With(assets[Tagged], n, c)]
        BY <1>3 DEF AssetAdded
    <2>2. release[Tagged] = "draft" /\ UNCHANGED release
        BY <1>3 DEF AssetAdded, Phases, At
    <2>3. \A t \in Tag : t # Tagged => assets'[t] = assets[t]
        BY <1>1, <2>1
    <2>4. Tagged \in Tag => assets'[Tagged] = With(assets[Tagged], n, c)
        BY <1>1, <2>1
    <2> QED
        BY <2>1, <2>2, <2>3, <2>4 DEF CreateOnly, With
<1>4. CASE ReleasePublished
    BY <1>1, <1>4 DEF ReleasePublished, CreateOnly
<1>5. CASE UNCHANGED <<release, assets>>
    BY <1>5 DEF CreateOnly
<1> QED
    BY <1>2, <1>3, <1>4, <1>5, EvidenceStep

LEMMA ArchivedStays ==
    ASSUME CreateOnly, NEW catalog \in Catalogs, NEW f \in Declared(catalog),
           Archived(catalog, f)
    PROVE  Archived(catalog, f)'
BY DeclaredTypes DEF CreateOnly, Archived, Verified

-----------------------------------------------------------------------------
(* The types.                                                              *)
LEMMA EvidenceTypes ==
    ASSUME Types, Phases, [Next]_vars
    PROVE  /\ release' \in [Tag -> {"none", "draft", "published"}]
           /\ DOMAIN assets' = Tag
           /\ \A t \in Tag : /\ DOMAIN assets'[t] \subseteq Name
                             /\ \A n \in DOMAIN assets'[t] : assets'[t][n] \in Content
                             /\ release'[t] = "none" => DOMAIN assets'[t] = {}
<1>1. /\ release \in [Tag -> {"none", "draft", "published"}]
      /\ DOMAIN assets = Tag
      /\ \A t \in Tag : /\ DOMAIN assets[t] \subseteq Name
                        /\ \A n \in DOMAIN assets[t] : assets[t][n] \in Content
                        /\ release[t] = "none" => DOMAIN assets[t] = {}
    BY DEF Types, TypeOK
<1>2. CASE DraftCreated
    BY <1>1, <1>2 DEF DraftCreated
<1>3. CASE AssetAdded
    <2>1. PICK n \in Name \ DOMAIN assets[Tagged], c \in Content :
             assets' = [assets EXCEPT ![Tagged] = With(assets[Tagged], n, c)]
        BY <1>3 DEF AssetAdded
    <2>2. release[Tagged] = "draft" /\ UNCHANGED release
        BY <1>3 DEF AssetAdded, Phases, At
    <2>3. /\ DOMAIN assets' = Tag
          /\ \A t \in Tag : assets'[t] = IF t = Tagged THEN With(assets[t], n, c) ELSE assets[t]
        BY <1>1, <2>1
    <2> QED
        BY <1>1, <2>1, <2>2, <2>3 DEF With
<1>4. CASE ReleasePublished
    BY <1>1, <1>4 DEF ReleasePublished
<1>5. CASE UNCHANGED <<release, assets>>
    BY <1>1, <1>5
<1> QED
    BY <1>2, <1>3, <1>4, <1>5, EvidenceStep

(* What a step does to the run.                                            *)
Leaves == run' = Idle /\ outcome' = "failed"
Goes(pc) == Stays /\ run'.pc = pc /\ run'.draft = run.draft /\ UNCHANGED outcome

Kept == UNCHANGED <<release, assets>>

LEMMA RunStep ==
    ASSUME Types, [Next]_vars
    PROVE  \/ UNCHANGED <<run, outcome>> /\ Kept
           \/ Leaves
           \/ Start /\ outcome' = "none" /\ CatalogValid(request)
           \/ Look /\ UNCHANGED outcome
           \/ /\ At("verify") /\ run.draft /\ Goes("publish") /\ Kept
              /\ Verified(run.checkout, run.at, assets[Tagged])
           \/ /\ At("verify") /\ ~run.draft /\ NextRequest /\ Kept
              /\ Verified(run.checkout, run.at, assets[Tagged])
           \/ At("resolve") /\ Goes("download") /\ Kept
           \/ At("download") /\ run.draft /\ Goes("upload") /\ Kept
           \/ At("download") /\ Goes("create") /\ Kept
           \/ DraftCreated /\ Goes("upload")
           \/ AssetAdded /\ Goes("upload")
           \/ At("upload") /\ Goes("recheck") /\ Kept
           \/ /\ At("recheck") /\ Goes("publish") /\ Kept
              /\ Verified(run.checkout, run.at, assets[Tagged])
           \/ ReleasePublished /\ NextRequest
<1> USE DEF Places, Kept
<1>1. CASE Look
    BY <1>1 DEF Look, Exit, Leaves
<1>2. CASE VerifyExisting
    BY <1>2, RunContinues DEF VerifyExisting, Exit, Leaves, Goes
<1>3. CASE Resolve \/ Recheck
    BY <1>3, RunContinues DEF Resolve, Recheck, Exit, Leaves, Goes
<1>4. CASE Download
    BY <1>4, RunContinues DEF Download, Exit, Leaves, Goes
<1>5. CASE Create
    BY <1>5, RunContinues DEF Create, Exit, Leaves, Goes, DraftCreated
<1>6. CASE Upload
    <2>2. At("upload")
        BY <1>6 DEF Upload
    <2>3. ASSUME run' = [run EXCEPT !.seen = run'.seen], run'.seen \in SUBSET Name,
                 UNCHANGED outcome
          PROVE  Goes("upload")
        <3>1. PICK seen \in SUBSET Name : run' = [run EXCEPT !.seen = seen]
            BY <2>3
        <3> QED
            BY <2>2, <2>3, <3>1 DEF Types, RunRecords, Goes, Stays, At
    <2> QED
        BY <1>6, <2>2, <2>3, UploadAdds, RunContinues DEF Goes, Exit, Leaves
<1>7. CASE Publish
    BY <1>7 DEF Publish, ReleasePublished
<1>8. CASE Fault
    BY <1>8 DEF Fault, Exit, Leaves
<1>9. CASE Start
    BY <1>9 DEF Start, Exit, Leaves
<1>10. CASE (\E f \in File : Commit(f)) \/ (\E a \in Artifact : Expire(a)) \/ UNCHANGED vars
    BY <1>10 DEF Commit, Expire, vars
<1> QED
    BY <1>1, <1>2, <1>3, <1>4, <1>5, <1>6, <1>7, <1>8, <1>9, <1>10 DEF Next, Step

-----------------------------------------------------------------------------
(* The invariant, step by step.                                            *)
LEMMA StartBegins ==
    ASSUME Types, Start, outcome' = "none"
    PROVE  /\ run' \in RunRecords /\ run'.pc = "look" /\ run'.draft = FALSE
           /\ run'.checkout = request /\ run'.at \in Declared(request)
           /\ \A f \in Declared(request) : run'.at <= f
<1> DEFINE first == CHOOSE f \in Declared(request) : \A g \in Declared(request) : f <= g
<1>1. Declared(request) # {} /\ run' = [Idle EXCEPT !.pc = "look", !.checkout = request, !.at = first]
    BY DEF Start, Exit
<1>2. first \in Declared(request) /\ \A g \in Declared(request) : first <= g
    BY <1>1, FirstOf
<1> HIDE DEF first
<1> QED
    BY <1>1, <1>2, RunBegins DEF Types

LEMMA LookFinds ==
    ASSUME Types, Look, UNCHANGED outcome, ~Leaves
    PROVE  /\ Kept /\ Stays /\ run'.pc \in {"verify", "resolve"}
           /\ run'.draft => release[Tagged] = "draft"
           /\ run'.pc = "verify" /\ ~run'.draft => release[Tagged] = "published"
<1>1. /\ Tagged \in Tag /\ release[Tagged] \in {"none", "draft", "published"}
      /\ DOMAIN assets[Tagged] \subseteq Name
    BY WorkingOn DEF Look, At, Types, TypeOK
<1>2. PICK found \in {release[Tagged] # "none", FALSE} :
        LET seen == IF found THEN DOMAIN assets[Tagged] ELSE {}
            draft == found /\ release[Tagged] = "draft" IN
        IF found /\ seen # Name /\ ~draft
        THEN Exit
        ELSE run' = [run EXCEPT !.draft = draft, !.seen = seen,
                        !.pc = IF seen = Name THEN "verify" ELSE "resolve"]
    BY DEF Look
<1> DEFINE seen == IF found THEN DOMAIN assets[Tagged] ELSE {}
           draft == found /\ release[Tagged] = "draft"
           pc == IF seen = Name THEN "verify" ELSE "resolve"
<1>3. run' = [run EXCEPT !.draft = draft, !.seen = seen, !.pc = pc]
    BY <1>2 DEF Exit, Leaves, Look
<1>4. seen \in SUBSET Name /\ draft \in BOOLEAN /\ pc \in {"verify", "resolve"}
    BY <1>1
<1>5. /\ draft => release[Tagged] = "draft"
      /\ pc = "verify" /\ ~draft => release[Tagged] = "published"
    <2>1. pc = "verify" => found
        BY DEF Name
    <2>2. found => release[Tagged] # "none"
        OBVIOUS
    <2> QED
        BY <1>1, <2>1, <2>2
<1> HIDE DEF seen, draft, pc
<1>6. Stays /\ run'.pc = pc /\ run'.draft = draft
    BY <1>3, <1>4 DEF Types, RunRecords, Stays, Places
<1> QED
    BY <1>4, <1>5, <1>6 DEF Kept, Look

LEMMA RestTypes ==
    ASSUME Types, [Next]_vars
    PROVE  /\ request' \in Catalogs /\ retrievable' \subseteq Artifact
           /\ outcome' \in {"none", "failed", "succeeded"}
           /\ commits' \in 0..MaxCommits /\ faults' \in 0..MaxFaults
<1>1. /\ request \in Catalogs /\ retrievable \subseteq Artifact
      /\ outcome \in {"none", "failed", "succeeded"}
      /\ commits \in 0..MaxCommits /\ faults \in 0..MaxFaults
      /\ MaxCommits \in Nat /\ MaxFaults \in Nat
    BY NumbersAreNaturals DEF Types, TypeOK
<1>2. CASE \E f \in File : Commit(f)
    BY <1>1, <1>2 DEF Commit, Catalogs
<1>3. CASE \E a \in Artifact : Expire(a)
    BY <1>1, <1>3 DEF Expire
<1>4. outcome' \in {"none", "failed", "succeeded"}
    <2>1. CASE NextRequest
        BY <1>1, <2>1 DEF NextRequest
    <2> QED
        BY <1>1, <2>1, RunStep DEF Leaves, Goes
<1>5. CASE Look
    BY <1>1, <1>4, <1>5 DEF Look
<1>6. CASE Fault
    BY <1>1, <1>4, <1>6 DEF Fault
<1>7. CASE Start \/ VerifyExisting \/ Resolve \/ Download \/ Create \/ Upload \/ Recheck \/ Publish
    BY <1>1, <1>4, <1>7 DEF Start, VerifyExisting, Resolve, Download, Create, Upload, Recheck, Publish
<1>8. CASE UNCHANGED vars
    BY <1>1, <1>8 DEF vars
<1> QED
    BY <1>2, <1>3, <1>4, <1>5, <1>6, <1>7, <1>8 DEF Next, Step

LEMMA RunTypes ==
    ASSUME Types, [Next]_vars
    PROVE  run' \in RunRecords /\ (run'.pc # "idle" => run'.at \in Declared(run'.checkout))
<1>1. run \in RunRecords /\ (~At("idle") => run.at \in Declared(run.checkout))
    BY DEF Types, TypeOK
<1>2. CASE UNCHANGED run
    BY <1>1, <1>2 DEF At
<1>3. CASE Leaves
    BY <1>3, IdleTypes DEF Leaves
<1>4. CASE Start /\ outcome' = "none"
    BY <1>4, StartBegins
<1>5. CASE ~At("idle") /\ Stays
    BY <1>1, <1>5 DEF Stays
<1>6. CASE ~At("idle") /\ NextRequest
    BY <1>6, RequestEnds, IdleTypes
<1>7. CASE Look /\ UNCHANGED outcome
    <2>1. ~At("idle")
        BY <1>7 DEF Look, At
    <2> QED
        BY <1>3, <1>5, <1>7, <2>1, LookFinds
<1>8. ASSUME NEW pc, Goes(pc), ~At("idle")
      PROVE  ~At("idle") /\ Stays
    BY <1>8 DEF Goes
<1> QED
    BY <1>2, <1>3, <1>4, <1>5, <1>6, <1>7, <1>8, RunStep
       DEF At, DraftCreated, AssetAdded, ReleasePublished

LEMMA TypesStep ==
    ASSUME Types, Phases, [Next]_vars
    PROVE  Types'
BY RestTypes, RunTypes, EvidenceTypes DEF Types, TypeOK, At, Catalogs, RunRecords, Places

LEMMA PhasesStep ==
    ASSUME Types, Phases, [Next]_vars
    PROVE  Phases'
<1>1. CASE UNCHANGED run /\ Kept
    BY <1>1 DEF Phases, Kept, At, Tagged, Verified
<1>2. ASSUME run'.pc \in {"idle", "look"}, run'.draft = FALSE
      PROVE  Phases'
    BY <1>2 DEF Phases, At
<1>3. CASE Leaves \/ (Start /\ outcome' = "none")
    BY <1>2, <1>3, IdleTypes, StartBegins DEF Leaves
<1>4. CASE ~At("idle") /\ NextRequest
    BY <1>2, <1>4, RequestEnds, IdleTypes
<1>5. CASE Look /\ UNCHANGED outcome
    <2>1. CASE ~Leaves
        BY <1>5, <2>1, LookFinds DEF Phases, Kept, Stays, At, Tagged
    <2> QED
        BY <1>3, <2>1
<1>6. ASSUME NEW pc, Goes(pc), Kept, ~At("idle"), pc \notin {"verify", "idle"},
             pc \in {"upload", "recheck", "publish"} => release[Tagged] = "draft",
             pc = "publish" => Verified(run.checkout, run.at, assets[Tagged])
      PROVE  Phases'
    BY <1>6 DEF Phases, Goes, Stays, Kept, At, Tagged, Verified
<1>7. CASE DraftCreated /\ Goes("upload")
    <2>1. Tagged \in Tag /\ release \in [Tag -> {"none", "draft", "published"}]
        BY <1>7, WorkingOn DEF DraftCreated, At, Types, TypeOK
    <2>2. release'[Tagged] = "draft" /\ Tagged' = Tagged
        BY <1>7, <2>1 DEF DraftCreated, Goes, Stays, Tagged
    <2> QED
        BY <1>7, <2>2 DEF Phases, Goes, At
<1>8. CASE AssetAdded /\ Goes("upload")
    <2>1. release'[Tagged] = "draft" /\ Tagged' = Tagged
        BY <1>8 DEF AssetAdded, Phases, At, Goes, Stays, Tagged
    <2> QED
        BY <1>8, <2>1 DEF Phases, Goes, At
<1>9. CASE /\ At("verify") /\ run.draft /\ Goes("publish") /\ Kept
           /\ Verified(run.checkout, run.at, assets[Tagged])
    BY <1>6, <1>9 DEF Phases, At
<1>10. CASE (At("resolve") /\ Goes("download") /\ Kept) \/ (At("download") /\ Goes("create") /\ Kept)
    BY <1>6, <1>10 DEF At
<1>11. CASE At("download") /\ run.draft /\ Goes("upload") /\ Kept
    BY <1>6, <1>11 DEF Phases, At
<1>12. CASE \/ At("upload") /\ Goes("recheck") /\ Kept
            \/ /\ At("recheck") /\ Goes("publish") /\ Kept
               /\ Verified(run.checkout, run.at, assets[Tagged])
    BY <1>6, <1>12 DEF Phases, At
<1> QED
    BY <1>1, <1>3, <1>4, <1>5, <1>7, <1>8, <1>9, <1>10, <1>11, <1>12, RunStep
       DEF At, ReleasePublished

(* When the run goes on to the next request, the present one is archived.  *)
LEMMA EndsArchived ==
    ASSUME Types, Phases, Behind, [Next]_vars, NEW catalog \in Catalogs,
           catalog = run.checkout, ~At("idle"), NextRequest,
           \/ /\ At("verify") /\ ~run.draft /\ Kept
              /\ Verified(run.checkout, run.at, assets[Tagged])
           \/ ReleasePublished
    PROVE  \A f \in Declared(catalog) : f <= run.at => Archived(catalog, f)'
<1>1. ASSUME NEW f \in Declared(catalog), f < run.at
      PROVE  Archived(catalog, f)'
    <2>1. Archived(catalog, f)
        BY <1>1 DEF Behind
    <2> QED
        BY <2>1, StepCreatesOnly, ArchivedStays
<1>2. ASSUME NEW at, at = run.at
      PROVE  Archived(catalog, at)'
    <2>1. Tagged = catalog[at].tag
        BY <1>2 DEF Tagged
    <2>2. Tagged \in Tag /\ release \in [Tag -> {"none", "draft", "published"}]
        BY WorkingOn DEF Types, TypeOK
    <2>3. release'[catalog[at].tag] = "published" /\ assets' = assets
        BY <2>1, <2>2 DEF ReleasePublished, Phases, Kept
    <2>4. Verified(catalog, at, assets[catalog[at].tag])
        BY <1>2, <2>1 DEF ReleasePublished, Phases
    <2> QED
        BY <2>3, <2>4 DEF Archived, Verified
<1>3. run.at \in Int /\ \A f \in Declared(catalog) : f \in Int
    BY NumbersAreNaturals DEF Types, RunRecords, Declared, File
<1> QED
    BY <1>1, <1>2, <1>3

LEMMA BehindStep ==
    ASSUME Types, Phases, Behind, [Next]_vars
    PROVE  Behind'
<1>1. \A catalog \in Catalogs, f \in File :
          f \in Declared(catalog) /\ Archived(catalog, f) => Archived(catalog, f)'
    BY StepCreatesOnly, ArchivedStays
<1>2. ASSUME ~At("idle"), run'.checkout = run.checkout, run'.at = run.at
      PROVE  Behind'
    <2>1. run.checkout \in Catalogs
        BY DEF Types, RunRecords
    <2>2. PICK catalog \in Catalogs : catalog = run.checkout
        BY <2>1
    <2>3. \A f \in Declared(catalog) : f < run.at => Archived(catalog, f)'
        BY <1>1, <1>2, <2>2 DEF Behind, Declared
    <2> QED
        BY <1>2, <2>2, <2>3 DEF Behind, Archived, Verified
<1>3. ASSUME run'.pc = "idle"
      PROVE  Behind'
    BY <1>3 DEF Behind, At
<1>4. CASE Start /\ outcome' = "none"
    <2>1. PICK catalog \in Catalogs : catalog = request
        BY DEF Types
    <2>2. run'.checkout = catalog /\ \A f \in Declared(catalog) : run'.at <= f
        BY <1>4, <2>1, StartBegins
    <2>3. run'.at \in Int /\ \A f \in Declared(catalog) : f \in Int
        BY RunTypes, NumbersAreNaturals DEF RunRecords, Declared, File
    <2>4. \A f \in Declared(catalog) : ~(f < run'.at)
        BY <2>2, <2>3
    <2> QED
        BY <2>2, <2>4 DEF Behind
<1>5. CASE /\ ~At("idle") /\ NextRequest
           /\ \/ /\ At("verify") /\ ~run.draft /\ Kept
                 /\ Verified(run.checkout, run.at, assets[Tagged])
              \/ ReleasePublished
    <2>1. PICK catalog \in Catalogs : catalog = run.checkout
        BY DEF Types, RunRecords
    <2>2. \A f \in Declared(catalog) : f <= run.at => Archived(catalog, f)'
        BY <1>5, <2>1, EndsArchived
    <2>3. \/ run'.pc = "idle"
          \/ run'.checkout = catalog /\ \A f \in Declared(catalog) : f < run'.at => f <= run.at
        BY <1>5, <2>1, RequestEnds, IdleTypes
    <2>4. CASE run'.checkout = catalog /\ \A f \in Declared(catalog) : f < run'.at => f <= run.at
        BY <2>2, <2>4 DEF Behind, Archived, Verified
    <2> QED
        BY <1>3, <2>3, <2>4
<1>6. CASE UNCHANGED run
    BY <1>2, <1>3, <1>6 DEF At
<1>7. CASE Leaves
    BY <1>3, <1>7, IdleTypes DEF Leaves
<1>8. CASE Look /\ UNCHANGED outcome
    BY <1>2, <1>7, <1>8, LookFinds DEF Stays, Look, At
<1>9. ASSUME NEW pc, Goes(pc), ~At("idle")
      PROVE  Behind'
    BY <1>2, <1>9 DEF Goes, Stays
<1> QED
    BY <1>4, <1>5, <1>6, <1>7, <1>8, <1>9, RunStep DEF At, DraftCreated, AssetAdded, ReleasePublished

LEMMA WholeStep ==
    ASSUME Types, Phases, PublishedEvidenceIsWhole, [Next]_vars
    PROVE  PublishedEvidenceIsWhole'
<1> SUFFICES ASSUME NEW t \in Tag, release'[t] = "published"
             PROVE  \E f \in File, a \in Artifact :
                       /\ DOMAIN assets'[t] = Name
                       /\ \A n \in Name : assets'[t][n] = Built(n, f, [tag |-> t, artifact |-> a])
    BY DEF PublishedEvidenceIsWhole
<1>1. CASE release[t] = "published"
    BY <1>1, StepCreatesOnly DEF CreateOnly, PublishedEvidenceIsWhole
<1>2. CASE release[t] # "published"
    <2>1. release \in [Tag -> {"none", "draft", "published"}]
        BY DEF Types, TypeOK
    <2>2. ReleasePublished /\ t = Tagged
        BY <1>2, <2>1, EvidenceStep DEF DraftCreated, AssetAdded, ReleasePublished
    <2>3. Verified(run.checkout, run.at, assets[t]) /\ assets' = assets
        BY <2>2 DEF ReleasePublished, Phases
    <2>4. run.at \in File /\ run.checkout[run.at].artifact \in Artifact
        BY <2>2, WorkingOn DEF ReleasePublished, At
    <2> QED
        BY <2>3, <2>4 DEF Verified, Built
<1> QED
    BY <1>1, <1>2

LEMMA SuccessStep ==
    ASSUME Types, Phases, Behind, [Next]_vars, outcome' = "succeeded", outcome # "succeeded"
    PROVE  \A f \in Declared(run.checkout) :
              /\ release'[run.checkout[f].tag] = "published"
              /\ Verified(run.checkout, f, assets'[run.checkout[f].tag])
<1>1. /\ ~At("idle") /\ NextRequest
      /\ \/ /\ At("verify") /\ ~run.draft /\ Kept
            /\ Verified(run.checkout, run.at, assets[Tagged])
         \/ ReleasePublished
    BY RunStep DEF Leaves, Goes, At, DraftCreated, AssetAdded, ReleasePublished
<1>2. PICK catalog \in Catalogs : catalog = run.checkout
    BY DEF Types, RunRecords
<1>3. \A f \in Declared(catalog) : f <= run.at => Archived(catalog, f)'
    BY <1>1, <1>2, EndsArchived
<1>4. \A f \in Declared(catalog) : f <= run.at
    BY <1>1, <1>2, RequestEnds
<1> QED
    BY <1>2, <1>3, <1>4 DEF Archived, Verified

-----------------------------------------------------------------------------
(* The types of requests, releases, assets and the workflow run, and what  *)
(* the run knows of the release it works on.                               *)
THEOREM ArchiveTypesHold == Spec => [](Types /\ Phases)
<1>1. Types /\ Phases /\ [Next]_vars => Types' /\ Phases'
    BY TypesStep, PhasesStep
<1> QED
    BY <1>1, InitInv, PTL DEF Spec

(* Whatever drafts, interrupted runs and amended requests there are, a     *)
(* release is published only with all of one artifact.                     *)
THEOREM WhatIsPublishedIsWhole == Spec => []PublishedEvidenceIsWhole
<1>1. Types /\ Phases /\ PublishedEvidenceIsWhole /\ [Next]_vars => PublishedEvidenceIsWhole'
    BY WholeStep
<1> QED
    BY <1>1, InitInv, ArchiveTypesHold, PTL DEF Spec

(* No step of the workflow removes or replaces an asset, or touches a      *)
(* published release.                                                      *)
THEOREM NothingIsReplaced == Spec => EvidenceIsCreateOnly
<1>1. Types /\ Phases /\ [Next]_vars => CreateOnly
    BY StepCreatesOnly
<1> QED
    BY <1>1, ArchiveTypesHold, PTL DEF Spec, EvidenceIsCreateOnly, CreateOnly

(* A run that succeeds leaves every request of its checkout archived, also *)
(* those it passed over because an earlier run had archived them.          *)
THEOREM SuccessArchives == Spec => SuccessMeansArchived
<1>1. Types /\ Phases /\ Behind /\ [Next]_vars => Behind'
    BY BehindStep
<1>2. Types /\ Phases /\ Behind /\ [Next]_vars =>
        LET catalog == run.checkout IN
        (outcome' = "succeeded" /\ outcome # "succeeded") =>
            \A f \in Declared(catalog) :
                /\ release'[catalog[f].tag] = "published"
                /\ Verified(catalog, f, assets'[catalog[f].tag])
    BY SuccessStep
<1> QED
    BY <1>1, <1>2, InitInv, ArchiveTypesHold, PTL DEF Spec, SuccessMeansArchived
=============================================================================
