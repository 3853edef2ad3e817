--------------------------- MODULE ArtifactProofs ---------------------------
(***************************************************************************)
(* Proofs about the artifacts of experiments.                              *)
(*                                                                         *)
(* How one is published (WorkdirLifecycle, for every number of resumes):   *)
(* who may collect, what the final name of the artifact shows, and what is *)
(* kept until it shows it.                                                 *)
(*                                                                         *)
(* What one says and what is concluded from several (ThesisIntelligence,   *)
(* for every suite, number of runs, source and history): the evidence is   *)
(* that of the last attempt, and whatever is built from evidence that is   *)
(* accepted measures, counts and reproduces what it claims to.             *)
(***************************************************************************)
EXTENDS WorkdirLifecycle, ThesisIntelligence, FiniteSetTheorems, SequenceTheorems, TLAPS

-----------------------------------------------------------------------------
(* WorkdirLifecycle: the inductive invariant.                              *)

(* Until the artifact is published nothing is removed, so there is one     *)
(* run.lock at most, and its inode decides who works.                      *)
LockInv ==
    /\ \A p \in Process : pc[p] = "lock" => handle[p] # 0
    /\ "lock" \in entries => lockFile # 0
    /\ artifact = "absent" =>
          /\ inodes \in {0, 1} /\ lockFile = inodes
          /\ "lock" \in entries <=> inodes = 1

(* A resume only gets past its preflight once the run has written its      *)
(* state, and by then the run has long had the lock.                       *)
RunnerInv ==
    /\ pc[Runner] \in {"allocate", "open", "lock"} =>
          artifact = "absent" /\ "run_state" \notin entries
    /\ artifact = "absent" /\ "run_state" \notin entries =>
          \A p \in Resumers : pc[p] \notin {"look_for_artifact"} \cup Collecting

PublishInv ==
    /\ artifact # "partial"
    /\ \A p \in Process :
          pc[p] \in {"discard_temporary", "release_success", "scan", "succeeded"} \cup Removing
             => artifact = "whole"
    /\ artifact = "absent" => \A p \in Process : pc[p] = "publish" => temporary = "whole"

Inv == TypeOK /\ LockInv /\ RunnerInv /\ PublishInv /\ OneCollector

ProcessPlaces == Owning \cup Removing \cup Ended \cup {"allocate", "open", "lock", "scan"}

LEMMA RunnerIsAProcess == Runner \in Process /\ Nobody \notin Process
BY ProcessAssumption DEF Process

(* Before the publication one process at most owns the workdir.            *)
LEMMA OneOwner ==
    ASSUME Inv, artifact = "absent", NEW p \in Process, NEW q \in Process,
           pc[p] \in Owning, pc[q] \in Owning
    PROVE  p = q
<1>1. handle[p] \in 0..inodes /\ handle[q] \in 0..inodes /\ inodes \in {0, 1}
    BY DEF Inv, TypeOK, LockInv
<1>2. /\ handle[p] # 0 /\ holder[handle[p]] = p
      /\ handle[q] # 0 /\ holder[handle[q]] = q
    BY DEF Inv, TypeOK, Holds
<1>3. handle[p] = 1 /\ handle[q] = 1
    BY <1>1, <1>2
<1> QED
    BY <1>2, <1>3

LEMMA InitInv == Init => Inv
<1> SUFFICES ASSUME Init PROVE Inv
    OBVIOUS
<1>1. \A p \in Process : pc[p] \in {"allocate", "open"} /\ handle[p] = 0 /\ removing[p] = {}
    BY DEF Init
<1>2. TypeOK
    <2>1. holder \in [1..inodes -> Process \cup {Nobody}]
        <3>1. 1..inodes = {} /\ holder = [k \in {} |-> Nobody]
            BY DEF Init
        <3> QED
            BY <3>1
    <2>2. pc \in [Process -> ProcessPlaces]
        BY DEF Init, ProcessPlaces
    <2>3. handle \in [Process -> 0..inodes] /\ removing \in [Process -> SUBSET Entry]
        BY DEF Init
    <2>4. \A p \in Process : Holds(p) => handle[p] # 0 /\ holder[handle[p]] = p
        BY <1>1 DEF Holds, Owning, Collecting
    <2>5. inodes \in Nat /\ lockFile \in 0..inodes
        <3>1. inodes = 0 /\ lockFile = 0
            BY DEF Init
        <3> QED
            BY <3>1
    <2>6. exists \in BOOLEAN /\ entries \subseteq Entry /\ temporary \in ZipStates /\ artifact \in ZipStates
        BY DEF Init, ZipStates
    <2> HIDE DEF Init
    <2> QED
        BY <2>1, <2>2, <2>3, <2>4, <2>5, <2>6 DEF TypeOK, ProcessPlaces
<1>3. LockInv
    BY <1>1 DEF Init, LockInv
<1>4. RunnerInv
    BY <1>1 DEF Init, RunnerInv, Process, Collecting
<1>5. PublishInv
    BY <1>1 DEF Init, PublishInv, Removing
<1>6. OneCollector
    BY <1>1 DEF OneCollector, Collecting
<1> QED
    BY <1>2, <1>3, <1>4, <1>5, <1>6 DEF Inv

-----------------------------------------------------------------------------
(* A step of the process that has the lock, in general: it keeps the lock, *)
(* removes nothing but derived outputs, publishes at most.                 *)
LEMMA OwnerStep ==
    ASSUME Inv, NEW p \in Process, NEW to \in Owning,
           pc[p] \in Owning,
           pc' = [pc EXCEPT ![p] = to],
           UNCHANGED <<exists, lockFile, inodes, holder, handle, removing>>,
           entries' \subseteq Entry,
           entries \subseteq entries' \cup {"derived"},
           "lock" \in entries' => "lock" \in entries,
           temporary' \in ZipStates,
           \/ artifact' = artifact
           \/ artifact = "absent" /\ artifact' = "whole" /\ pc[p] = "publish",
           to = "publish" => temporary' = "whole",
           to \in {"discard_temporary", "release_success"} => artifact' = "whole",
           to \in Collecting => pc[p] \in Collecting \/ artifact = "absent",
           p \in Resumers => ("run_state" \in entries' => "run_state" \in entries),
           p \in Resumers /\ to \in {"look_for_artifact"} \cup Collecting =>
               "run_state" \in entries' \/ pc[p] \in {"look_for_artifact"} \cup Collecting
    PROVE  Inv'
<1>1. /\ pc'[p] = to
      /\ \A q \in Process : q # p => pc'[q] = pc[q]
    BY DEF Inv, TypeOK
<1>2. artifact' = "absent" => artifact = "absent"
    OBVIOUS
<1>3. TypeOK'
    <2>1. pc' \in [Process -> ProcessPlaces]
        BY DEF Inv, TypeOK, ProcessPlaces
    <2>2. \A q \in Process : Holds(q)' => handle'[q] # 0 /\ holder'[handle'[q]] = q
        BY <1>1 DEF Inv, TypeOK, Holds
    <2>3. artifact' \in ZipStates
        BY DEF Inv, TypeOK, ZipStates
    <2> QED
        BY <2>1, <2>2, <2>3 DEF Inv, TypeOK, ProcessPlaces
<1>4. LockInv'
    <2>1. \A q \in Process : pc'[q] = "lock" => pc[q] = "lock"
        BY <1>1 DEF Owning, Collecting
    <2>2. "lock" \in entries' <=> "lock" \in entries
        OBVIOUS
    <2> QED
        BY <1>2, <2>1, <2>2 DEF Inv, LockInv
<1>5. RunnerInv'
    <2>1. CASE p = Runner
        <3>1. pc'[Runner] \notin {"allocate", "open", "lock"}
            BY <1>1, <2>1 DEF Owning, Collecting
        <3>2. \A q \in Resumers : pc'[q] = pc[q]
            BY <1>1, <2>1, ProcessAssumption DEF Process
        <3>3. "run_state" \notin entries' => "run_state" \notin entries
            OBVIOUS
        <3> QED
            BY <1>2, <3>1, <3>2, <3>3 DEF Inv, RunnerInv
    <2>2. CASE p \in Resumers
        <3>1. pc'[Runner] = pc[Runner]
            BY <1>1, <2>2, RunnerIsAProcess, ProcessAssumption
        <3>2. "run_state" \in entries' <=> "run_state" \in entries
            BY <2>2
        <3>3. pc[Runner] \in {"allocate", "open", "lock"} => artifact' = "absent"
            BY <2>2 DEF Inv, RunnerInv, Collecting
        <3>4. \A q \in Resumers : q # p => pc'[q] = pc[q]
            BY <1>1 DEF Process
        <3> QED
            BY <1>1, <1>2, <2>2, <3>1, <3>2, <3>3, <3>4 DEF Inv, RunnerInv
    <2> QED
        BY <2>1, <2>2 DEF Process
<1>6. PublishInv'
    <2>1. \A q \in Process :
             pc'[q] \in {"discard_temporary", "release_success", "scan", "succeeded"} \cup Removing
                => artifact' = "whole"
        BY <1>1 DEF Inv, PublishInv, Owning, Collecting, Removing
    <2>2. artifact' = "absent" => \A q \in Process : pc'[q] = "publish" => temporary' = "whole"
        <3> SUFFICES ASSUME artifact' = "absent", NEW q \in Process, pc'[q] = "publish"
                     PROVE  temporary' = "whole"
            OBVIOUS
        <3>1. CASE q = p
            BY <1>1, <3>1
        <3>2. CASE q # p
            <4>1. pc[q] \in Owning
                BY <1>1, <3>2 DEF Owning, Collecting
            <4> QED
                BY <1>2, <3>2, <4>1, OneOwner
        <3> QED
            BY <3>1, <3>2
    <2> QED
        BY <2>1, <2>2 DEF Inv, PublishInv
<1>7. OneCollector'
    <2>1. CASE to \in Collecting /\ pc[p] \notin Collecting
        <3>1. \A q \in Process : pc[q] \in Collecting => q = p
            BY <2>1, OneOwner DEF Owning
        <3> QED
            BY <1>1, <3>1 DEF OneCollector
    <2>2. CASE to \notin Collecting \/ pc[p] \in Collecting
        <3>1. \A q \in Process : pc'[q] \in Collecting => pc[q] \in Collecting
            BY <1>1, <2>2
        <3> QED
            BY <3>1 DEF Inv, OneCollector
    <2> QED
        BY <2>1, <2>2
<1> QED
    BY <1>3, <1>4, <1>5, <1>6, <1>7 DEF Inv

LEMMA StepInv ==
    ASSUME Inv, NEW p \in Process, NEW from \in Owning,
           NEW to \in {"look_for_artifact", "release_success", "release_failure",
                       "discard_failure"},
           Step(p, from, to),
           to = "release_success" => artifact = "whole",
           to = "look_for_artifact" => "run_state" \in entries
    PROVE  Inv'
<1>1. /\ to \in Owning /\ to \notin Collecting
      /\ pc[p] = from /\ pc' = [pc EXCEPT ![p] = to]
    BY DEF Step, At, Goto, Owning, Collecting
<1>2. UNCHANGED <<disk, holder, handle, removing>>
    BY DEF Step
<1>3. entries \subseteq Entry /\ temporary \in ZipStates
    BY DEF Inv, TypeOK
<1> QED
    BY <1>1, <1>2, <1>3, OwnerStep DEF disk

LEMMA WriteInv ==
    ASSUME Inv, NEW p \in Process, NEW from \in Collecting,
           NEW to \in Collecting \ {"publish", "discard_temporary"},
           NEW new \in SUBSET (Entry \ {"lock"}),
           p \in Resumers => "run_state" \notin new,
           Write(p, from, new, to)
    PROVE  Inv'
<1>1. /\ to \in Owning /\ to # "release_success" /\ from \in Owning
      /\ pc[p] = from /\ pc' = [pc EXCEPT ![p] = to]
    BY DEF Write, At, Goto, Owning, Collecting
<1>2. /\ entries' = entries \cup new
      /\ UNCHANGED <<exists, lockFile, inodes, temporary, artifact, holder, handle, removing>>
    BY DEF Write
<1>3. entries \subseteq Entry /\ temporary \in ZipStates
    BY DEF Inv, TypeOK
<1> QED
    BY <1>1, <1>2, <1>3, OwnerStep

LEMMA WriteZipInv ==
    ASSUME Inv, NEW p \in Process, NEW from \in Owning, NEW to \in Owning,
           NEW tmp \in ZipStates,
           WriteZip(p, from, tmp, artifact, to),
           to = "publish" => tmp = "whole",
           to \in {"discard_temporary", "release_success"} => artifact = "whole",
           to \in Collecting => from \in Collecting,
           to # "look_for_artifact"
    PROVE  Inv'
<1>1. pc[p] = from /\ pc' = [pc EXCEPT ![p] = to]
    BY DEF WriteZip, At, Goto
<1>2. /\ temporary' = tmp /\ artifact' = artifact
      /\ UNCHANGED <<exists, entries, lockFile, inodes, holder, handle, removing>>
    BY DEF WriteZip
<1>3. entries \subseteq Entry
    BY DEF Inv, TypeOK
<1> QED
    BY <1>1, <1>2, <1>3, OwnerStep

(* What the process that has the lock does, action by action.              *)
LEMMA OwnerInv ==
    ASSUME Inv, NEW p \in Process,
           \/ p = Runner /\ (Initialise \/ WriteRunState)
           \/ Preflight(p) \/ FindArtifact(p) \/ ClearDerivedOutputs(p)
           \/ Collect(p) \/ Derive(p)
           \/ PrepareTemporary(p) \/ CreateZip(p) \/ CompleteZip(p)
           \/ Publish(p) \/ DiscardTemporary(p) \/ Fail(p) \/ DiscardFailure(p)
    PROVE  Inv'
<1> USE DEF Owning, Collecting
<1>1. CASE p = Runner /\ Initialise
    BY <1>1, WriteInv, ProcessAssumption DEF Initialise, Entry
<1>2. CASE p = Runner /\ WriteRunState
    BY <1>2, WriteInv, ProcessAssumption DEF WriteRunState, Entry
<1>3. CASE Preflight(p)
    BY <1>3, StepInv DEF Preflight
<1>4. CASE FindArtifact(p)
    BY <1>4, StepInv DEF FindArtifact
<1>5. CASE ClearDerivedOutputs(p)
    <2>1. /\ pc[p] = "look_for_artifact" /\ artifact = "absent"
          /\ pc' = [pc EXCEPT ![p] = "collect"]
          /\ entries' = entries \ {"derived"}
          /\ UNCHANGED <<exists, lockFile, inodes, temporary, artifact, holder,
                         handle, removing>>
        BY <1>5 DEF ClearDerivedOutputs, At, Goto
    <2>2. entries \subseteq Entry /\ temporary \in ZipStates
        BY DEF Inv, TypeOK
    <2> QED
        BY <2>1, <2>2, OwnerStep
<1>6. CASE Collect(p)
    BY <1>6, WriteInv DEF Collect, Entry
<1>7. CASE Derive(p)
    BY <1>7, WriteInv DEF Derive, Entry
<1>8. CASE PrepareTemporary(p)
    BY <1>8, WriteZipInv DEF PrepareTemporary, ZipStates
<1>9. CASE CreateZip(p)
    BY <1>9, WriteZipInv DEF CreateZip, ZipStates
<1>10. CASE CompleteZip(p)
    BY <1>10, WriteZipInv DEF CompleteZip, ZipStates
<1>11. CASE Publish(p)
    <2>1. CASE artifact = "absent"
        <3>1. WriteZip(p, "publish", temporary, temporary, "discard_temporary")
            BY <1>11, <2>1 DEF Publish
        <3>2. temporary = "whole"
            BY <2>1, <3>1 DEF WriteZip, At, Inv, PublishInv
        <3>3. /\ pc[p] = "publish" /\ pc' = [pc EXCEPT ![p] = "discard_temporary"]
              /\ temporary' = temporary /\ artifact' = temporary
              /\ UNCHANGED <<exists, entries, lockFile, inodes, holder, handle, removing>>
            BY <3>1 DEF WriteZip, At, Goto
        <3>4. entries \subseteq Entry /\ temporary \in ZipStates
            BY DEF Inv, TypeOK
        <3> QED
            BY <2>1, <3>2, <3>3, <3>4, OwnerStep
    <2>2. CASE artifact # "absent"
        BY <1>11, <2>2, StepInv DEF Publish
    <2> QED
        BY <2>1, <2>2
<1>12. CASE DiscardTemporary(p)
    <2>1. artifact = "whole"
        BY <1>12 DEF DiscardTemporary, WriteZip, At, Inv, PublishInv
    <2> QED
        BY <1>12, <2>1, WriteZipInv DEF DiscardTemporary, ZipStates
<1>13. CASE Fail(p)
    BY <1>13, StepInv DEF Fail
<1>14. CASE DiscardFailure(p)
    <2>1. PICK left \in {"absent", temporary} :
              WriteZip(p, "discard_failure", left, artifact, "release_failure")
        BY <1>14 DEF DiscardFailure
    <2>2. left \in ZipStates
        BY DEF Inv, TypeOK, ZipStates
    <2> QED
        BY <2>1, <2>2, WriteZipInv
<1> QED
    BY <1>1, <1>2, <1>3, <1>4, <1>5, <1>6, <1>7, <1>8, <1>9, <1>10, <1>11, <1>12,
       <1>13, <1>14

-----------------------------------------------------------------------------
(* A step of a process that holds no lock afterwards, in general: it ends, *)
(* or removes what it finds once the artifact is there.                    *)
LEMMA OutsideStep ==
    ASSUME Inv, NEW p \in Process, NEW to \in Removing \cup Ended \cup {"scan"},
           pc' = [pc EXCEPT ![p] = to],
           UNCHANGED <<inodes, temporary, artifact>>,
           exists' \in BOOLEAN,
           entries' \subseteq entries,
           lockFile' \in 0..inodes,
           holder' \in [1..inodes -> Process \cup {Nobody}],
           handle' \in [Process -> 0..inodes],
           removing' \in [Process -> SUBSET Entry],
           \A q \in Process \ {p} :
               /\ handle'[q] = handle[q]
               /\ Holds(q) => holder'[handle[q]] = q,
           artifact = "absent" => UNCHANGED <<entries, lockFile>>,
           "lock" \in entries' => lockFile' # 0,
           to \in {"scan", "succeeded"} \cup Removing => artifact = "whole"
    PROVE  Inv'
<1>1. /\ pc'[p] = to
      /\ \A q \in Process : q # p => pc'[q] = pc[q]
    BY DEF Inv, TypeOK
<1>2. /\ to \notin Owning /\ to \notin Collecting
      /\ to \notin {"allocate", "open", "lock", "publish", "look_for_artifact",
                    "discard_temporary", "release_success"}
    BY DEF Removing, Ended, Owning, Collecting
<1>3. TypeOK'
    <2>1. pc' \in [Process -> ProcessPlaces]
        BY DEF Inv, TypeOK, ProcessPlaces
    <2>2. \A q \in Process : Holds(q)' => handle'[q] # 0 /\ holder'[handle'[q]] = q
        BY <1>1, <1>2 DEF Inv, TypeOK, Holds
    <2> QED
        BY <2>1, <2>2 DEF Inv, TypeOK, ProcessPlaces
<1>4. LockInv'
    BY <1>1, <1>2 DEF Inv, LockInv
<1>5. RunnerInv'
    <2>1. pc'[Runner] \in {"allocate", "open", "lock"} => pc'[Runner] = pc[Runner]
        BY <1>1, <1>2, RunnerIsAProcess
    <2>2. \A q \in Resumers : pc'[q] \in {"look_for_artifact"} \cup Collecting
              => pc'[q] = pc[q]
        BY <1>1, <1>2 DEF Process
    <2> QED
        BY <2>1, <2>2 DEF Inv, RunnerInv
<1>6. PublishInv'
    BY <1>1, <1>2 DEF Inv, PublishInv
<1>7. OneCollector'
    BY <1>1, <1>2 DEF Inv, OneCollector
<1> QED
    BY <1>3, <1>4, <1>5, <1>6, <1>7 DEF Inv

(* The lock a process gives back is not the lock of another.               *)
LEMMA Freed ==
    ASSUME Inv, NEW p \in Process, Holds(p)
    PROVE  /\ [holder EXCEPT ![handle[p]] = Nobody] \in [1..inodes -> Process \cup {Nobody}]
           /\ \A q \in Process \ {p} :
                 Holds(q) => [holder EXCEPT ![handle[p]] = Nobody][handle[q]] = q
<1>1. handle[p] \in 1..inodes /\ holder[handle[p]] = p
    BY DEF Inv, TypeOK
<1>2. \A q \in Process \ {p} :
         Holds(q) => handle[q] \in 1..inodes /\ holder[handle[q]] = q
    BY DEF Inv, TypeOK
<1> QED
    BY <1>1, <1>2 DEF Inv, TypeOK

LEMMA ReleaseInv == ASSUME Inv, NEW p \in Process, Release(p) PROVE Inv'
<1>1. Holds(p)
    BY DEF Release, Holds, Owning
<1>2. PICK to \in {"scan", "failed"} :
          /\ pc' = [pc EXCEPT ![p] = to]
          /\ to = "scan" => pc[p] = "release_success"
    BY DEF Release, Goto, At
<1>3. to = "scan" => artifact = "whole"
    BY <1>2 DEF Inv, PublishInv
<1>4. /\ holder' = [holder EXCEPT ![handle[p]] = Nobody]
      /\ handle' = [handle EXCEPT ![p] = 0]
      /\ UNCHANGED <<exists, entries, lockFile, inodes, temporary, artifact, removing>>
    BY DEF Release, disk
<1>5. /\ handle' \in [Process -> 0..inodes] /\ removing' \in [Process -> SUBSET Entry]
      /\ \A q \in Process \ {p} : handle'[q] = handle[q]
    BY <1>4 DEF Inv, TypeOK
<1>6. to \in Removing \cup Ended \cup {"scan"} /\ to # "succeeded" /\ to \notin Removing
    BY DEF Removing, Ended
<1>7. exists' \in BOOLEAN /\ lockFile' \in 0..inodes /\ ("lock" \in entries' => lockFile' # 0)
    BY <1>4 DEF Inv, TypeOK, LockInv
<1> QED
    BY <1>1, <1>2, <1>3, <1>4, <1>5, <1>6, <1>7, Freed, OutsideStep

LEMMA KillInv == ASSUME Inv, NEW p \in Process, Kill(p) PROVE Inv'
<1>1. /\ pc' = [pc EXCEPT ![p] = "killed"]
      /\ handle' = [handle EXCEPT ![p] = 0]
      /\ removing' = [removing EXCEPT ![p] = {}]
      /\ UNCHANGED <<exists, entries, lockFile, inodes, temporary, artifact>>
    BY DEF Kill, Goto, disk
<1>2. /\ holder' \in [1..inodes -> Process \cup {Nobody}]
      /\ \A q \in Process \ {p} : Holds(q) => holder'[handle[q]] = q
    <2>1. CASE Holds(p)
        BY <2>1, Freed DEF Kill, Holds
    <2>2. CASE ~Holds(p)
        BY <2>2 DEF Kill, Holds, Inv, TypeOK
    <2> QED
        BY <2>1, <2>2
<1>3. /\ handle' \in [Process -> 0..inodes] /\ removing' \in [Process -> SUBSET Entry]
      /\ \A q \in Process \ {p} : handle'[q] = handle[q]
    BY <1>1 DEF Inv, TypeOK
<1>4. "killed" \in Removing \cup Ended \cup {"scan"} /\ "killed" \notin Removing
    BY DEF Removing, Ended
<1>5. exists' \in BOOLEAN /\ lockFile' \in 0..inodes /\ ("lock" \in entries' => lockFile' # 0)
    BY <1>1 DEF Inv, TypeOK, LockInv
<1> QED
    BY <1>1, <1>2, <1>3, <1>4, <1>5, OutsideStep

LEMMA ScanInv == ASSUME Inv, NEW p \in Process, Scan(p) PROVE Inv'
<1>1. PICK to \in {"rmtree", "failed"} :
          /\ pc' = [pc EXCEPT ![p] = to]
          /\ removing' = IF to = "rmtree" THEN [removing EXCEPT ![p] = entries] ELSE removing
    BY DEF Scan, Goto
<1>2. UNCHANGED <<exists, entries, lockFile, inodes, temporary, artifact, holder, handle>>
    BY DEF Scan, disk
<1>3. artifact = "whole"
    BY DEF Scan, At, Inv, PublishInv
<1>4. /\ removing' \in [Process -> SUBSET Entry]
      /\ handle' \in [Process -> 0..inodes]
      /\ holder' \in [1..inodes -> Process \cup {Nobody}]
      /\ exists' \in BOOLEAN /\ lockFile' \in 0..inodes
      /\ "lock" \in entries' => lockFile' # 0
    BY <1>1, <1>2 DEF Inv, TypeOK, LockInv
<1>5. \A q \in Process \ {p} :
         handle'[q] = handle[q] /\ (Holds(q) => holder'[handle[q]] = q)
    BY <1>2 DEF Inv, TypeOK
<1>6. to \in Removing \cup Ended \cup {"scan"}
    BY DEF Removing, Ended
<1> QED
    BY <1>1, <1>2, <1>3, <1>4, <1>5, <1>6, OutsideStep

LEMMA RemoveEntryInv == ASSUME Inv, NEW p \in Process, RemoveEntry(p) PROVE Inv'
<1>1. /\ pc[p] = "rmtree" /\ artifact = "whole"
      /\ UNCHANGED <<exists, inodes, temporary, artifact, holder, handle>>
    BY DEF RemoveEntry, At, Inv, PublishInv, Removing
<1>2. PICK e \in removing[p] :
         IF e \in entries
         THEN /\ entries' = entries \ {e}
              /\ lockFile' = IF e = "lock" THEN 0 ELSE lockFile
              /\ removing' = [removing EXCEPT ![p] = @ \ {e}]
              /\ UNCHANGED pc
         ELSE /\ Goto(p, "failed")
              /\ removing' = [removing EXCEPT ![p] = {}]
              /\ UNCHANGED <<entries, lockFile>>
    BY DEF RemoveEntry
<1>3. PICK to \in {"rmtree", "failed"} : pc' = [pc EXCEPT ![p] = to]
    <2>1. CASE e \in entries
        <3>1. pc' = [pc EXCEPT ![p] = "rmtree"]
            BY <1>1, <1>2, <2>1 DEF Inv, TypeOK
        <3> QED
            BY <3>1
    <2>2. CASE e \notin entries
        BY <1>2, <2>2 DEF Goto
    <2> QED
        BY <2>1, <2>2
<1>4. removing' \in [Process -> SUBSET Entry]
    BY <1>2 DEF Inv, TypeOK
<1>5. /\ handle' \in [Process -> 0..inodes]
      /\ holder' \in [1..inodes -> Process \cup {Nobody}]
      /\ exists' \in BOOLEAN
    BY <1>1 DEF Inv, TypeOK
<1>6. entries' \subseteq entries /\ lockFile' \in 0..inodes /\ ("lock" \in entries' => lockFile' # 0)
    BY <1>2 DEF Inv, TypeOK, LockInv
<1>7. \A q \in Process \ {p} :
         handle'[q] = handle[q] /\ (Holds(q) => holder'[handle[q]] = q)
    BY <1>1 DEF Inv, TypeOK
<1>8. to \in Removing \cup Ended \cup {"scan"}
    BY DEF Removing, Ended
<1> QED
    BY <1>1, <1>3, <1>4, <1>5, <1>6, <1>7, <1>8, OutsideStep

LEMMA RemoveDirectoryInv == ASSUME Inv, NEW p \in Process, RemoveDirectory(p) PROVE Inv'
<1>1. /\ pc[p] = "rmtree" /\ artifact = "whole"
      /\ UNCHANGED <<entries, lockFile, inodes, temporary, artifact, holder, handle, removing>>
    BY DEF RemoveDirectory, At, Inv, PublishInv, Removing
<1>2. PICK to \in {"succeeded", "failed"} : pc' = [pc EXCEPT ![p] = to]
    BY DEF RemoveDirectory, Goto
<1>3. /\ handle' \in [Process -> 0..inodes] /\ removing' \in [Process -> SUBSET Entry]
      /\ holder' \in [1..inodes -> Process \cup {Nobody}] /\ lockFile' \in 0..inodes
      /\ "lock" \in entries' => lockFile' # 0
    BY <1>1 DEF Inv, TypeOK, LockInv
<1>4. exists' \in BOOLEAN
    BY DEF RemoveDirectory, Inv, TypeOK
<1>5. \A q \in Process \ {p} :
         handle'[q] = handle[q] /\ (Holds(q) => holder'[handle[q]] = q)
    BY <1>1 DEF Inv, TypeOK
<1>6. to \in Removing \cup Ended \cup {"scan"}
    BY DEF Removing, Ended
<1> QED
    BY <1>1, <1>2, <1>3, <1>4, <1>5, <1>6, OutsideStep

-----------------------------------------------------------------------------
(* How a process gets to the lock.                                         *)
LEMMA AllocateInv == Inv /\ Allocate => Inv'
<1> SUFFICES ASSUME Inv, Allocate PROVE Inv'
    OBVIOUS
<1>1. /\ pc[Runner] = "allocate" /\ pc' = [pc EXCEPT ![Runner] = "open"]
      /\ exists' = TRUE
      /\ UNCHANGED <<entries, lockFile, inodes, temporary, artifact, holder, handle, removing>>
    BY DEF Allocate, At, Goto
<1>2. /\ pc'[Runner] = "open"
      /\ \A q \in Process : q # Runner => pc'[q] = pc[q]
    BY <1>1, RunnerIsAProcess DEF Inv, TypeOK
<1>3. TypeOK'
    <2>1. pc' \in [Process -> ProcessPlaces]
        BY <1>1 DEF Inv, TypeOK, ProcessPlaces
    <2>2. \A q \in Process : Holds(q)' => handle'[q] # 0 /\ holder'[handle'[q]] = q
        BY <1>1, <1>2 DEF Inv, TypeOK, Holds, Owning, Collecting
    <2> QED
        BY <1>1, <2>1, <2>2 DEF Inv, TypeOK, ProcessPlaces
<1>4. LockInv'
    BY <1>1, <1>2 DEF Inv, LockInv
<1>5. RunnerInv'
    <2>1. \A q \in Resumers : pc'[q] = pc[q]
        BY <1>2, ProcessAssumption DEF Process
    <2> QED
        BY <1>1, <2>1 DEF Inv, RunnerInv
<1>6. PublishInv'
    BY <1>1, <1>2 DEF Inv, PublishInv, Removing
<1>7. OneCollector'
    BY <1>2 DEF Inv, OneCollector, Collecting
<1> QED
    BY <1>3, <1>4, <1>5, <1>6, <1>7 DEF Inv

LEMMA OpenInv == ASSUME Inv, NEW p \in Process, Open(p) PROVE Inv'
<1>1. /\ pc[p] = "open" /\ pc' = [pc EXCEPT ![p] = "lock"]
      /\ exists' = TRUE
      /\ UNCHANGED <<temporary, artifact, removing>>
    BY DEF Open, At, Goto
<1>2. /\ pc'[p] = "lock"
      /\ \A q \in Process : q # p => pc'[q] = pc[q]
    BY <1>1 DEF Inv, TypeOK
<1>3. \/ /\ "lock" \in entries
         /\ handle' = [handle EXCEPT ![p] = lockFile]
         /\ UNCHANGED <<entries, lockFile, inodes, holder>>
      \/ /\ "lock" \notin entries
         /\ inodes' = inodes + 1
         /\ lockFile' = inodes + 1
         /\ entries' = entries \cup {"lock"}
         /\ holder' = [k \in 1..(inodes + 1) |-> IF k <= inodes THEN holder[k] ELSE Nobody]
         /\ handle' = [handle EXCEPT ![p] = inodes + 1]
    BY DEF Open
<1>4. handle'[p] # 0 /\ \A q \in Process \ {p} : handle'[q] = handle[q]
    BY <1>3 DEF Inv, TypeOK, LockInv
<1>5. /\ inodes' \in Nat /\ inodes <= inodes' /\ lockFile' \in 0..inodes'
      /\ handle' \in [Process -> 0..inodes']
    <2>1. /\ inodes \in Nat /\ lockFile \in 0..inodes
          /\ handle \in [Process -> 0..inodes]
        BY DEF Inv, TypeOK
    <2>2. inodes' \in Nat /\ inodes <= inodes' /\ lockFile' \in 0..inodes'
        BY <1>3, <2>1
    <2>3. \A q \in Process : handle[q] \in 0..inodes'
        BY <2>1, <2>2
    <2>4. handle' = [handle EXCEPT ![p] = lockFile']
        BY <1>3
    <2> QED
        BY <2>1, <2>2, <2>3, <2>4
<1>6. /\ holder' \in [1..inodes' -> Process \cup {Nobody}]
      /\ \A k \in 1..inodes : holder'[k] = holder[k]
    <2>1. CASE "lock" \in entries
        BY <1>3, <2>1 DEF Inv, TypeOK
    <2>2. CASE "lock" \notin entries
        <3>1. inodes \in Nat /\ holder \in [1..inodes -> Process \cup {Nobody}]
            BY DEF Inv, TypeOK
        <3>2. /\ inodes' = inodes + 1
              /\ holder' = [k \in 1..(inodes + 1) |-> IF k <= inodes THEN holder[k] ELSE Nobody]
            BY <1>3, <2>2
        <3>3. \A k \in 1..(inodes + 1) :
                 (IF k <= inodes THEN holder[k] ELSE Nobody) \in Process \cup {Nobody}
            BY <3>1
        <3>4. \A k \in 1..inodes : holder'[k] = holder[k]
            BY <3>1, <3>2
        <3> QED
            BY <3>2, <3>3, <3>4
    <2> QED
        BY <2>1, <2>2
<1>7. TypeOK'
    <2>1. pc' \in [Process -> ProcessPlaces]
        BY <1>1 DEF Inv, TypeOK, ProcessPlaces
    <2>2. \A q \in Process : Holds(q)' => handle'[q] # 0 /\ holder'[handle'[q]] = q
        <3> SUFFICES ASSUME NEW q \in Process, Holds(q)'
                     PROVE  handle'[q] # 0 /\ holder'[handle'[q]] = q
            OBVIOUS
        <3>1. q # p /\ Holds(q)
            BY <1>2 DEF Holds, Owning, Collecting
        <3>2. handle[q] \in 1..inodes /\ holder[handle[q]] = q
            BY <3>1 DEF Inv, TypeOK
        <3> QED
            BY <1>4, <1>6, <3>1, <3>2
    <2>3. entries' \subseteq Entry
        BY <1>3 DEF Inv, TypeOK, Entry
    <2> QED
        BY <1>1, <1>5, <1>6, <2>1, <2>2, <2>3 DEF Inv, TypeOK, ProcessPlaces
<1>8. LockInv'
    BY <1>1, <1>2, <1>3, <1>4 DEF Inv, TypeOK, LockInv
<1>9. RunnerInv'
    <2>1. "run_state" \in entries' <=> "run_state" \in entries
        BY <1>3
    <2>2. \A q \in Resumers : pc'[q] \in {"look_for_artifact"} \cup Collecting
              => pc[q] \in {"look_for_artifact"} \cup Collecting
        BY <1>2 DEF Process, Collecting
    <2>3. pc'[Runner] \in {"allocate", "open", "lock"} => pc[Runner] \in {"allocate", "open", "lock"}
        BY <1>1, <1>2, RunnerIsAProcess
    <2> QED
        BY <1>1, <2>1, <2>2, <2>3 DEF Inv, RunnerInv
<1>10. PublishInv'
    BY <1>1, <1>2 DEF Inv, PublishInv, Removing
<1>11. OneCollector'
    BY <1>2 DEF Inv, OneCollector, Collecting
<1> QED
    BY <1>7, <1>8, <1>9, <1>10, <1>11 DEF Inv

(* The run gets the lock before there is an artifact, so nobody else has   *)
(* it; a resume that gets it has yet to look for the artifact.             *)
LEMMA LockInvariant == ASSUME Inv, NEW p \in Process, Lock(p) PROVE Inv'
<1>1. /\ pc[p] = "lock" /\ handle[p] \in 1..inodes
      /\ UNCHANGED <<exists, entries, lockFile, inodes, temporary, artifact, removing>>
    BY DEF Lock, At, Inv, TypeOK, LockInv, disk
<1>2. CASE holder[handle[p]] # Nobody
    <2>1. /\ handle' = [handle EXCEPT ![p] = 0] /\ holder' = holder
          /\ pc' = [pc EXCEPT ![p] = "refused"]
        BY <1>2 DEF Lock, Goto
    <2>2. /\ handle' \in [Process -> 0..inodes] /\ removing' \in [Process -> SUBSET Entry]
          /\ holder' \in [1..inodes -> Process \cup {Nobody}] /\ lockFile' \in 0..inodes
          /\ exists' \in BOOLEAN
          /\ "lock" \in entries' => lockFile' # 0
        BY <1>1, <2>1 DEF Inv, TypeOK, LockInv
    <2>3. \A q \in Process \ {p} :
             handle'[q] = handle[q] /\ (Holds(q) => holder'[handle[q]] = q)
        BY <2>1 DEF Inv, TypeOK
    <2>4. "refused" \in Removing \cup Ended \cup {"scan"} /\ "refused" \notin Removing
        BY DEF Removing, Ended
    <2> QED
        BY <1>1, <2>1, <2>2, <2>3, <2>4, OutsideStep
<1>3. CASE holder[handle[p]] = Nobody
    <2> DEFINE to == IF p = Runner THEN "initialise" ELSE "preflight"
    <2>1. /\ holder' = [holder EXCEPT ![handle[p]] = p] /\ handle' = handle
          /\ pc' = [pc EXCEPT ![p] = to]
        BY <1>3 DEF Lock, Goto
    <2>2. /\ pc'[p] = to
          /\ \A q \in Process : q # p => pc'[q] = pc[q]
        BY <2>1 DEF Inv, TypeOK
    <2>3. \A q \in Process : Holds(q) => handle[q] \in 1..inodes /\ holder[handle[q]] = q
        BY DEF Inv, TypeOK
    <2>4. TypeOK'
        <3>1. pc' \in [Process -> ProcessPlaces]
            BY <2>1 DEF Inv, TypeOK, ProcessPlaces, Owning, Collecting
        <3>2. holder' \in [1..inodes -> Process \cup {Nobody}]
            BY <2>1 DEF Inv, TypeOK
        <3>3. \A q \in Process : Holds(q)' => handle'[q] # 0 /\ holder'[handle'[q]] = q
            <4> SUFFICES ASSUME NEW q \in Process, Holds(q)'
                         PROVE  handle'[q] # 0 /\ holder'[handle'[q]] = q
                OBVIOUS
            <4>1. CASE q = p
                BY <1>1, <2>1, <4>1 DEF Inv, TypeOK
            <4>2. CASE q # p
                <5>1. Holds(q)
                    BY <2>2, <4>2 DEF Holds
                <5>2. handle[q] # handle[p]
                    BY <1>3, <2>3, <5>1, RunnerIsAProcess
                <5> QED
                    BY <1>1, <2>1, <2>3, <5>1, <5>2 DEF Inv, TypeOK
            <4> QED
                BY <4>1, <4>2
        <3> QED
            BY <1>1, <2>1, <3>1, <3>2, <3>3 DEF Inv, TypeOK, ProcessPlaces
    <2>5. LockInv'
        BY <1>1, <2>1, <2>2 DEF Inv, LockInv
    <2>6. RunnerInv'
        <3>1. \A q \in Resumers : pc'[q] \in {"look_for_artifact"} \cup Collecting
                  => pc[q] \in {"look_for_artifact"} \cup Collecting
            BY <2>2, ProcessAssumption DEF Process, Collecting
        <3>2. pc'[Runner] \in {"allocate", "open", "lock"} => pc[Runner] \in {"allocate", "open", "lock"}
            BY <1>1, <2>2, RunnerIsAProcess
        <3> QED
            BY <1>1, <3>1, <3>2 DEF Inv, RunnerInv
    <2>7. PublishInv'
        BY <1>1, <2>2 DEF Inv, PublishInv, Removing
    <2>8. OneCollector'
        <3>1. CASE p = Runner
            <4>1. artifact = "absent" /\ inodes \in {0, 1}
                BY <1>1, <3>1 DEF Inv, RunnerInv, LockInv
            <4>2. \A q \in Process : ~Holds(q)
                BY <1>1, <1>3, <2>3, <4>1, RunnerIsAProcess
            <4>3. \A q \in Process : pc[q] \notin Collecting
                BY <4>2 DEF Holds, Owning
            <4> QED
                BY <2>2, <4>3 DEF OneCollector
        <3>2. CASE p # Runner
            <4>1. pc'[p] \notin Collecting
                BY <2>2, <3>2 DEF Collecting
            <4> QED
                BY <2>2, <4>1 DEF Inv, OneCollector
        <3> QED
            BY <3>1, <3>2
    <2> QED
        BY <2>4, <2>5, <2>6, <2>7, <2>8 DEF Inv
<1> QED
    BY <1>2, <1>3

-----------------------------------------------------------------------------
LEMMA NextInv == Inv /\ [Next]_vars => Inv'
<1> SUFFICES ASSUME Inv, [Next]_vars PROVE Inv'
    OBVIOUS
<1>1. ASSUME NEW p \in Process, ProcessStep(p) PROVE Inv'
    BY <1>1, OwnerInv, AllocateInv, OpenInv, LockInvariant, ReleaseInv, ScanInv,
       RemoveEntryInv, RemoveDirectoryInv DEF ProcessStep
<1>2. ASSUME NEW p \in Process, Kill(p) PROVE Inv'
    BY <1>2, KillInv
<1>3. CASE UNCHANGED vars
    <2>1. /\ UNCHANGED <<exists, entries, lockFile, inodes, temporary, artifact>>
          /\ UNCHANGED <<holder, pc, handle, removing>>
        BY <1>3 DEF vars, disk
    <2>2. TypeOK'
        BY <2>1 DEF Inv, TypeOK, Holds
    <2>3. LockInv' /\ RunnerInv'
        BY <2>1 DEF Inv, LockInv, RunnerInv
    <2>4. PublishInv' /\ OneCollector'
        BY <2>1 DEF Inv, PublishInv, OneCollector
    <2> QED
        BY <2>2, <2>3, <2>4 DEF Inv
<1> QED
    BY <1>1, <1>2, <1>3 DEF Next, AllEnded

LEMMA Invariance == Spec => []Inv
BY InitInv, NextInv, PTL DEF Spec

(* The types of the workdir's state are right, and a process that works    *)
(* under WorkdirLock has the lock of the file it opened.                   *)
THEOREM TypesHold == Spec => []TypeOK
<1>1. Inv => TypeOK
    BY DEF Inv
<1> QED
    BY <1>1, Invariance, PTL

(* However many resumes race with the run, and although rmtree unlinks     *)
(* run.lock, no two processes ever collect into one workdir.               *)
THEOREM OneProcessCollects == Spec => []OneCollector
<1>1. Inv => OneCollector
    BY DEF Inv
<1> QED
    BY <1>1, Invariance, PTL

(* publish_artifact_create_only links complete files only, and neither     *)
(* success nor removal happens before it.                                  *)
THEOREM ArtifactIsNeverPartial == Spec => []ArtifactIsWhole
<1>1. Inv => ArtifactIsWhole
    BY DEF Inv, PublishInv, ArtifactIsWhole
<1> QED
    BY <1>1, Invariance, PTL

(* No step of any process takes evidence from a workdir without a          *)
(* published artifact, or replaces an artifact.                            *)
THEOREM EvidenceIsKept == Spec => EvidenceOutlivesFailures
<1> DEFINE Kept == /\ artifact = "absent" => entries \ {"derived"} \subseteq entries'
                   /\ artifact = "whole" => artifact' = "whole"
<1>1. Inv /\ [Next]_vars => [Kept]_vars
    <2> SUFFICES ASSUME Inv, [Next]_vars PROVE Kept
        OBVIOUS
    <2>1. ASSUME UNCHANGED vars PROVE Kept
        BY <2>1 DEF vars, disk
    <2>2. ASSUME NEW p \in Process, RemoveEntry(p) PROVE Kept
        BY <2>2 DEF RemoveEntry, At, Inv, PublishInv, Removing
    <2>3. ASSUME NEW p \in Process, Publish(p) PROVE Kept
        BY <2>3 DEF Publish, Step, WriteZip, disk
    <2>4. ASSUME NEW p \in Process, ProcessStep(p), ~RemoveEntry(p), ~Publish(p) PROVE Kept
        <3>1. CASE Allocate \/ Open(p) \/ Lock(p)
            BY <3>1 DEF Allocate, Open, Lock, disk
        <3>2. CASE Initialise \/ WriteRunState \/ Collect(p) \/ Derive(p)
            BY <3>2 DEF Initialise, WriteRunState, Collect, Derive, Write
        <3>3. CASE Preflight(p) \/ FindArtifact(p) \/ Fail(p)
            BY <3>3 DEF Preflight, FindArtifact, Fail, Step, disk
        <3>4. CASE ClearDerivedOutputs(p)
            BY <3>4 DEF ClearDerivedOutputs
        <3>5. CASE PrepareTemporary(p) \/ CreateZip(p) \/ CompleteZip(p)
                     \/ DiscardTemporary(p) \/ DiscardFailure(p)
            BY <3>5 DEF PrepareTemporary, CreateZip, CompleteZip, DiscardTemporary,
                        DiscardFailure, WriteZip
        <3>6. CASE Release(p) \/ Scan(p) \/ RemoveDirectory(p)
            BY <3>6 DEF Release, Scan, RemoveDirectory, disk
        <3> QED
            BY <2>4, <3>1, <3>2, <3>3, <3>4, <3>5, <3>6 DEF ProcessStep
    <2>5. ASSUME NEW p \in Process, Kill(p) PROVE Kept
        BY <2>5 DEF Kill, disk
    <2> QED
        BY <2>1, <2>2, <2>3, <2>4, <2>5 DEF Next, AllEnded
<1> QED
    BY <1>1, Invariance, PTL DEF Spec, EvidenceOutlivesFailures

-----------------------------------------------------------------------------
(* ThesisIntelligence: a finite set in a strict order.                     *)

StrictOrder(set, before) ==
    /\ \A x \in set : <<x, x>> \notin before
    /\ \A x, y, z \in set :
          <<x, y>> \in before /\ <<y, z>> \in before => <<x, z>> \in before
    /\ \A x, y \in set : x # y => <<x, y>> \in before \/ <<y, x>> \in before

AheadOf(x, set, before) == {y \in set : <<y, x>> \in before}
Rank(x, set, before) == Cardinality(AheadOf(x, set, before))

LEMMA RankType ==
    ASSUME NEW set, IsFiniteSet(set), NEW before, StrictOrder(set, before), NEW x \in set
    PROVE  /\ IsFiniteSet(AheadOf(x, set, before))
           /\ Rank(x, set, before) \in 0..(Cardinality(set) - 1)
<1>1. AheadOf(x, set, before) \subseteq set /\ x \notin AheadOf(x, set, before)
    BY DEF AheadOf, StrictOrder
<1>2. /\ IsFiniteSet(AheadOf(x, set, before))
      /\ Cardinality(AheadOf(x, set, before)) <= Cardinality(set)
      /\ Cardinality(AheadOf(x, set, before)) # Cardinality(set)
    BY <1>1, FS_Subset
<1>3. Cardinality(AheadOf(x, set, before)) \in Nat /\ Cardinality(set) \in Nat
    BY <1>2, FS_CardinalityType
<1> QED
    BY <1>2, <1>3 DEF Rank

LEMMA RankGrows ==
    ASSUME NEW set, IsFiniteSet(set), NEW before, StrictOrder(set, before),
           NEW x \in set, NEW y \in set, <<x, y>> \in before
    PROVE  Rank(x, set, before) < Rank(y, set, before)
<1>1. AheadOf(x, set, before) \subseteq AheadOf(y, set, before)
    BY DEF AheadOf, StrictOrder
<1>2. x \in AheadOf(y, set, before) /\ x \notin AheadOf(x, set, before)
    BY DEF AheadOf, StrictOrder
<1>3. IsFiniteSet(AheadOf(y, set, before))
    BY RankType
<1> QED
    BY <1>1, <1>2, <1>3, FS_Subset, FS_CardinalityType DEF Rank

(* Each place has its member: n members have n different ranks below n.    *)
LEMMA RankIsReached ==
    ASSUME NEW set, IsFiniteSet(set), NEW before, StrictOrder(set, before),
           NEW k \in 1..Cardinality(set)
    PROVE  \E x \in set : Rank(x, set, before) = k - 1
<1> DEFINE ranks == 0..(Cardinality(set) - 1)
           rank == [x \in set |-> Rank(x, set, before)]
<1>1. Cardinality(set) \in Nat
    BY FS_CardinalityType
<1>2. IsFiniteSet(ranks) /\ Cardinality(ranks) = Cardinality(set)
    <2>1. 0 \in Int /\ Cardinality(set) - 1 \in Int
        BY <1>1
    <2>2. /\ IsFiniteSet(ranks)
          /\ Cardinality(ranks) = IF 0 > Cardinality(set) - 1 THEN 0
                                  ELSE (Cardinality(set) - 1) - 0 + 1
        BY <2>1, FS_Interval
    <2> QED
        BY <1>1, <2>2
<1>3. \A x, y \in set : Rank(x, set, before) = Rank(y, set, before) => x = y
    <2>1. SUFFICES ASSUME NEW x \in set, NEW y \in set, x # y
                   PROVE  Rank(x, set, before) # Rank(y, set, before)
        OBVIOUS
    <2>2. <<x, y>> \in before \/ <<y, x>> \in before
        BY <2>1 DEF StrictOrder
    <2>3. /\ Rank(x, set, before) \in ranks /\ Rank(y, set, before) \in ranks
          /\ ranks \subseteq Int
        BY RankType
    <2> QED
        BY <2>2, <2>3, RankGrows
<1>4. rank \in Injection(set, ranks)
    <2>1. rank \in [set -> ranks]
        BY RankType
    <2> QED
        BY <2>1, <1>3 DEF Injection, IsInjective
<1>5. rank \in Surjection(set, ranks)
    BY <1>2, <1>4, FS_Injection
<1>6. k - 1 \in ranks
    BY <1>1
<1>7. \E x \in set : rank[x] = k - 1
    BY <1>5, <1>6 DEF Surjection
<1> QED
    BY <1>7

LEMMA ArrangedInOrder ==
    ASSUME NEW set, IsFiniteSet(set), NEW before, StrictOrder(set, before)
    PROVE  LET order == Arranged(set, before)
               n == Cardinality(set)
           IN /\ n \in Nat /\ order \in [1..n -> set]
              /\ \A k \in 1..n : Rank(order[k], set, before) = k - 1
              /\ \A i, j \in 1..n : i < j => <<order[i], order[j]>> \in before
              /\ \A i, j \in 1..n : order[i] = order[j] => i = j
              /\ \A x \in set : \E k \in 1..n : order[k] = x
<1> DEFINE order == Arranged(set, before)
           n == Cardinality(set)
<1>1. n \in Nat
    BY FS_CardinalityType
<1>2. /\ DOMAIN order = 1..n /\ order = [k \in 1..n |-> order[k]]
      /\ \A k \in 1..n : order[k] = CHOOSE x \in set : Rank(x, set, before) = k - 1
    <2>1. order = [k \in 1..n |-> CHOOSE x \in set : Rank(x, set, before) = k - 1]
        BY Zenon DEF Arranged, Rank, AheadOf
    <2> QED
        BY <2>1
<1>3. \A k \in 1..n : order[k] \in set /\ Rank(order[k], set, before) = k - 1
    <2>1. SUFFICES ASSUME NEW k \in 1..n
                   PROVE  order[k] \in set /\ Rank(order[k], set, before) = k - 1
        OBVIOUS
    <2>2. \E x \in set : Rank(x, set, before) = k - 1
        BY RankIsReached
    <2> QED
        BY <1>2, <2>2
<1>4. order \in [1..n -> set]
    BY <1>2, <1>3
<1>5. \A i, j \in 1..n : order[i] = order[j] => i = j
    <2>1. SUFFICES ASSUME NEW i \in 1..n, NEW j \in 1..n, order[i] = order[j]
                   PROVE  i = j
        OBVIOUS
    <2>2. i - 1 = j - 1
        BY <1>3, <2>1
    <2> QED
        BY <2>2
<1>6. \A i, j \in 1..n : i < j => <<order[i], order[j]>> \in before
    <2>1. SUFFICES ASSUME NEW i \in 1..n, NEW j \in 1..n, i < j, <<order[i], order[j]>> \notin before
                   PROVE  FALSE
        OBVIOUS
    <2>2. order[i] \in set /\ order[j] \in set /\ order[i] # order[j]
        BY <1>3, <1>5, <2>1
    <2>3. <<order[j], order[i]>> \in before
        BY <2>1, <2>2 DEF StrictOrder
    <2>4. Rank(order[j], set, before) < Rank(order[i], set, before)
        BY <2>2, <2>3, RankGrows
    <2>5. Rank(order[j], set, before) = j - 1 /\ Rank(order[i], set, before) = i - 1
        BY <1>3
    <2> QED
        BY <2>1, <2>4, <2>5
<1>7. \A x \in set : \E k \in 1..n : order[k] = x
    <2>1. order \in Injection(1..n, set)
        BY <1>4, <1>5 DEF Injection, IsInjective
    <2>2. IsFiniteSet(1..n) /\ Cardinality(1..n) = n
        BY <1>1, FS_Interval
    <2>3. order \in Surjection(1..n, set)
        BY <2>1, <2>2, FS_Injection
    <2> QED
        BY <2>3 DEF Surjection
<1> QED
    BY <1>1, <1>3, <1>4, <1>5, <1>6, <1>7

(* A sequence of all members in their order has each member at the place   *)
(* of its rank, so there is only one.                                      *)
LEMMA PlaceIsRank ==
    ASSUME NEW set, IsFiniteSet(set), NEW before, StrictOrder(set, before),
           NEW order \in [1..Cardinality(set) -> set],
           \A i, j \in 1..Cardinality(set) : i < j => <<order[i], order[j]>> \in before,
           NEW k \in 1..Cardinality(set)
    PROVE  Rank(order[k], set, before) = k - 1
<1> DEFINE n == Cardinality(set)
           earlier == 1..(k - 1)
           ahead == AheadOf(order[k], set, before)
           place == [i \in earlier |-> order[i]]
<1>1. n \in Nat /\ k \in Nat /\ k <= n /\ k >= 1
    BY FS_CardinalityType
<1>2. \A i, j \in 1..n : i # j => order[i] # order[j]
    <2>1. SUFFICES ASSUME NEW i \in 1..n, NEW j \in 1..n, i # j PROVE order[i] # order[j]
        OBVIOUS
    <2>2. order[i] \in set /\ order[j] \in set
        OBVIOUS
    <2>3. i < j \/ j < i
        BY <1>1, <2>1
    <2> QED
        BY <2>2, <2>3 DEF StrictOrder
<1>3. order \in Surjection(1..n, set)
    <2>1. order \in Injection(1..n, set)
        BY <1>2 DEF Injection, IsInjective
    <2>2. IsFiniteSet(1..n) /\ Cardinality(1..n) = n
        BY <1>1, FS_Interval
    <2> QED
        BY <2>1, <2>2, FS_Injection
<1>4. \A i \in earlier : i \in 1..n /\ i < k
    BY <1>1
<1>5. \A i \in earlier : order[i] \in ahead
    BY <1>4 DEF AheadOf
<1>6. \A y \in ahead : \E i \in earlier : order[i] = y
    <2>1. SUFFICES ASSUME NEW y \in ahead PROVE \E i \in earlier : order[i] = y
        OBVIOUS
    <2>2. y \in set /\ <<y, order[k]>> \in before
        BY DEF AheadOf
    <2>3. PICK i \in 1..n : order[i] = y
        BY <1>3, <2>2 DEF Surjection
    <2>4. ~ k < i /\ k # i
        <3>1. k < i => <<order[k], y>> \in before
            BY <1>1, <2>3
        <3>2. order[k] \in set
            BY <1>1
        <3> QED
            BY <2>2, <2>3, <3>1, <3>2 DEF StrictOrder
    <2>5. i \in earlier
        BY <1>1, <2>4
    <2> QED
        BY <2>3, <2>5
<1>7. place \in Injection(earlier, ahead)
    <2>1. place \in [earlier -> ahead]
        BY <1>5
    <2>2. \A i, j \in earlier : place[i] = place[j] => i = j
        BY <1>2, <1>4
    <2> QED
        BY <2>1, <2>2 DEF Injection, IsInjective
<1>8. place \in Surjection(earlier, ahead)
    BY <1>5, <1>6 DEF Surjection
<1>9. IsFiniteSet(ahead) /\ Cardinality(ahead) = k - 1
    <2>1. IsFiniteSet(ahead)
        BY <1>1, RankType
    <2>2. Cardinality(earlier) = Cardinality(ahead)
        BY <1>7, <1>8, <2>1, FS_Injection
    <2>3. Cardinality(earlier) = k - 1
        <3>1. 1 \in Int /\ k - 1 \in Int
            BY <1>1
        <3>2. Cardinality(earlier) = IF 1 > k - 1 THEN 0 ELSE (k - 1) - 1 + 1
            BY <3>1, FS_Interval
        <3> QED
            BY <1>1, <3>2
    <2> QED
        BY <2>1, <2>2, <2>3
<1> QED
    BY <1>9 DEF Rank

LEMMA OrderIsUnique ==
    ASSUME NEW set, IsFiniteSet(set), NEW before, StrictOrder(set, before),
           NEW one \in [1..Cardinality(set) -> set], NEW two \in [1..Cardinality(set) -> set],
           \A i, j \in 1..Cardinality(set) : i < j => <<one[i], one[j]>> \in before,
           \A i, j \in 1..Cardinality(set) : i < j => <<two[i], two[j]>> \in before
    PROVE  one = two
<1>1. \A k \in 1..Cardinality(set) : one[k] = two[k]
    <2>1. SUFFICES ASSUME NEW k \in 1..Cardinality(set), one[k] # two[k] PROVE FALSE
        OBVIOUS
    <2>2. Rank(one[k], set, before) = k - 1 /\ Rank(two[k], set, before) = k - 1
        BY PlaceIsRank
    <2>3. <<one[k], two[k]>> \in before \/ <<two[k], one[k]>> \in before
        BY <2>1 DEF StrictOrder
    <2>4. \/ Rank(one[k], set, before) < Rank(two[k], set, before)
          \/ Rank(two[k], set, before) < Rank(one[k], set, before)
        BY <2>3, RankGrows
    <2> QED
        BY <2>2, <2>4
<1>2. one = [k \in 1..Cardinality(set) |-> one[k]] /\ two = [k \in 1..Cardinality(set) |-> two[k]]
    OBVIOUS
<1> QED
    BY <1>1, <1>2

(* A finite set in a strict order that is not empty has a first member.    *)
LEMMA FirstExists ==
    ASSUME NEW set, IsFiniteSet(set), set # {}, NEW before, StrictOrder(set, before)
    PROVE  \E x \in set : \A y \in set : <<y, x>> \notin before
<1>1. Cardinality(set) \in Nat /\ Cardinality(set) # 0
    BY FS_CardinalityType, FS_EmptySet
<1>2. 1 \in 1..Cardinality(set)
    BY <1>1
<1>3. PICK x \in set : Rank(x, set, before) = 0
    BY <1>2, RankIsReached
<1>4. IsFiniteSet(AheadOf(x, set, before))
    BY RankType
<1>5. AheadOf(x, set, before) = {}
    BY <1>3, <1>4, FS_EmptySet DEF Rank
<1> QED
    BY <1>5 DEF AheadOf

-----------------------------------------------------------------------------
(* The listings of a manifest and their batches.                           *)

LEMMA SetsAreSequences ==
    ASSUME NEW t \in DOMAIN Members
    PROVE  /\ Members[t] \in Seq(Nat)
           /\ DOMAIN Members[t] = 1..Len(Members[t]) /\ Len(Members[t]) \in Nat
           /\ \A i \in DOMAIN Members[t] : Members[t][i] \in Nat
           /\ \A i, j \in DOMAIN Members[t] : Members[t][i] = Members[t][j] => i = j
BY SetsAssumption

LEMMA PlacesType ==
    ASSUME NEW theses \in Seq(DOMAIN Members)
    PROVE  /\ \A p \in Places(theses) : /\ p = <<p[1], p[2]>> /\ p[1] \in Nat /\ p[2] \in Nat
                                        /\ p[1] \in DOMAIN theses
                                        /\ p[2] \in DOMAIN Members[theses[p[1]]]
                                        /\ Listed(theses, p) \in Nat
           /\ \A i \in DOMAIN theses : \A j \in DOMAIN Members[theses[i]] :
                  <<i, j>> \in Places(theses)
<1>1. DOMAIN theses \subseteq Nat /\ \A i \in DOMAIN theses : theses[i] \in DOMAIN Members
    OBVIOUS
<1>2. SUFFICES ASSUME NEW p \in Places(theses)
               PROVE  /\ p = <<p[1], p[2]>> /\ p[1] \in Nat /\ p[2] \in Nat
                      /\ p[1] \in DOMAIN theses
                      /\ p[2] \in DOMAIN Members[theses[p[1]]]
                      /\ Listed(theses, p) \in Nat
    BY DEF Places
<1>3. PICK i \in DOMAIN theses : p \in {i} \X DOMAIN Members[theses[i]]
    BY DEF Places
<1>4. p = <<p[1], p[2]>> /\ p[1] = i /\ p[2] \in DOMAIN Members[theses[i]]
    BY <1>3
<1>5. p[2] \in Nat /\ Members[theses[i]][p[2]] \in Nat
    BY <1>1, <1>4, SetsAreSequences
<1> QED
    BY <1>1, <1>4, <1>5 DEF Listed

LEMMA PlacesAreFinite ==
    ASSUME NEW theses \in Seq(DOMAIN Members)
    PROVE  IsFiniteSet(Places(theses))
<1> DEFINE rows == {{i} \X DOMAIN Members[theses[i]] : i \in DOMAIN theses}
           row == [i \in DOMAIN theses |-> {i} \X DOMAIN Members[theses[i]]]
<1>1. IsFiniteSet(DOMAIN theses)
    <2>1. DOMAIN theses = 1..Len(theses) /\ 1 \in Int /\ Len(theses) \in Int
        OBVIOUS
    <2> QED
        BY <2>1, FS_Interval
<1>2. row \in Surjection(DOMAIN theses, rows)
    BY DEF Surjection
<1>3. IsFiniteSet(rows)
    BY <1>1, <1>2, FS_Surjection
<1>4. \A i \in DOMAIN theses : IsFiniteSet({i} \X DOMAIN Members[theses[i]])
    <2>1. SUFFICES ASSUME NEW i \in DOMAIN theses
                   PROVE  IsFiniteSet({i} \X DOMAIN Members[theses[i]])
        OBVIOUS
    <2>2. DOMAIN Members[theses[i]] = 1..Len(Members[theses[i]]) /\ Len(Members[theses[i]]) \in Int
        BY SetsAreSequences
    <2>3. IsFiniteSet(DOMAIN Members[theses[i]])
        BY <2>2, FS_Interval
    <2>4. IsFiniteSet({i})
        BY FS_Singleton
    <2> QED
        BY <2>3, <2>4, FS_Product
<1>5. \A s \in rows : IsFiniteSet(s)
    BY <1>4
<1>6. IsFiniteSet(UNION rows)
    BY <1>3, <1>5, FS_UNION
<1> QED
    BY <1>6 DEF Places

InOrder(places) == {p \in places \X places : Precedes(p[1], p[2])}

LEMMA PlacesAreOrdered ==
    ASSUME NEW theses \in Seq(DOMAIN Members), NEW places \in SUBSET Places(theses)
    PROVE  IsFiniteSet(places) /\ StrictOrder(places, InOrder(places))
<1>1. IsFiniteSet(places)
    BY PlacesAreFinite, FS_Subset
<1>2. \A p \in places : p = <<p[1], p[2]>> /\ p[1] \in Nat /\ p[2] \in Nat
    BY PlacesType
<1>3. \A p, q \in places : <<p, q>> \in InOrder(places) <=> Precedes(p, q)
    BY DEF InOrder
<1>4. \A p \in places : ~Precedes(p, p)
    BY <1>2 DEF Precedes
<1>5. \A p, q, r \in places : Precedes(p, q) /\ Precedes(q, r) => Precedes(p, r)
    BY <1>2 DEF Precedes
<1>6. \A p, q \in places : p # q => Precedes(p, q) \/ Precedes(q, p)
    <2>1. SUFFICES ASSUME NEW p \in places, NEW q \in places,
                          ~Precedes(p, q), ~Precedes(q, p)
                   PROVE  p = q
        OBVIOUS
    <2>2. p[1] = q[1] /\ p[2] = q[2]
        BY <1>2, <2>1 DEF Precedes
    <2> QED
        BY <1>2, <2>2
<1> QED
    BY <1>1, <1>3, <1>4, <1>5, <1>6 DEF StrictOrder

LEMMA FirstPlaceExists ==
    ASSUME NEW theses \in Seq(DOMAIN Members), NEW p \in Places(theses)
    PROVE  \E first \in FirstPlaces(theses) : Listed(theses, first) = Listed(theses, p)
<1> DEFINE same == {q \in Places(theses) : Listed(theses, q) = Listed(theses, p)}
<1>1. IsFiniteSet(same) /\ StrictOrder(same, InOrder(same)) /\ same # {}
    BY PlacesAreOrdered
<1>2. PICK first \in same : \A q \in same : <<q, first>> \notin InOrder(same)
    BY <1>1, FirstExists
<1>3. \A q \in same : ~Precedes(q, first)
    BY <1>2 DEF InOrder
<1>4. first \in FirstPlaces(theses)
    BY <1>3 DEF FirstPlaces
<1> QED
    BY <1>4

MembersOf(theses) == UNION {ToSet(Members[theses[i]]) : i \in DOMAIN theses}

(* The batches are cut from a sequence in which each member occurs once.   *)
LEMMA ListingsListMembers ==
    ASSUME NEW theses \in Seq(DOMAIN Members)
    PROVE  /\ Listings(theses) \in Seq(Nat)
           /\ \A i, j \in DOMAIN Listings(theses) :
                 Listings(theses)[i] = Listings(theses)[j] => i = j
           /\ ToSet(Listings(theses)) = MembersOf(theses)
<1> DEFINE first == FirstPlaces(theses)
           order == Arranged(first, InOrder(first))
           n == Cardinality(first)
           all == Listings(theses)
<1>1. first \subseteq Places(theses)
    BY DEF FirstPlaces
<1>2. /\ n \in Nat /\ order \in [1..n -> first]
      /\ \A i, j \in 1..n : order[i] = order[j] => i = j
      /\ \A x \in first : \E k \in 1..n : order[k] = x
    BY <1>1, PlacesAreOrdered, ArrangedInOrder
<1>3. all = [k \in 1..n |-> Listed(theses, order[k])]
    BY <1>2, Zenon DEF Listings, InOrder
<1>4. \A p, q \in first : Listed(theses, p) = Listed(theses, q) => p = q
    <2>1. SUFFICES ASSUME NEW p \in first, NEW q \in first, p # q
                   PROVE  Listed(theses, p) # Listed(theses, q)
        OBVIOUS
    <2>2. <<p, q>> \in InOrder(first) \/ <<q, p>> \in InOrder(first)
        BY <1>1, <2>1, PlacesAreOrdered DEF StrictOrder
    <2>3. Precedes(p, q) \/ Precedes(q, p)
        BY <2>2 DEF InOrder
    <2> QED
        BY <2>3 DEF FirstPlaces
<1>5. \A k \in 1..n : order[k] \in Places(theses) /\ all[k] = Listed(theses, order[k]) /\ all[k] \in Nat
    BY <1>1, <1>2, <1>3, PlacesType
<1>6. all \in [1..n -> Nat]
    BY <1>3, <1>5
<1>7. \A i, j \in 1..n : all[i] = all[j] => i = j
    BY <1>2, <1>4, <1>5
<1>8. \A l \in MembersOf(theses) : \E k \in 1..n : all[k] = l
    <2>1. SUFFICES ASSUME NEW l \in MembersOf(theses) PROVE \E k \in 1..n : all[k] = l
        OBVIOUS
    <2>2. PICK i \in DOMAIN theses : l \in ToSet(Members[theses[i]])
        BY DEF MembersOf
    <2>3. PICK j \in DOMAIN Members[theses[i]] : l = Members[theses[i]][j]
        BY <2>2 DEF ToSet
    <2>4. <<i, j>> \in Places(theses) /\ Listed(theses, <<i, j>>) = l
        BY <2>3, PlacesType DEF Listed
    <2>5. PICK p \in first : Listed(theses, p) = l
        BY <2>4, FirstPlaceExists
    <2> QED
        BY <1>2, <1>5, <2>5
<1>9. \A k \in 1..n : all[k] \in MembersOf(theses)
    <2>1. SUFFICES ASSUME NEW k \in 1..n PROVE all[k] \in MembersOf(theses)
        OBVIOUS
    <2>2. /\ order[k][1] \in DOMAIN theses
          /\ order[k][2] \in DOMAIN Members[theses[order[k][1]]]
        BY <1>5, PlacesType
    <2>3. all[k] \in ToSet(Members[theses[order[k][1]]])
        BY <1>5, <2>2 DEF Listed, ToSet
    <2> QED
        BY <2>2, <2>3 DEF MembersOf
<1>10. DOMAIN all = 1..n
    BY <1>6
<1>11. ToSet(all) = MembersOf(theses)
    BY <1>8, <1>9, <1>10 DEF ToSet
<1>12. all \in Seq(Nat)
    BY <1>2, <1>6
<1> QED
    BY <1>7, <1>10, <1>11, <1>12

LEMMA ProductGrows ==
    ASSUME NEW i \in Nat, NEW j \in Nat, NEW size \in Nat, i <= j
    PROVE  i * size <= j * size
<1>1. PICK more \in Nat : j = i + more
    <2>1. j - i \in Nat /\ j = i + (j - i)
        OBVIOUS
    <2> QED
        BY <2>1
<1>2. j * size = i * size + more * size
    BY <1>1
<1>3. more * size \in Nat /\ i * size \in Nat
    OBVIOUS
<1> QED
    BY <1>2, <1>3

LEMMA CatalogueIsListed ==
    ASSUME NEW r \in Runs
    PROVE  /\ Catalogue[r] = Listings(Scope[r])
           /\ Catalogue[r] \in Seq(Nat)
           /\ \A i, j \in DOMAIN Catalogue[r] : Catalogue[r][i] = Catalogue[r][j] => i = j
           /\ ToSet(Catalogue[r]) = MembersOf(Scope[r])
<1>1. Scope[r] \in Seq(DOMAIN Members)
    BY SetsAssumption
<1>2. Catalogue[r] = Listings(Scope[r])
    BY DEF Catalogue
<1> QED
    BY <1>1, <1>2, ListingsListMembers

LEMMA BatchIsCut ==
    ASSUME NEW r \in Runs, NEW i \in Nat \ {0}, NEW l \in ToSet(Batch(r, i))
    PROVE  \E k \in DOMAIN Catalogue[r] :
               k > (i - 1) * BatchSize /\ k <= i * BatchSize /\ Catalogue[r][k] = l
<1> DEFINE all == Catalogue[r]
           from == (i - 1) * BatchSize
           to == i * BatchSize
           end == Min({to, Len(all)})
<1>1. all \in Seq(Nat) /\ Len(all) \in Nat /\ DOMAIN all = 1..Len(all)
    BY CatalogueIsListed
<1>2. from \in Nat /\ to \in Nat
    BY RunsAssumption
<1>3. end \in Int /\ end <= to /\ end <= Len(all)
    <2> HIDE DEF to
    <2>1. \E m \in {to, Len(all)} : \A y \in {to, Len(all)} : m <= y
        BY <1>1, <1>2
    <2> QED
        BY <1>1, <1>2, <2>1 DEF Min
<1>4. Batch(r, i) = SubSeq(all, from + 1, end)
    BY DEF Batch
<1>5. PICK j \in DOMAIN Batch(r, i) : l = Batch(r, i)[j]
    BY DEF ToSet
<1> HIDE DEF all, from, to, end
<1>6. j \in 1..(end - from) /\ l = all[from + j]
    <2>1. \A k \in (from + 1)..end : all[k] \in Nat
        BY <1>1, <1>2, <1>3
    <2>2. from + 1 \in Int /\ end \in Int
        BY <1>2, <1>3
    <2>3. LET cut == SubSeq(all, from + 1, end) IN
          /\ cut \in Seq(Nat)
          /\ Len(cut) = IF from + 1 <= end THEN end - (from + 1) + 1 ELSE 0
          /\ \A k \in 1..(end - (from + 1) + 1) : cut[k] = all[from + 1 + k - 1]
        BY <2>1, <2>2, SubSeqProperties
    <2>4. j \in 1..Len(Batch(r, i))
        BY <1>4, <1>5, <2>3
    <2>5. j \in 1..(end - from)
        BY <1>2, <1>3, <1>4, <2>3, <2>4
    <2>6. l = all[from + 1 + j - 1]
        BY <1>2, <1>3, <1>4, <1>5, <2>3, <2>5
    <2> QED
        BY <1>2, <2>5, <2>6
<1>7. from + j \in 1..Len(all) /\ from + j > from /\ from + j <= to
    BY <1>1, <1>2, <1>3, <1>6
<1> QED
    BY <1>1, <1>6, <1>7 DEF all, from, to

(* Two batches of a run hold no listing in common.                         *)
LEMMA BatchesAreDisjoint ==
    ASSUME NEW r \in Runs, NEW i \in Nat \ {0}, NEW j \in Nat \ {0},
           NEW l \in ToSet(Batch(r, i)), l \in ToSet(Batch(r, j))
    PROVE  i = j
<1>1. SUFFICES ASSUME NEW one \in Nat \ {0}, NEW two \in Nat \ {0}, one < two,
                      l \in ToSet(Batch(r, one)), l \in ToSet(Batch(r, two))
               PROVE  FALSE
    <2>1. i = j \/ i < j \/ j < i
        OBVIOUS
    <2> QED
        BY <1>1, <2>1
<1>2. PICK k \in DOMAIN Catalogue[r] : k <= one * BatchSize /\ Catalogue[r][k] = l
    BY <1>1, BatchIsCut
<1>3. PICK m \in DOMAIN Catalogue[r] : m > (two - 1) * BatchSize /\ Catalogue[r][m] = l
    BY <1>1, BatchIsCut
<1>4. k = m
    BY <1>2, <1>3, CatalogueIsListed
<1>5. one * BatchSize <= (two - 1) * BatchSize
    <2>1. one \in Nat /\ two - 1 \in Nat /\ one <= two - 1 /\ BatchSize \in Nat
        BY <1>1, RunsAssumption
    <2> QED
        BY <2>1, ProductGrows
<1>6. k \in Int /\ one * BatchSize \in Int /\ (two - 1) * BatchSize \in Int
    BY RunsAssumption, CatalogueIsListed
<1> QED
    BY <1>2, <1>3, <1>4, <1>5, <1>6

-----------------------------------------------------------------------------
(* What a run has in hand, and what it publishes.                          *)

AllMembers == UNION {ToSet(Members[t]) : t \in DOMAIN Members}

Sayings == UNION {{Offered[l][time] : time \in 1..MaxNow} : l \in AllMembers}
Responses ==
    {x \in [at : 1..MaxNow, invocation : Nat, offers : UNION {[heard -> Sayings] : heard \in SUBSET AllMembers}] :
        \A l \in DOMAIN x.offers : x.offers[l] = Offered[l][x.at]}

Attempts == [stage : {"new", "collecting", "failed", "done"}, store : Seq(Responses),
             reused : Nat, invocation : Nat]

(* The responses of earlier invocations come first; those of this one are  *)
(* to its batches, in their order.                                         *)
InHand(r, attempt) ==
    /\ attempt \in Attempts
    /\ attempt.reused <= Len(attempt.store)
    /\ \A i \in DOMAIN attempt.store :
          IF i <= attempt.reused
          THEN attempt.store[i].invocation < attempt.invocation
          ELSE /\ attempt.store[i].invocation = attempt.invocation
               /\ DOMAIN attempt.store[i].offers \subseteq ToSet(Batch(r, i - attempt.reused))

Ratings == [count : Nat, seen : 1..MaxNow]

WellMade(e) ==
    /\ e.run \in Runs /\ e.at \in 0..MaxNow
    /\ e.scope = Scope[e.run] /\ e.sha = Digest[e.run]
    /\ DOMAIN e.rows = MembersOf(e.scope)
    /\ \A l \in DOMAIN e.rows :
          /\ e.rows[l].rating \subseteq Ratings /\ IsOptional(e.rows[l].rating)
          /\ e.rows[l].published \subseteq Int /\ IsOptional(e.rows[l].published)

LEMMA ResponseType ==
    ASSUME NEW x \in Responses
    PROVE  /\ x.at \in 1..MaxNow /\ x.invocation \in Nat
           /\ DOMAIN x.offers \subseteq AllMembers
           /\ \A l \in DOMAIN x.offers :
                 x.offers[l].rated \subseteq Nat /\ IsOptional(x.offers[l].rated)
<1>1. /\ x.at \in 1..MaxNow /\ x.invocation \in Nat
      /\ x.offers \in UNION {[heard -> Sayings] : heard \in SUBSET AllMembers}
      /\ \A l \in DOMAIN x.offers : x.offers[l] = Offered[l][x.at]
    BY DEF Responses
<1>2. PICK heard \in SUBSET AllMembers : x.offers \in [heard -> Sayings]
    BY <1>1
<1>3. \A l \in AllMembers : /\ Offered[l][x.at].rated \subseteq Nat
                            /\ IsOptional(Offered[l][x.at].rated)
    BY <1>1, ListingsAssumption DEF AllMembers
<1> QED
    BY <1>1, <1>2, <1>3

LEMMA ResponseIsKnown ==
    ASSUME NEW time \in 1..MaxNow, NEW n \in Nat, NEW heard \in SUBSET AllMembers
    PROVE  [at |-> time, invocation |-> n, offers |-> [l \in heard |-> Offered[l][time]]]
               \in Responses
<1>1. [l \in heard |-> Offered[l][time]] \in [heard -> Sayings]
    BY DEF Sayings
<1> QED
    BY <1>1 DEF Responses

LEMMA MembersAreKnown ==
    ASSUME NEW theses \in Seq(DOMAIN Members)
    PROVE  MembersOf(theses) \subseteq AllMembers
BY DEF MembersOf, AllMembers

LEMMA BatchesAreOfTheScope ==
    ASSUME NEW r \in Runs, NEW i \in Nat \ {0}
    PROVE  ToSet(Batch(r, i)) \subseteq AllMembers
<1>1. SUFFICES ASSUME NEW l \in ToSet(Batch(r, i)) PROVE l \in AllMembers
    OBVIOUS
<1>2. l \in ToSet(Catalogue[r])
    BY BatchIsCut DEF ToSet
<1> QED
    BY <1>2, CatalogueIsListed, MembersAreKnown, SetsAssumption

Shows(e, attempt) == e.store = attempt.store /\ e.raws = Bound(attempt)

(* The responses this invocation bound that hold a listing: one at most.   *)
LEMMA OneResponseHolds ==
    ASSUME NEW r \in Runs, NEW attempt, InHand(r, attempt), NEW l,
           NEW e, Shows(e, attempt)
    PROVE  /\ \A i : i \in Holding(l, e.store, e.raws) <=>
                         /\ i \in DOMAIN e.store /\ e.store[i].invocation = attempt.invocation
                         /\ l \in DOMAIN e.store[i].offers
           /\ Holding(l, e.store, e.raws) \subseteq Nat
           /\ \A i, j \in Holding(l, e.store, e.raws) : i = j
           /\ \A i \in Holding(l, e.store, e.raws) : e.store[i] \in Responses
<1> DEFINE holding == Holding(l, e.store, e.raws)
<1>1. /\ e.store \in Seq(Responses) /\ attempt.reused \in Nat /\ attempt.invocation \in Nat
      /\ DOMAIN e.store = 1..Len(e.store)
      /\ \A i \in DOMAIN e.store : i \in Nat /\ e.store[i] \in Responses
    BY DEF InHand, Attempts, Shows
<1>2. \A i \in DOMAIN e.store :
          i > attempt.reused <=> e.store[i].invocation = attempt.invocation
    <2>1. \A i \in DOMAIN e.store : e.store[i].invocation \in Nat
        BY <1>1, ResponseType
    <2> QED
        BY <1>1, <2>1 DEF InHand, Shows
<1>3. /\ holding = {i \in DOMAIN e.store :
                       i > attempt.reused /\ l \in DOMAIN e.store[i].offers}
      /\ holding = {i \in DOMAIN e.store :
                       e.store[i].invocation = attempt.invocation /\ l \in DOMAIN e.store[i].offers}
    <2>1. \A i : i \in holding <=>
              i \in DOMAIN e.store /\ i > attempt.reused /\ l \in DOMAIN e.store[i].offers
        BY DEF Holding, Bound, Shows
    <2> QED
        BY <1>2, <2>1
<1>4. \A i, j \in holding : i = j
    <2>1. SUFFICES ASSUME NEW i \in holding, NEW j \in holding PROVE i = j
        OBVIOUS
    <2>2. /\ i \in DOMAIN e.store /\ j \in DOMAIN e.store
          /\ i > attempt.reused /\ j > attempt.reused
          /\ l \in DOMAIN e.store[i].offers /\ l \in DOMAIN e.store[j].offers
        BY <1>3
    <2>3. /\ l \in ToSet(Batch(r, i - attempt.reused))
          /\ l \in ToSet(Batch(r, j - attempt.reused))
        BY <1>1, <2>2 DEF InHand, Shows
    <2>4. i - attempt.reused \in Nat \ {0} /\ j - attempt.reused \in Nat \ {0}
        BY <1>1, <2>2
    <2>5. i - attempt.reused = j - attempt.reused
        BY <2>3, <2>4, BatchesAreDisjoint
    <2> QED
        BY <1>1, <2>2, <2>5
<1> QED
    BY <1>1, <1>3, <1>4

LEMMA RatingOfOneResponse ==
    ASSUME NEW l, NEW store, NEW raws,
           Holding(l, store, raws) \subseteq Nat,
           \A i, j \in Holding(l, store, raws) : i = j,
           \A i \in Holding(l, store, raws) : IsOptional(store[i].offers[l].rated)
    PROVE  Rating(l, store, raws) =
               UNION {{[count |-> n, seen |-> store[i].at] : n \in store[i].offers[l].rated} :
                         i \in Holding(l, store, raws)}
<1> DEFINE holding == Holding(l, store, raws)
           rated == {i \in holding : store[i].offers[l].rated # {}}
           said == UNION {{[count |-> n, seen |-> store[i].at] : n \in store[i].offers[l].rated} :
                             i \in holding}
<1>1. {j \in rated : \A k \in rated : k <= j} = rated
    OBVIOUS
<1>2. Rating(l, store, raws) =
          {[count |-> The(store[i].offers[l].rated), seen |-> store[i].at] :
              i \in {j \in rated : \A k \in rated : k <= j}}
    BY DEF Rating
<1>3. Rating(l, store, raws) =
          {[count |-> The(store[i].offers[l].rated), seen |-> store[i].at] : i \in rated}
    BY <1>1, <1>2
<1>4. \A i \in rated : /\ The(store[i].offers[l].rated) \in store[i].offers[l].rated
                       /\ \A n \in store[i].offers[l].rated : n = The(store[i].offers[l].rated)
    BY DEF The, IsOptional
<1>5. \A x \in said : x \in Rating(l, store, raws)
    <2>1. SUFFICES ASSUME NEW i \in holding, NEW n \in store[i].offers[l].rated
                   PROVE  [count |-> n, seen |-> store[i].at] \in Rating(l, store, raws)
        OBVIOUS
    <2>2. i \in rated /\ n = The(store[i].offers[l].rated)
        BY <1>4
    <2> QED
        BY <1>3, <2>2
<1>6. \A x \in Rating(l, store, raws) : x \in said
    BY <1>3, <1>4
<1> QED
    BY <1>5, <1>6

LEMMA WordsOfOneResponse ==
    ASSUME NEW l, NEW e,
           Holding(l, e.store, e.raws) \subseteq Nat,
           \A i, j \in Holding(l, e.store, e.raws) : i = j
    PROVE  SemanticRow(l, e).directness =
               Directness(UNION {e.store[i].offers[l].text : i \in Holding(l, e.store, e.raws)})
<1> DEFINE holding == Holding(l, e.store, e.raws)
<1>1. {j \in holding : \A k \in holding : k <= j} = holding
    OBVIOUS
<1>2. SemanticRow(l, e).directness =
          Directness(UNION {e.store[i].offers[l].text :
                               i \in {j \in holding : \A k \in holding : k <= j}})
    BY DEF SemanticRow
<1> QED
    BY <1>1, <1>2

LEMMA ArtifactIsOfItsAttempt ==
    ASSUME NEW r \in Runs, InHand(r, attempts[r]), now \in 0..MaxNow
    PROVE  WellMade(Frozen(r)) /\ IsOfInvocation(Frozen(r), attempts[r].invocation)
<1> DEFINE e == Frozen(r)
           a == attempts[r]
<1>0. InHand(r, a)
    OBVIOUS
<1>1. /\ e.run = r /\ e.at = now /\ e.scope = Scope[r] /\ e.sha = Digest[r]
      /\ e.store = a.store /\ e.raws = Bound(a) /\ e.rows = Exported(Snapshot(r))
    BY DEF Frozen
<1>2. /\ Snapshot(r).scope = Scope[r] /\ Snapshot(r).store = a.store
      /\ Snapshot(r).raws = Bound(a)
    BY DEF Snapshot
<1>3. e.rows = [l \in ToSet(Listings(Scope[r])) |->
                  [rating |-> Rating(l, a.store, Bound(a)),
                   published |-> Published(l, a.store, Bound(a))]]
    BY <1>1, <1>2 DEF Exported
<1>4. DOMAIN e.rows = MembersOf(Scope[r])
    BY <1>3, CatalogueIsListed
<1>5. ASSUME NEW l \in DOMAIN e.rows
      PROVE  LET heard == {i \in DOMAIN e.store :
                              e.store[i].invocation = a.invocation /\ l \in DOMAIN e.store[i].offers}
                 said == UNION {{[count |-> n, seen |-> e.store[i].at] :
                                   n \in e.store[i].offers[l].rated} : i \in heard}
             IN /\ e.rows[l].rating = said
                /\ SemanticRow(l, e).directness = Directness(UNION {e.store[i].offers[l].text : i \in heard})
                /\ said \subseteq Ratings /\ IsOptional(said)
                /\ e.rows[l].published \subseteq Int /\ IsOptional(e.rows[l].published)
    <2> DEFINE heard == {i \in DOMAIN e.store :
                            e.store[i].invocation = a.invocation /\ l \in DOMAIN e.store[i].offers}
               said == UNION {{[count |-> n, seen |-> e.store[i].at] :
                                 n \in e.store[i].offers[l].rated} : i \in heard}
    <2> HIDE DEF e, a
    <2>1. /\ Holding(l, e.store, e.raws) = heard
          /\ heard \subseteq Nat /\ \A i, j \in heard : i = j
          /\ \A i \in heard : e.store[i] \in Responses
        <3>1. Shows(e, a)
            BY <1>1 DEF Shows
        <3>2. /\ \A i : i \in Holding(l, e.store, e.raws) <=>
                            /\ i \in DOMAIN e.store /\ e.store[i].invocation = a.invocation
                            /\ l \in DOMAIN e.store[i].offers
              /\ Holding(l, e.store, e.raws) \subseteq Nat
              /\ \A i, j \in Holding(l, e.store, e.raws) : i = j
              /\ \A i \in Holding(l, e.store, e.raws) : e.store[i] \in Responses
            BY <1>0, <3>1, OneResponseHolds
        <3>3. Holding(l, e.store, e.raws) = heard
            BY <3>2
        <3> QED
            BY <3>2, <3>3
    <2>2. \A i \in heard : /\ e.store[i].at \in 1..MaxNow
                           /\ e.store[i].offers[l].rated \subseteq Nat
                           /\ IsOptional(e.store[i].offers[l].rated)
        BY <2>1, ResponseType
    <2>3. e.rows[l].rating = Rating(l, e.store, e.raws)
        BY <1>1, <1>3
    <2>4. e.rows[l].rating = said
        BY <2>1, <2>2, <2>3, RatingOfOneResponse
    <2>5. SemanticRow(l, e).directness = Directness(UNION {e.store[i].offers[l].text : i \in heard})
        BY <1>1, <2>1, WordsOfOneResponse
    <2>6. said \subseteq Ratings
        BY <2>2 DEF Ratings
    <2>7. IsOptional(said)
        BY <2>1, <2>2 DEF IsOptional
    <2>8. l \in AllMembers
        BY <1>4, MembersAreKnown, SetsAssumption
    <2>9. FirstPublished[l] \subseteq Int /\ IsOptional(FirstPublished[l])
        BY <2>8, ListingsAssumption DEF AllMembers
    <2>10. e.rows[l].published \subseteq Int /\ IsOptional(e.rows[l].published)
        <3>1. e.rows[l].published = Published(l, a.store, Bound(a))
            BY <1>1, <1>3
        <3>2. Published(l, a.store, Bound(a)) = {} \/ Published(l, a.store, Bound(a)) = FirstPublished[l]
            BY DEF Published
        <3> QED
            BY <2>9, <3>1, <3>2 DEF IsOptional
    <2> QED
        BY <2>4, <2>5, <2>6, <2>7, <2>10
<1>6. IsOfInvocation(e, a.invocation)
    BY <1>5 DEF IsOfInvocation
<1>7. WellMade(e)
    BY <1>1, <1>4, <1>5 DEF WellMade
<1> QED
    BY <1>6, <1>7

-----------------------------------------------------------------------------
(* The artifacts of the experiments are of the last attempt of their runs. *)

ArtifactsInv ==
    /\ \A e \in experiments :
          /\ WellMade(e) /\ attempts[e.run].stage = "done"
          /\ IsOfInvocation(e, attempts[e.run].invocation)
    /\ \A e, f \in experiments : e.run = f.run => e = f

CollectionInv ==
    /\ now \in 0..MaxNow
    /\ attempts \in [Runs -> Attempts]
    /\ \A r \in Runs : InHand(r, attempts[r]) /\ (attempts[r].stage = "collecting" => now > 0)
    /\ ArtifactsInv

LEMMA CollectionStarts == ThesisInit => CollectionInv
<1> SUFFICES ASSUME ThesisInit PROVE CollectionInv
    OBVIOUS
<1> DEFINE fresh == [stage |-> "new", store |-> << >>, reused |-> 0, invocation |-> 1]
<1>1. now = 0 /\ experiments = {} /\ attempts = [r \in Runs |-> fresh]
    BY DEF ThesisInit
<1>2. fresh \in Attempts
    <2>1. << >> \in Seq(Responses)
        OBVIOUS
    <2> QED
        BY <2>1 DEF Attempts
<1>3. DOMAIN fresh.store = {} /\ Len(fresh.store) = 0
    OBVIOUS
<1>4. \A r \in Runs : InHand(r, fresh)
    BY <1>2, <1>3 DEF InHand
<1>5. 0 \in 0..MaxNow
    BY RunsAssumption
<1> QED
    BY <1>1, <1>2, <1>4, <1>5 DEF CollectionInv, ArtifactsInv

(* One run that is not done moves on; nothing is published.                *)
LEMMA RunMovesOn ==
    ASSUME CollectionInv, NEW r \in Runs, attempts[r].stage # "done", NEW attempt,
           attempts' = [attempts EXCEPT ![r] = attempt], InHand(r, attempt),
           attempt.stage = "collecting" => now' > 0, now' >= now, now' \in 0..MaxNow,
           experiments' = experiments
    PROVE  CollectionInv'
<1>1. attempt \in Attempts /\ attempts \in [Runs -> Attempts] /\ now \in Nat
    BY DEF InHand, CollectionInv
<1>2. /\ attempts' \in [Runs -> Attempts] /\ attempts'[r] = attempt
      /\ \A s \in Runs : s # r => attempts'[s] = attempts[s]
    BY <1>1
<1>3. \A s \in Runs : InHand(s, attempts'[s]) /\ (attempts'[s].stage = "collecting" => now' > 0)
    <2>1. SUFFICES ASSUME NEW s \in Runs
                   PROVE  InHand(s, attempts'[s]) /\ (attempts'[s].stage = "collecting" => now' > 0)
        OBVIOUS
    <2>2. CASE s = r
        BY <1>2, <2>2
    <2>3. CASE s # r
        BY <1>1, <1>2, <2>3 DEF CollectionInv
    <2> QED
        BY <2>2, <2>3
<1>4. \A e \in experiments : e.run \in Runs /\ e.run # r /\ attempts'[e.run] = attempts[e.run]
    BY <1>2 DEF CollectionInv, ArtifactsInv, WellMade
<1>5. ArtifactsInv'
    BY <1>4 DEF CollectionInv, ArtifactsInv
<1> QED
    BY <1>2, <1>3, <1>5 DEF CollectionInv

LEMMA StartKeepsCollection ==
    ASSUME CollectionInv, NEW r \in Runs, NEW time \in (now + 1)..MaxNow, Start(r, time)
    PROVE  CollectionInv'
<1> DEFINE attempt == [attempts[r] EXCEPT !.stage = "collecting"]
<1>1. /\ attempts[r] \in Attempts /\ InHand(r, attempts[r]) /\ now \in Nat
      /\ attempts \in [Runs -> Attempts] /\ MaxNow \in Nat
    BY RunsAssumption DEF CollectionInv
<1>2. /\ attempts[r].stage = "new" /\ now' = time /\ experiments' = experiments
      /\ attempts' = [attempts EXCEPT ![r] = attempt]
    BY <1>1 DEF Start
<1>3. /\ attempt \in Attempts
      /\ attempt.store = attempts[r].store /\ attempt.reused = attempts[r].reused
      /\ attempt.invocation = attempts[r].invocation
    BY <1>1 DEF Attempts
<1>4. InHand(r, attempt)
    BY <1>1, <1>3 DEF InHand
<1>5. now' > 0 /\ now' >= now /\ now' \in 0..MaxNow
    BY <1>1, <1>2
<1> HIDE DEF attempt
<1> QED
    BY <1>2, <1>4, <1>5, RunMovesOn

LEMMA ResumeKeepsCollection ==
    ASSUME CollectionInv, NEW r \in Runs, NEW time \in (now + 1)..MaxNow, Resume(r, time)
    PROVE  CollectionInv'
<1> DEFINE attempt == [attempts[r] EXCEPT !.stage = "collecting",
                                          !.reused = Len(attempts[r].store),
                                          !.invocation = @ + 1]
<1>1. /\ attempts[r] \in Attempts /\ InHand(r, attempts[r]) /\ now \in Nat
      /\ attempts \in [Runs -> Attempts] /\ MaxNow \in Nat
    BY RunsAssumption DEF CollectionInv
<1>2. /\ attempts[r].stage = "failed" /\ now' = time /\ experiments' = experiments
      /\ attempts' = [attempts EXCEPT ![r] = attempt]
    BY <1>1 DEF Resume
<1>3. /\ attempts[r].store \in Seq(Responses) /\ Len(attempts[r].store) \in Nat
      /\ attempts[r].invocation \in Nat /\ attempts[r].reused \in Nat
      /\ DOMAIN attempts[r].store = 1..Len(attempts[r].store)
    BY <1>1 DEF Attempts
<1>4. /\ attempt \in Attempts
      /\ attempt.store = attempts[r].store /\ attempt.reused = Len(attempts[r].store)
      /\ attempt.invocation = attempts[r].invocation + 1
    <2>1. PICK reused \in Nat, n \in Nat :
              reused = Len(attempts[r].store) /\ n = attempts[r].invocation + 1
        BY <1>3
    <2>2. [attempts[r] EXCEPT !.stage = "collecting", !.reused = reused, !.invocation = n] \in Attempts
        BY <1>1 DEF Attempts
    <2>3. /\ attempt = [attempts[r] EXCEPT !.stage = "collecting", !.reused = reused, !.invocation = n]
          /\ attempt.store = attempts[r].store /\ attempt.reused = Len(attempts[r].store)
          /\ attempt.invocation = attempts[r].invocation + 1
        BY <1>1, <1>3, <2>1 DEF Attempts
    <2> QED
        BY <2>2, <2>3
<1>5. \A i \in DOMAIN attempts[r].store : attempts[r].store[i].invocation <= attempts[r].invocation
    <2>1. SUFFICES ASSUME NEW i \in DOMAIN attempts[r].store
                   PROVE  attempts[r].store[i].invocation <= attempts[r].invocation
        OBVIOUS
    <2>2. attempts[r].store[i].invocation \in Nat
        BY <1>3, ResponseType
    <2> QED
        BY <1>1, <1>3, <2>2 DEF InHand
<1>6. \A i \in DOMAIN attempts[r].store : attempts[r].store[i].invocation < attempts[r].invocation + 1
    BY <1>3, <1>5, ResponseType
<1>7. InHand(r, attempt)
    <2> HIDE DEF attempt
    <2> QED
        BY <1>3, <1>4, <1>6 DEF InHand
<1>8. now' > 0 /\ now' >= now /\ now' \in 0..MaxNow
    BY <1>1, <1>2
<1> HIDE DEF attempt
<1> QED
    BY <1>2, <1>7, <1>8, RunMovesOn

LEMMA FailureKeepsCollection ==
    ASSUME CollectionInv, NEW r \in Runs, FailAttempt(r) \/ RefuseSnapshot(r)
    PROVE  CollectionInv'
<1> DEFINE attempt == [attempts[r] EXCEPT !.stage = "failed"]
<1>1. /\ attempts[r] \in Attempts /\ InHand(r, attempts[r]) /\ now \in 0..MaxNow
      /\ attempts \in [Runs -> Attempts] /\ MaxNow \in Nat
    BY RunsAssumption DEF CollectionInv
<1>2. /\ attempts[r].stage = "collecting" /\ now' = now /\ experiments' = experiments
      /\ attempts' = [attempts EXCEPT ![r] = attempt]
    BY <1>1 DEF FailAttempt, RefuseSnapshot
<1>3. /\ attempt \in Attempts /\ attempt.stage = "failed"
      /\ attempt.store = attempts[r].store /\ attempt.reused = attempts[r].reused
      /\ attempt.invocation = attempts[r].invocation
    BY <1>1 DEF Attempts
<1>4. InHand(r, attempt)
    BY <1>1, <1>3 DEF InHand
<1>5. now' >= now /\ now' \in 0..MaxNow
    BY <1>1, <1>2
<1> HIDE DEF attempt
<1> QED
    BY <1>2, <1>3, <1>4, <1>5, RunMovesOn

LEMMA BatchKeepsCollection ==
    ASSUME CollectionInv, NEW r \in Runs, NEW missing, CollectBatch(r, missing)
    PROVE  CollectionInv'
<1> DEFINE batch == ToSet(Batch(r, Collected(r) + 1))
           response == [at |-> now, invocation |-> attempts[r].invocation,
                        offers |-> [l \in batch \ missing |-> Offered[l][now]]]
           attempt == [attempts[r] EXCEPT !.store = Append(@, response)]
           store == attempts[r].store
<1>1. /\ attempts[r] \in Attempts /\ InHand(r, attempts[r]) /\ now \in 0..MaxNow
      /\ attempts \in [Runs -> Attempts] /\ MaxNow \in Nat
    BY RunsAssumption DEF CollectionInv
<1>2. /\ attempts[r].stage = "collecting" /\ now' = now /\ experiments' = experiments
      /\ attempts' = [attempts EXCEPT ![r] = attempt]
    BY <1>1 DEF CollectBatch
<1>3. /\ store \in Seq(Responses) /\ Len(store) \in Nat /\ attempts[r].invocation \in Nat
      /\ attempts[r].reused \in Nat /\ DOMAIN store = 1..Len(store)
      /\ attempts[r].reused <= Len(store)
    BY <1>1 DEF Attempts, InHand
<1>4. now \in 1..MaxNow
    BY <1>1, <1>2 DEF CollectionInv
<1>5. Collected(r) + 1 = Len(store) + 1 - attempts[r].reused /\ Collected(r) + 1 \in Nat \ {0}
    BY <1>3 DEF Collected
<1>6. batch \subseteq AllMembers
    BY <1>5, BatchesAreOfTheScope
<1>7. /\ response \in Responses /\ response.invocation = attempts[r].invocation
      /\ DOMAIN response.offers \subseteq ToSet(Batch(r, Len(store) + 1 - attempts[r].reused))
    <2>1. batch \ missing \in SUBSET AllMembers
        BY <1>6
    <2>2. response \in Responses
        BY <1>3, <1>4, <2>1, ResponseIsKnown
    <2> QED
        BY <1>5, <2>2
<1> HIDE DEF response
<1>8. /\ attempt.stage = "collecting" /\ attempt.store = Append(store, response)
      /\ attempt.reused = attempts[r].reused
      /\ attempt.invocation = attempts[r].invocation /\ attempt \in Attempts
    <2>1. PICK more \in Seq(Responses) : more = Append(store, response)
        <3>1. Append(store, response) \in Seq(Responses)
            BY <1>3, <1>7
        <3> QED
            BY <3>1, Zenon
    <2>2. [attempts[r] EXCEPT !.store = more] \in Attempts
        BY <1>1 DEF Attempts
    <2>3. /\ attempt = [attempts[r] EXCEPT !.store = more]
          /\ attempt.stage = "collecting" /\ attempt.store = Append(store, response)
          /\ attempt.reused = attempts[r].reused
          /\ attempt.invocation = attempts[r].invocation
        BY <1>1, <1>2, <2>1 DEF Attempts
    <2> QED
        BY <2>2, <2>3
<1> HIDE DEF store, attempt
<1>9. /\ Len(attempt.store) = Len(store) + 1 /\ DOMAIN attempt.store = 1..(Len(store) + 1)
      /\ \A i \in DOMAIN store : attempt.store[i] = store[i]
      /\ attempt.store[Len(store) + 1] = response
    BY <1>3, <1>7, <1>8
<1>10. InHand(r, attempt)
    <2>1. ASSUME NEW i \in DOMAIN attempt.store
          PROVE  IF i <= attempt.reused
                 THEN attempt.store[i].invocation < attempt.invocation
                 ELSE /\ attempt.store[i].invocation = attempt.invocation
                      /\ DOMAIN attempt.store[i].offers \subseteq ToSet(Batch(r, i - attempt.reused))
        <3>1. CASE i \in DOMAIN store
            BY <1>1, <1>8, <1>9, <3>1 DEF InHand, store
        <3>2. CASE i = Len(store) + 1
            BY <1>3, <1>7, <1>8, <1>9, <3>2
        <3> QED
            BY <1>3, <1>9, <3>1, <3>2
    <2> QED
        BY <1>3, <1>8, <1>9, <2>1 DEF InHand
<1>11. now' >= now /\ now' \in 0..MaxNow /\ now' > 0
    BY <1>1, <1>2, <1>4
<1> QED
    BY <1>2, <1>10, <1>11, RunMovesOn

LEMMA FreezeKeepsCollection ==
    ASSUME CollectionInv, NEW r \in Runs, Freeze(r)
    PROVE  CollectionInv'
<1> DEFINE attempt == [attempts[r] EXCEPT !.stage = "done", !.store = << >>, !.reused = 0]
           e == Frozen(r)
<1>1. /\ attempts[r] \in Attempts /\ InHand(r, attempts[r]) /\ now \in 0..MaxNow
      /\ attempts \in [Runs -> Attempts] /\ MaxNow \in Nat
    BY RunsAssumption DEF CollectionInv
<1>2. /\ attempts[r].stage = "collecting" /\ now' = now
      /\ experiments' = experiments \cup {e}
      /\ attempts' = [attempts EXCEPT ![r] = attempt]
    BY <1>1 DEF Freeze
<1>3. WellMade(e) /\ IsOfInvocation(e, attempts[r].invocation) /\ e.run = r
    BY <1>1, ArtifactIsOfItsAttempt DEF Frozen
<1> HIDE DEF e
<1>4. /\ attempt \in Attempts /\ attempt.stage = "done"
      /\ attempt.store = << >> /\ attempt.reused = 0
      /\ attempt.invocation = attempts[r].invocation
    <2>1. PICK store \in Seq(Responses), reused \in Nat : store = << >> /\ reused = 0
        <3>1. << >> \in Seq(Responses) /\ 0 \in Nat
            OBVIOUS
        <3> QED
            BY <3>1, Zenon
    <2>2. [attempts[r] EXCEPT !.stage = "done", !.store = store, !.reused = reused] \in Attempts
        BY <1>1 DEF Attempts
    <2>3. /\ attempt = [attempts[r] EXCEPT !.stage = "done", !.store = store, !.reused = reused]
          /\ attempt.stage = "done" /\ attempt.store = << >> /\ attempt.reused = 0
          /\ attempt.invocation = attempts[r].invocation
        BY <1>1, <2>1 DEF Attempts
    <2> QED
        BY <2>2, <2>3
<1> HIDE DEF attempt
<1>5. InHand(r, attempt)
    BY <1>4 DEF InHand
<1>6. /\ attempts' \in [Runs -> Attempts] /\ attempts'[r] = attempt
      /\ \A s \in Runs : s # r => attempts'[s] = attempts[s]
    BY <1>1, <1>2, <1>4
<1>7. \A s \in Runs : InHand(s, attempts'[s]) /\ (attempts'[s].stage = "collecting" => now' > 0)
    <2>1. SUFFICES ASSUME NEW s \in Runs
                   PROVE  InHand(s, attempts'[s]) /\ (attempts'[s].stage = "collecting" => now' > 0)
        OBVIOUS
    <2>2. CASE s = r
        BY <1>4, <1>5, <1>6, <2>2
    <2>3. CASE s # r
        BY <1>2, <1>6, <2>3 DEF CollectionInv
    <2> QED
        BY <2>2, <2>3
<1>8. \A f \in experiments : f.run \in Runs /\ f.run # r /\ attempts'[f.run] = attempts[f.run]
    BY <1>2, <1>6 DEF CollectionInv, ArtifactsInv, WellMade
<1>9. \A f \in experiments' :
          /\ WellMade(f) /\ attempts'[f.run].stage = "done"
          /\ IsOfInvocation(f, attempts'[f.run].invocation)
    BY <1>2, <1>3, <1>4, <1>6, <1>8 DEF CollectionInv, ArtifactsInv
<1>10. \A f, g \in experiments' : f.run = g.run => f = g
    BY <1>2, <1>3, <1>8 DEF CollectionInv, ArtifactsInv
<1>11. ArtifactsInv'
    BY <1>9, <1>10 DEF ArtifactsInv
<1> QED
    BY <1>1, <1>2, <1>6, <1>7, <1>11 DEF CollectionInv

LEMMA CollectionStandsStill ==
    ASSUME CollectionInv, UNCHANGED <<now, attempts, experiments>>
    PROVE  CollectionInv'
BY DEF CollectionInv, ArtifactsInv

-----------------------------------------------------------------------------
(* A history in its canonical order.                                       *)

(* Artifacts that are told apart by their runs.                            *)
Known(known) ==
    /\ \A e \in known : WellMade(e)
    /\ \A e, f \in known : e.run = f.run => e = f

LEMMA KnownTypes ==
    ASSUME NEW known, Known(known), NEW e \in known
    PROVE  /\ e.run \in Runs /\ e.run \in Nat /\ e.at \in Nat /\ e.sha \in Nat
           /\ e.scope = Scope[e.run] /\ e.scope \in Seq(DOMAIN Members)
           /\ DOMAIN e.rows = MembersOf(e.scope)
           /\ \A l \in DOMAIN e.rows :
                 /\ e.rows[l].rating \subseteq Ratings /\ IsOptional(e.rows[l].rating)
                 /\ e.rows[l].published \subseteq Int /\ IsOptional(e.rows[l].published)
<1>1. WellMade(e)
    BY DEF Known
<1>2. /\ e.run \in Runs /\ e.at \in 0..MaxNow /\ e.scope = Scope[e.run] /\ e.sha = Digest[e.run]
      /\ DOMAIN e.rows = MembersOf(e.scope)
      /\ \A l \in DOMAIN e.rows :
            /\ e.rows[l].rating \subseteq Ratings /\ IsOptional(e.rows[l].rating)
            /\ e.rows[l].published \subseteq Int /\ IsOptional(e.rows[l].published)
    BY <1>1 DEF WellMade
<1>3. e.run \in Nat /\ e.at \in Nat /\ e.sha \in Nat
    <2>1. e.run \in Nat
        BY <1>2, RunsAssumption
    <2>2. Digest[e.run] \in Nat
        BY <1>2, RunsAssumption
    <2> QED
        BY <1>2, <2>1, <2>2
<1>4. e.scope \in Seq(DOMAIN Members)
    BY <1>2, SetsAssumption
<1> QED
    BY <1>2, <1>3, <1>4

Succession(priors) ==
    {p \in (DOMAIN priors) \X (DOMAIN priors) :
        \/ Earlier(priors[p[1]], priors[p[2]])
        \/ ~Earlier(priors[p[2]], priors[p[1]]) /\ p[1] < p[2]}

LEMMA SuccessionIsStrict ==
    ASSUME NEW known, Known(known), NEW priors \in Seq(known)
    PROVE  /\ IsFiniteSet(DOMAIN priors) /\ Cardinality(DOMAIN priors) = Len(priors)
           /\ Len(priors) \in Nat /\ DOMAIN priors = 1..Len(priors)
           /\ StrictOrder(DOMAIN priors, Succession(priors))
<1> DEFINE places == DOMAIN priors
           Precede(i, j) == \/ Earlier(priors[i], priors[j])
                            \/ ~Earlier(priors[j], priors[i]) /\ i < j
<1>1. /\ Len(priors) \in Nat /\ places = 1..Len(priors)
      /\ \A i \in places : i \in Nat /\ priors[i] \in known
    OBVIOUS
<1>2. IsFiniteSet(places) /\ Cardinality(places) = Len(priors)
    <2>1. 1 \in Int /\ Len(priors) \in Int
        BY <1>1
    <2>2. /\ IsFiniteSet(1..Len(priors))
          /\ Cardinality(1..Len(priors)) = IF 1 > Len(priors) THEN 0 ELSE Len(priors) - 1 + 1
        BY <2>1, FS_Interval
    <2> QED
        BY <1>1, <2>2
<1>3. \A i, j \in places : <<i, j>> \in Succession(priors) <=> Precede(i, j)
    BY DEF Succession
<1>4. \A i \in places : priors[i].at \in Nat /\ priors[i].run \in Nat
    BY <1>1, KnownTypes
<1>5. \A i \in places : ~Precede(i, i)
    BY <1>1, <1>4 DEF Earlier
<1>6. \A i, j, k \in places : Precede(i, j) /\ Precede(j, k) => Precede(i, k)
    BY <1>1, <1>4 DEF Earlier
<1>7. \A i, j \in places : i # j => Precede(i, j) \/ Precede(j, i)
    BY <1>1, <1>4 DEF Earlier
<1> HIDE DEF Precede
<1> QED
    BY <1>1, <1>2, <1>3, <1>5, <1>6, <1>7 DEF StrictOrder

LEMMA CanonicalIsSorted ==
    ASSUME NEW known, Known(known), NEW priors \in Seq(known)
    PROVE  LET canonical == Canonical(priors) IN
           /\ canonical \in Seq(known) /\ DOMAIN canonical = DOMAIN priors
           /\ ToSet(canonical) = ToSet(priors)
           /\ \A i, j \in DOMAIN priors : i < j => ~Earlier(canonical[j], canonical[i])
           /\ (\A i, j \in DOMAIN priors : priors[i] = priors[j] => i = j)
                 => \A i, j \in DOMAIN priors : canonical[i] = canonical[j] => i = j
<1> DEFINE places == DOMAIN priors
           order == Arranged(places, Succession(priors))
           canonical == Canonical(priors)
<1>1. /\ IsFiniteSet(places) /\ Cardinality(places) = Len(priors)
      /\ StrictOrder(places, Succession(priors))
      /\ Len(priors) \in Nat /\ places = 1..Len(priors)
    BY SuccessionIsStrict
<1>2. canonical = [k \in places |-> priors[order[k]]]
    BY Zenon DEF Canonical, Succession
<1>3. /\ order \in [places -> places]
      /\ \A i, j \in places : i < j => <<order[i], order[j]>> \in Succession(priors)
      /\ \A i, j \in places : order[i] = order[j] => i = j
      /\ \A x \in places : \E k \in places : order[k] = x
    <2>1. 1..Cardinality(places) = places
        BY <1>1
    <2>2. /\ order \in [1..Cardinality(places) -> places]
          /\ \A i, j \in 1..Cardinality(places) :
                i < j => <<order[i], order[j]>> \in Succession(priors)
          /\ \A i, j \in 1..Cardinality(places) : order[i] = order[j] => i = j
          /\ \A x \in places : \E k \in 1..Cardinality(places) : order[k] = x
        BY <1>1, ArrangedInOrder, Zenon
    <2> QED
        BY <2>1, <2>2, Zenon
<1> HIDE DEF order
<1>4. \A k \in places : order[k] \in places /\ canonical[k] = priors[order[k]] /\ priors[order[k]] \in known
    BY <1>2, <1>3
<1>5. canonical \in [places -> known] /\ DOMAIN canonical = places
    BY <1>2, <1>4
<1>6. canonical \in Seq(known)
    BY <1>1, <1>5
<1>7. ToSet(canonical) = ToSet(priors)
    <2>1. \A e : e \in ToSet(canonical) <=> \E k \in places : priors[order[k]] = e
        BY <1>4, <1>5 DEF ToSet
    <2>2. \A e : e \in ToSet(priors) <=> \E k \in places : priors[k] = e
        BY DEF ToSet
    <2>3. \A e \in ToSet(canonical) : e \in ToSet(priors)
        BY <1>4, <2>1, <2>2
    <2>4. \A e \in ToSet(priors) : e \in ToSet(canonical)
        BY <1>3, <2>1, <2>2
    <2> QED
        BY <2>3, <2>4
<1>8. \A i, j \in places : i < j => ~Earlier(canonical[j], canonical[i])
    <2>1. SUFFICES ASSUME NEW i \in places, NEW j \in places, i < j
                   PROVE  ~Earlier(canonical[j], canonical[i])
        OBVIOUS
    <2>2. \/ Earlier(priors[order[i]], priors[order[j]])
          \/ ~Earlier(priors[order[j]], priors[order[i]])
        BY <1>3, <1>4, <2>1 DEF Succession
    <2>3. /\ priors[order[i]].at \in Nat /\ priors[order[i]].run \in Nat
          /\ priors[order[j]].at \in Nat /\ priors[order[j]].run \in Nat
        BY <1>4, KnownTypes
    <2>4. ~Earlier(priors[order[j]], priors[order[i]])
        BY <2>2, <2>3 DEF Earlier
    <2> QED
        BY <1>4, <2>4
<1>9. ASSUME \A i, j \in places : priors[i] = priors[j] => i = j
      PROVE  \A i, j \in places : canonical[i] = canonical[j] => i = j
    BY <1>3, <1>4, <1>9
<1> QED
    BY <1>5, <1>6, <1>7, <1>8, <1>9

(* The artifacts of a history differ if there are as many as places.       *)
LEMMA DistinctHistory ==
    ASSUME NEW known, NEW priors \in Seq(known)
    PROVE  /\ IsFiniteSet(ToSet(priors)) /\ Cardinality(ToSet(priors)) <= Len(priors)
           /\ Cardinality(ToSet(priors)) = Len(priors) <=>
                 \A i, j \in DOMAIN priors : priors[i] = priors[j] => i = j
<1>1. Len(priors) \in Nat /\ DOMAIN priors = 1..Len(priors)
    OBVIOUS
<1>2. IsFiniteSet(DOMAIN priors) /\ Cardinality(DOMAIN priors) = Len(priors)
    <2>1. 1 \in Int /\ Len(priors) \in Int
        BY <1>1
    <2>2. /\ IsFiniteSet(1..Len(priors))
          /\ Cardinality(1..Len(priors)) = IF 1 > Len(priors) THEN 0 ELSE Len(priors) - 1 + 1
        BY <2>1, FS_Interval
    <2> QED
        BY <1>1, <2>2
<1>3. priors \in Surjection(DOMAIN priors, ToSet(priors))
    <2>1. priors \in [DOMAIN priors -> ToSet(priors)]
        BY DEF ToSet
    <2>2. \A x \in ToSet(priors) : \E i \in DOMAIN priors : priors[i] = x
        BY DEF ToSet
    <2> QED
        BY <2>1, <2>2 DEF Surjection
<1>4. /\ IsFiniteSet(ToSet(priors))
      /\ Cardinality(ToSet(priors)) <= Cardinality(DOMAIN priors)
      /\ Cardinality(ToSet(priors)) = Cardinality(DOMAIN priors)
            <=> priors \in Injection(DOMAIN priors, ToSet(priors))
    BY <1>2, <1>3, FS_Surjection
<1>5. priors \in Injection(DOMAIN priors, ToSet(priors)) <=>
          \A i, j \in DOMAIN priors : priors[i] = priors[j] => i = j
    <2>1. priors \in [DOMAIN priors -> ToSet(priors)]
        BY DEF ToSet
    <2> QED
        BY <2>1 DEF Injection, IsInjective
<1> QED
    BY <1>2, <1>4, <1>5

-----------------------------------------------------------------------------
(* The rows of the traction.                                               *)

Derivations(listings, current, priors) ==
    {[listing |-> l, row |-> Derived(l, current, priors)] : l \in listings}

LEMMA RowIsMaterialized ==
    ASSUME NEW listings, NEW current, NEW priors, NEW l \in listings
    PROVE  Traction(listings, current, priors)[l] =
               Materialized(Derived(l, current, priors), Derivations(listings, current, priors))
<1> DEFINE derived == Derivations(listings, current, priors)
           rows == {[listing |-> d.listing, row |-> Materialized(d.row, derived)] : d \in derived}
           row == Materialized(Derived(l, current, priors), derived)
<1>1. Traction(listings, current, priors)[l] = RowOf(l, rows)
    BY Zenon DEF Traction, Derivations
<1>2. [listing |-> l, row |-> Derived(l, current, priors)] \in derived
    BY DEF Derivations
<1>3. [listing |-> l, row |-> row] \in rows
    BY <1>2
<1>4. \A r \in rows : r.listing = l => r.row = row
    <2>1. \A d \in derived : d.listing = l => d.row = Derived(l, current, priors)
        BY DEF Derivations
    <2> QED
        BY <2>1
<1> HIDE DEF rows, row
<1>5. {r.row : r \in {d \in rows : d.listing = l}} = {row}
    BY <1>3, <1>4
<1>6. RowOf(l, rows) = row
    BY <1>5 DEF RowOf, The
<1> QED
    BY <1>1, <1>6 DEF row

(* What a row says of a listing, and of the listings of its age.           *)
IsRowOf(row, l, current, priors, peers) ==
    /\ row.rating = current.rows[l].rating
    /\ row.age = Age(current.rows[l].published, current.at)
    /\ row.bucket = AgeBucket(row.age)
    /\ row.pace = Pace(row.age, {r.count : r \in row.rating})
    /\ row.longitudinal = Longitudinal(row.rating, PriorPoints(l, row.rating, priors))
    /\ row.members = {Cardinality(Cohort(b, peers)) : b \in {{x} : x \in row.bucket}}
    /\ row.paced = {Cardinality(Paced(row.bucket, peers)) : b \in row.bucket}
    /\ row.percentile =
          {Share(Cardinality({m \in Paced(row.bucket, peers) : ~Slower(p, The(m.row.pace))}),
                 Cardinality(Paced(row.bucket, peers))) : p \in row.pace}

LEMMA MaterializedKeeps ==
    ASSUME NEW l, NEW current, NEW priors, NEW peers
    PROVE  IsRowOf(Materialized(Derived(l, current, priors), peers), l, current, priors, peers)
<1> DEFINE row == Derived(l, current, priors)
           done == Materialized(row, peers)
<1>1. row = [rating |-> current.rows[l].rating, age |-> Age(current.rows[l].published, current.at),
             bucket |-> AgeBucket(Age(current.rows[l].published, current.at)),
             pace |-> Pace(Age(current.rows[l].published, current.at),
                           {r.count : r \in current.rows[l].rating}),
             longitudinal |-> Longitudinal(current.rows[l].rating,
                                           PriorPoints(l, current.rows[l].rating, priors)),
             members |-> {}, paced |-> {}, percentile |-> {}]
    BY DEF Derived
<1>2. done = [row EXCEPT
                 !.members = {Cardinality(Cohort(b, peers)) : b \in {{x} : x \in row.bucket}},
                 !.paced = {Cardinality(Paced(row.bucket, peers)) : b \in row.bucket},
                 !.percentile =
                    {Share(Cardinality({m \in Paced(row.bucket, peers) : ~Slower(p, The(m.row.pace))}),
                           Cardinality(Paced(row.bucket, peers))) : p \in row.pace}]
    BY DEF Materialized
<1> HIDE DEF row, done
<1>3. /\ done.rating = row.rating /\ done.age = row.age /\ done.bucket = row.bucket
      /\ done.pace = row.pace /\ done.longitudinal = row.longitudinal
    BY <1>1, <1>2
<1>4. /\ done.members = {Cardinality(Cohort(b, peers)) : b \in {{x} : x \in row.bucket}}
      /\ done.paced = {Cardinality(Paced(row.bucket, peers)) : b \in row.bucket}
      /\ done.percentile =
            {Share(Cardinality({m \in Paced(row.bucket, peers) : ~Slower(p, The(m.row.pace))}),
                   Cardinality(Paced(row.bucket, peers))) : p \in row.pace}
    BY <1>1, <1>2
<1>5. /\ row.rating = current.rows[l].rating
      /\ row.age = Age(current.rows[l].published, current.at)
      /\ row.bucket = AgeBucket(row.age)
      /\ row.pace = Pace(row.age, {r.count : r \in row.rating})
      /\ row.longitudinal = Longitudinal(row.rating, PriorPoints(l, row.rating, priors))
    BY <1>1
<1> QED
    <2>1. IsRowOf(done, l, current, priors, peers)
        BY <1>3, <1>4, <1>5 DEF IsRowOf
    <2> QED
        BY <2>1 DEF row, done

LEMMA RowOfTraction ==
    ASSUME NEW listings, NEW current, NEW priors, NEW l \in listings
    PROVE  IsRowOf(Traction(listings, current, priors)[l], l, current, priors,
                   Derivations(listings, current, priors))
<1>1. Traction(listings, current, priors)[l] =
          Materialized(Derived(l, current, priors), Derivations(listings, current, priors))
    BY RowIsMaterialized
<1> QED
    BY <1>1, MaterializedKeeps

-----------------------------------------------------------------------------
(* Velocities.                                                             *)

LEMMA LeastExists ==
    ASSUME NEW values \in SUBSET Nat, values # {}
    PROVE  \E n \in values : \A m \in values : n <= m
<1>1. PICK n \in values : \A m \in values : ~(<<m, n>> \in OpToRel(<, Nat))
    BY WFMin, NatLessThanWellFounded, Zenon
<1>2. \A m \in values : ~(m < n)
    BY <1>1, Zenon DEF OpToRel
<1>3. \A m \in values : n <= m
    BY <1>2
<1> QED
    BY <1>3

Points == [count : Nat, seen : 1..MaxNow, sha : Nat]

(* The latest points have one time, and one count unless they conflict.    *)
LEMMA SelectedIsLatest ==
    ASSUME NEW points \in SUBSET Points, points # {}, IsFiniteSet(points), ~Conflicting(points)
    PROVE  /\ Selected(points) \in points
           /\ \A p \in points : p.seen <= Selected(points).seen
           /\ \A p \in points : p.seen = Selected(points).seen => p.count = Selected(points).count
<1> DEFINE latest == Latest(points)
           counts == {p.count : p \in latest}
<1>1. \A p \in points : p.count \in Nat /\ p.seen \in 1..MaxNow /\ p.sha \in Nat /\ p.seen \in Nat
    BY DEF Points
<1>2. \E p \in points : \A q \in points : q.seen <= p.seen
    <2> DEFINE waits == {MaxNow - p.seen : p \in points}
    <2>1. MaxNow \in Nat /\ waits \in SUBSET Nat /\ waits # {}
        BY <1>1, RunsAssumption
    <2>2. PICK wait \in waits : \A other \in waits : wait <= other
        BY <2>1, LeastExists
    <2>3. PICK p \in points : wait = MaxNow - p.seen
        OBVIOUS
    <2>4. \A q \in points : MaxNow - p.seen <= MaxNow - q.seen
        BY <2>2, <2>3
    <2> QED
        BY <1>1, <2>1, <2>4
<1>3. latest # {} /\ latest \subseteq points
    BY <1>2 DEF Latest
<1>4. \E p \in latest : \A q \in latest : p.sha <= q.sha
    <2> DEFINE shas == {p.sha : p \in latest}
    <2>1. shas \in SUBSET Nat /\ shas # {}
        BY <1>1, <1>3
    <2>2. PICK sha \in shas : \A other \in shas : sha <= other
        BY <2>1, LeastExists
    <2> QED
        BY <2>2
<1>5. Selected(points) \in latest
    BY <1>4 DEF Selected
<1>6. IsFiniteSet(counts)
    <2> DEFINE count == [p \in latest |-> p.count]
    <2>1. IsFiniteSet(latest)
        BY <1>3, FS_Subset
    <2>2. count \in Surjection(latest, counts)
        BY DEF Surjection
    <2> QED
        BY <2>1, <2>2, FS_Surjection
<1>7. \A m, n \in counts : m = n
    <2>1. SUFFICES ASSUME NEW m \in counts, NEW n \in counts, m # n PROVE FALSE
        OBVIOUS
    <2>2. {m, n} \subseteq counts
        OBVIOUS
    <2>3. Cardinality({m}) = 1 /\ IsFiniteSet({m})
        BY FS_Singleton
    <2>4. Cardinality({m} \cup {n}) = 2
        <3>1. n \notin {m}
            BY <2>1
        <3>2. Cardinality({m} \cup {n}) = Cardinality({m}) + 1
            BY <2>3, <3>1, FS_AddElement
        <3> QED
            BY <2>3, <3>2
    <2>5. Cardinality({m, n}) = 2
        <3>1. {m, n} = {m} \cup {n}
            OBVIOUS
        <3> QED
            BY <2>4, <3>1
    <2>6. 2 <= Cardinality(counts)
        BY <1>6, <2>2, <2>5, FS_Subset
    <2>7. Cardinality(counts) \in Nat
        BY <1>6, FS_CardinalityType
    <2>8. ~(Cardinality(counts) > 1)
        BY DEF Conflicting
    <2> QED
        BY <2>6, <2>7, <2>8
<1>8. \A p \in points : p.seen <= Selected(points).seen
    BY <1>5 DEF Latest
<1>9. \A p \in points : p.seen = Selected(points).seen => p \in latest
    BY <1>8 DEF Latest
<1> HIDE DEF latest
<1>10. \A p \in points : p.seen = Selected(points).seen => p.count = Selected(points).count
    BY <1>5, <1>7, <1>9
<1> QED
    BY <1>3, <1>5, <1>8, <1>10

LEMMA PointsAreRatings ==
    ASSUME NEW known, Known(known), NEW priors \in Seq(known), NEW l,
           NEW rating \in SUBSET Ratings
    PROVE  LET points == PriorPoints(l, rating, priors)
               earlier == EarlierRatings(l, rating, ToSet(priors))
           IN /\ points \in SUBSET Points /\ earlier \in SUBSET Ratings
              /\ IsFiniteSet(points)
              /\ \A p \in points : \E c \in rating : p.seen < c.seen
              /\ \A p \in points : [count |-> p.count, seen |-> p.seen] \in earlier
              /\ \A r \in earlier : \E p \in points : p.count = r.count /\ p.seen = r.seen
<1> DEFINE points == PriorPoints(l, rating, priors)
           earlier == EarlierRatings(l, rating, ToSet(priors))
           past == {p \in ToSet(priors) : l \in DOMAIN p.rows}
           PointsOf(p) == {[count |-> r.count, seen |-> r.seen, sha |-> p.sha] : r \in p.rows[l].rating}
           all == UNION {PointsOf(p) : p \in past}
<1>1. points = {point \in all : \E r \in rating : point.seen < r.seen}
    BY DEF PriorPoints
<1>2. \A p \in past : /\ p \in known /\ p.sha \in Nat
                      /\ p.rows[l].rating \subseteq Ratings /\ IsOptional(p.rows[l].rating)
    <2>1. ToSet(priors) \subseteq known
        BY DEF ToSet
    <2> QED
        BY <2>1, KnownTypes
<1>3. \A r \in Ratings : /\ r.count \in Nat /\ r.seen \in 1..MaxNow
                         /\ r = [count |-> r.count, seen |-> r.seen]
    BY DEF Ratings
<1>4. \A p \in past : PointsOf(p) \subseteq Points
    BY <1>2, <1>3 DEF Points
<1>5. points \in SUBSET Points
    BY <1>1, <1>4
<1>6. earlier \in SUBSET Ratings
    BY <1>2 DEF EarlierRatings
<1>7. IsFiniteSet(all)
    <2> DEFINE sets == {PointsOf(p) : p \in past}
               set == [p \in past |-> PointsOf(p)]
    <2>1. IsFiniteSet(past)
        BY DistinctHistory, FS_Subset
    <2>2. set \in Surjection(past, sets)
        BY DEF Surjection
    <2>3. IsFiniteSet(sets)
        BY <2>1, <2>2, FS_Surjection
    <2>4. \A p \in past : IsFiniteSet(PointsOf(p))
        <3>1. SUFFICES ASSUME NEW p \in past PROVE IsFiniteSet(PointsOf(p))
            OBVIOUS
        <3>2. \A x, y \in PointsOf(p) : x = y
            BY <1>2 DEF IsOptional
        <3>3. CASE PointsOf(p) = {}
            BY <3>3, FS_EmptySet
        <3>4. CASE PointsOf(p) # {}
            <4>1. PICK x \in PointsOf(p) : TRUE
                BY <3>4
            <4> HIDE DEF PointsOf
            <4>2. PointsOf(p) = {x}
                BY <3>2, <4>1
            <4> QED
                BY <4>2, FS_Singleton
        <3> QED
            BY <3>3, <3>4
    <2>5. \A s \in sets : IsFiniteSet(s)
        BY <2>4
    <2> QED
        BY <2>3, <2>5, FS_UNION
<1>8. IsFiniteSet(points)
    BY <1>1, <1>7, FS_Subset
<1>9. \A p \in points : \E c \in rating : p.seen < c.seen
    BY <1>1
<1>10. \A p \in points : [count |-> p.count, seen |-> p.seen] \in earlier
    <2>1. SUFFICES ASSUME NEW p \in points PROVE [count |-> p.count, seen |-> p.seen] \in earlier
        OBVIOUS
    <2>2. PICK e \in past : p \in PointsOf(e)
        BY <1>1
    <2>3. PICK r \in e.rows[l].rating : p = [count |-> r.count, seen |-> r.seen, sha |-> e.sha]
        BY <2>2
    <2>4. r = [count |-> p.count, seen |-> p.seen] /\ r.seen = p.seen
        BY <1>2, <1>3, <2>3
    <2>5. r \in UNION {f.rows[l].rating : f \in past}
        OBVIOUS
    <2> QED
        BY <1>9, <2>4, <2>5 DEF EarlierRatings
<1>11. \A r \in earlier : \E p \in points : p.count = r.count /\ p.seen = r.seen
    <2>1. SUFFICES ASSUME NEW r \in earlier PROVE \E p \in points : p.count = r.count /\ p.seen = r.seen
        OBVIOUS
    <2>2. PICK e \in past : r \in e.rows[l].rating
        BY DEF EarlierRatings
    <2>3. PICK p : p = [count |-> r.count, seen |-> r.seen, sha |-> e.sha]
        OBVIOUS
    <2>4. p \in all
        BY <2>2, <2>3
    <2>5. p.count = r.count /\ p.seen = r.seen
        BY <2>3
    <2>6. \E c \in rating : r.seen < c.seen
        BY DEF EarlierRatings
    <2> QED
        BY <1>1, <2>4, <2>5, <2>6
<1> QED
    BY <1>5, <1>6, <1>8, <1>9, <1>10, <1>11

LEMMA VelocityOfRatings ==
    ASSUME NEW known, Known(known), NEW priors \in Seq(known), NEW l,
           NEW rating \in SUBSET Ratings, IsOptional(rating),
           ~Conflicting(PriorPoints(l, rating, priors))
    PROVE  Longitudinal(rating, PriorPoints(l, rating, priors)).velocity =
               {[ratings |-> p[1].count - p[2].count, over |-> p[1].seen - p[2].seen] :
                   p \in {q \in rating \X Nearest(EarlierRatings(l, rating, ToSet(priors))) :
                             q[1].seen - q[2].seen >= Day}}
<1> DEFINE points == PriorPoints(l, rating, priors)
           earlier == EarlierRatings(l, rating, ToSet(priors))
           nearest == Nearest(earlier)
           velocity == Longitudinal(rating, points).velocity
           measured == {[ratings |-> p[1].count - p[2].count, over |-> p[1].seen - p[2].seen] :
                           p \in {q \in rating \X nearest : q[1].seen - q[2].seen >= Day}}
           cur == The(rating)
           prior == Selected(points)
           over == cur.seen - prior.seen
<1>1. /\ points \in SUBSET Points /\ earlier \in SUBSET Ratings /\ IsFiniteSet(points)
      /\ \A p \in points : \E c \in rating : p.seen < c.seen
      /\ \A p \in points : [count |-> p.count, seen |-> p.seen] \in earlier
      /\ \A r \in earlier : \E p \in points : p.count = r.count /\ p.seen = r.seen
    BY PointsAreRatings
<1>2. velocity = IF points = {} \/ over < Day THEN {}
                 ELSE {[ratings |-> cur.count - prior.count, over |-> over]}
    BY DEF Longitudinal
<1> HIDE DEF points, earlier, velocity, prior
<1>3. CASE points = {}
    <2>1. earlier = {}
        BY <1>1, <1>3
    <2>2. measured = {}
        BY <2>1 DEF Nearest
    <2> QED
        BY <1>2, <1>3, <2>2 DEF velocity, points, earlier
<1>4. CASE points # {}
    <2>1. /\ prior \in points /\ \A p \in points : p.seen <= prior.seen
          /\ \A p \in points : p.seen = prior.seen => p.count = prior.count
        BY <1>1, <1>4, SelectedIsLatest DEF prior, points
    <2>2. rating # {} /\ cur \in rating /\ \A c \in rating : c = cur
        BY <1>1, <1>4 DEF The, IsOptional
    <2>3. rating = {cur}
        BY <2>2
    <2> HIDE DEF cur
    <2>4. /\ cur.seen \in Nat /\ cur.count \in Nat /\ prior.seen \in Nat /\ prior.count \in Nat
          /\ \A p \in points : p.seen \in Nat
        BY <1>1, <2>1, <2>2 DEF Ratings, Points
    <2>5. \A r \in earlier : /\ r.seen \in Nat /\ r = [count |-> r.count, seen |-> r.seen]
        BY <1>1 DEF Ratings
    <2> DEFINE last == [count |-> prior.count, seen |-> prior.seen]
    <2>6. last \in earlier /\ last.seen = prior.seen /\ last.count = prior.count
        BY <1>1, <2>1
    <2> HIDE DEF last
    <2>7. nearest = {last}
        <3>1. \A r \in earlier : r.seen <= last.seen
            BY <1>1, <2>1, <2>6
        <3>2. last \in nearest
            BY <2>6, <3>1 DEF Nearest
        <3>3. \A r \in nearest : r = last
            <4>1. SUFFICES ASSUME NEW r \in nearest PROVE r = last
                OBVIOUS
            <4>2. r \in earlier /\ last.seen <= r.seen /\ r.seen <= last.seen
                BY <2>6, <3>1 DEF Nearest
            <4>3. r.seen = last.seen
                BY <2>4, <2>5, <2>6, <4>2
            <4>4. PICK p \in points : p.count = r.count /\ p.seen = r.seen
                BY <1>1, <4>2
            <4>5. r.count = last.count
                BY <2>1, <2>6, <4>3, <4>4
            <4> QED
                BY <2>5, <2>6, <4>2, <4>3, <4>5
        <3> QED
            BY <3>2, <3>3
    <2>8. measured = IF over < Day THEN {} ELSE {[ratings |-> cur.count - prior.count, over |-> over]}
        <3>1. measured = {[ratings |-> p[1].count - p[2].count, over |-> p[1].seen - p[2].seen] :
                             p \in {q \in {cur} \X {last} : q[1].seen - q[2].seen >= Day}}
            BY <2>3, <2>7
        <3>2. \A q : q \in {cur} \X {last} <=> q = <<cur, last>>
            OBVIOUS
        <3>3. CASE over < Day
            BY <2>4, <2>6, <3>1, <3>2, <3>3 DEF Day
        <3>4. CASE ~(over < Day)
            <4>1. {q \in {cur} \X {last} : q[1].seen - q[2].seen >= Day} = {<<cur, last>>}
                BY <2>4, <2>6, <3>2, <3>4 DEF Day
            <4>2. measured = {[ratings |-> cur.count - last.count, over |-> cur.seen - last.seen]}
                <5> DEFINE pairs == {q \in {cur} \X {last} : q[1].seen - q[2].seen >= Day}
                           Change(p) == [ratings |-> p[1].count - p[2].count, over |-> p[1].seen - p[2].seen]
                <5>1. measured = {Change(p) : p \in pairs} /\ pairs = {<<cur, last>>}
                    BY <3>1, <4>1
                <5>2. Change(<<cur, last>>) =
                          [ratings |-> cur.count - last.count, over |-> cur.seen - last.seen]
                    OBVIOUS
                <5> HIDE DEF Change, pairs, measured
                <5>3. measured = {Change(<<cur, last>>)}
                    BY <5>1
                <5> QED
                    BY <5>2, <5>3 DEF measured
            <4> QED
                BY <2>6, <3>4, <4>2
        <3> QED
            BY <3>3, <3>4
    <2> QED
        BY <1>2, <1>4, <2>8 DEF velocity, points, earlier
<1> QED
    BY <1>3, <1>4

-----------------------------------------------------------------------------
(* Intelligence artifacts.                                                 *)

TractionOf(c, priors) == Traction(ToSet(Listings(Suite)), c, Canonical(priors))

LEMMA BundleFields ==
    ASSUME NEW c, NEW priors, NEW supplied
    PROVE  /\ Bundle(c, priors, supplied).run = c.run
           /\ Bundle(c, priors, supplied).reviews = supplied
           /\ Bundle(c, priors, supplied).inputs = Inputs(c, priors, supplied)
           /\ \A y : y \in ToSet(Bundle(c, priors, supplied).theses) <=>
                 \E t \in ToSet(Suite) : y = ThesisReport(t, c, TractionOf(c, priors), supplied)
<1> DEFINE theses == [i \in DOMAIN Suite |-> ThesisReport(Suite[i], c, TractionOf(c, priors), supplied)]
<1>1. Bundle(c, priors, supplied) =
          [run |-> c.run, inputs |-> Inputs(c, priors, supplied), reviews |-> supplied,
           theses |-> theses]
    BY Zenon DEF Bundle, TractionOf
<1> HIDE DEF theses
<1>2. /\ Bundle(c, priors, supplied).run = c.run
      /\ Bundle(c, priors, supplied).reviews = supplied
      /\ Bundle(c, priors, supplied).inputs = Inputs(c, priors, supplied)
      /\ Bundle(c, priors, supplied).theses = theses
    BY <1>1
<1>3. \A y : y \in ToSet(theses) <=>
          \E i \in DOMAIN Suite : y = ThesisReport(Suite[i], c, TractionOf(c, priors), supplied)
    BY DEF ToSet, theses
<1>4. \A t : t \in ToSet(Suite) <=> \E i \in DOMAIN Suite : t = Suite[i]
    BY DEF ToSet
<1> QED
    BY <1>2, <1>3, <1>4

LEMMA ReportOfBundle ==
    ASSUME NEW c, NEW priors, NEW supplied, NEW x, x = Bundle(c, priors, supplied),
           NEW y \in ToSet(x.theses)
    PROVE  \E t \in ToSet(Suite) : y = ThesisReport(t, c, TractionOf(c, priors), supplied)
BY BundleFields

Own(supplied, t) == {v \in supplied : v.report.thesis = t}

LEMMA ReportFields ==
    ASSUME NEW t, NEW c, NEW rows, NEW supplied, NEW y, y = ThesisReport(t, c, rows, supplied)
    PROVE  /\ y.thesis = t /\ y.report = Report(c, t)
           /\ y.rows = [i \in DOMAIN Members[t] |-> rows[Members[t][i]]]
           /\ y.queue = Queue(Members[t], rows, Policy)
           /\ y.quality = Quality(y.report, Own(supplied, t), Queries[t], FoundBy[t])
           /\ y.comparison = ComparisonRow(y.report, Own(supplied, t), Members[t], rows, y.queue, y.quality)
<1> DEFINE report == Report(c, t)
           queue == Queue(Members[t], rows, Policy)
           quality == Quality(report, Own(supplied, t), Queries[t], FoundBy[t])
           shown == [i \in DOMAIN Members[t] |-> rows[Members[t][i]]]
           gates == [i \in DOMAIN Members[t] |-> {Gates(rows[Members[t][i]], p) : p \in Policy}]
           comparison == ComparisonRow(report, Own(supplied, t), Members[t], rows, queue, quality)
<1>1. y = [thesis |-> t, report |-> report, rows |-> shown, gates |-> gates, queue |-> queue,
           quality |-> quality, comparison |-> comparison]
    BY Zenon DEF ThesisReport, Own
<1> HIDE DEF report, queue, quality, shown, gates, comparison
<1>2. /\ y.thesis = t /\ y.report = report /\ y.rows = shown /\ y.queue = queue
      /\ y.quality = quality /\ y.comparison = comparison
    BY <1>1
<1> QED
    BY <1>2 DEF report, queue, quality, shown, comparison

(* The listings of a thesis of the suite have their rows.                  *)
LEMMA MembersHaveRows ==
    ASSUME NEW t \in ToSet(Suite), NEW l \in ToSet(Members[t])
    PROVE  l \in ToSet(Listings(Suite)) /\ t \in DOMAIN Members
<1>1. PICK i \in DOMAIN Suite : t = Suite[i]
    BY DEF ToSet
<1>2. l \in MembersOf(Suite)
    BY <1>1 DEF MembersOf
<1>3. Suite \in Seq(DOMAIN Members)
    BY SetsAssumption
<1> QED
    BY <1>1, <1>2, <1>3, ListingsListMembers

IsBuilt(x, known, written) ==
    \E c \in known, priors \in Seq(known), supplied \in SUBSET written :
        /\ Acceptable(c, priors, supplied)
        /\ x = Bundle(c, priors, supplied) /\ Sound(x)

IntelligenceInv ==
    /\ \A v \in reviews : \A l \in DOMAIN v.verdicts : v.verdicts[l] \in Verdicts
    /\ \A x \in intelligence : IsBuilt(x, experiments, reviews)

ThesisInv == CollectionInv /\ IntelligenceInv

LEMMA ThesisStarts == ThesisInit => ThesisInv
BY CollectionStarts DEF ThesisInit, ThesisInv, IntelligenceInv

LEMMA BuiltStaysBuilt ==
    ASSUME NEW x, NEW known, NEW more, NEW written, NEW longer,
           known \subseteq more, written \subseteq longer, IsBuilt(x, known, written)
    PROVE  IsBuilt(x, more, longer)
<1>1. PICK c \in known, priors \in Seq(known), supplied \in SUBSET written :
          /\ Acceptable(c, priors, supplied)
          /\ x = Bundle(c, priors, supplied) /\ Sound(x)
    BY DEF IsBuilt
<1>2. c \in more /\ priors \in Seq(more) /\ supplied \in SUBSET longer
    OBVIOUS
<1> QED
    BY <1>1, <1>2 DEF IsBuilt

LEMMA IntelligenceGrows ==
    ASSUME IntelligenceInv, experiments \subseteq experiments', reviews \subseteq reviews',
           \A v \in reviews' \ reviews : \A l \in DOMAIN v.verdicts : v.verdicts[l] \in Verdicts,
           \A x \in intelligence' \ intelligence : IsBuilt(x, experiments', reviews')
    PROVE  IntelligenceInv'
BY BuiltStaysBuilt DEF IntelligenceInv

LEMMA ReviewIsOfOpinions ==
    ASSUME CollectionInv, NEW e \in experiments, NEW i \in DOMAIN e.scope,
           NEW verdicts \in Judgements(Direct(Report(e, e.scope[i])))
    PROVE  \A l \in DOMAIN verdicts : verdicts[l] \in Verdicts
<1> DEFINE t == e.scope[i]
<1>1. Known(experiments)
    BY DEF CollectionInv, ArtifactsInv, Known
<1>2. t \in DOMAIN Members
    BY <1>1, KnownTypes
<1>3. DOMAIN Report(e, t).rows = ToSet(Members[t])
    BY DEF Report
<1>4. Direct(Report(e, t)) \subseteq ToSet(Members[t])
    BY <1>3 DEF Direct, Of
<1>5. PICK judged \in SUBSET Direct(Report(e, t)) : verdicts = [l \in judged |-> Opinion[l]]
    BY DEF Judgements
<1>6. \A l \in judged : Opinion[l] \in Verdicts
    BY <1>2, <1>4, ListingsAssumption
<1> QED
    BY <1>5, <1>6

LEMMA BuildIsBuilt ==
    ASSUME NEW c \in experiments, NEW priors \in Histories, NEW supplied \in SUBSET reviews,
           Build(c, priors, supplied)
    PROVE  \A x \in intelligence' \ intelligence : IsBuilt(x, experiments, reviews)
<1>1. priors \in Seq(experiments)
    BY DEF Histories
<1>2. /\ Acceptable(c, priors, supplied) /\ Sound(Bundle(c, priors, supplied))
      /\ intelligence' = intelligence \cup {Bundle(c, priors, supplied)}
    BY DEF Build
<1> QED
    BY <1>1, <1>2 DEF IsBuilt

LEMMA ThesisStepKeepsInv == ThesisInv /\ [ThesisNext]_thesisVars => ThesisInv'
<1> SUFFICES ASSUME ThesisInv, [ThesisNext]_thesisVars PROVE ThesisInv'
    OBVIOUS
<1>1. CollectionInv /\ IntelligenceInv
    BY DEF ThesisInv
<1>2. ASSUME UNCHANGED <<reviews, intelligence>>, experiments \subseteq experiments'
      PROVE  IntelligenceInv'
    BY <1>1, <1>2, IntelligenceGrows
<1>3. ASSUME NEW r \in Runs, FailAttempt(r) \/ RefuseSnapshot(r) PROVE ThesisInv'
    <2>1. UNCHANGED <<reviews, intelligence, experiments>>
        BY <1>3 DEF FailAttempt, RefuseSnapshot
    <2> QED
        BY <1>1, <1>2, <1>3, <2>1, FailureKeepsCollection DEF ThesisInv
<1>4. ASSUME NEW r \in Runs, Freeze(r) PROVE ThesisInv'
    <2>1. UNCHANGED <<reviews, intelligence>> /\ experiments \subseteq experiments'
        BY <1>4 DEF Freeze
    <2> QED
        BY <1>1, <1>2, <1>4, <2>1, FreezeKeepsCollection DEF ThesisInv
<1>5. ASSUME NEW r \in Runs, NEW time \in (now + 1)..MaxNow, Start(r, time) PROVE ThesisInv'
    <2>1. UNCHANGED <<reviews, intelligence, experiments>>
        BY <1>5 DEF Start
    <2> QED
        BY <1>1, <1>2, <1>5, <2>1, StartKeepsCollection DEF ThesisInv
<1>6. ASSUME NEW r \in Runs, NEW time \in (now + 1)..MaxNow, Resume(r, time) PROVE ThesisInv'
    <2>1. UNCHANGED <<reviews, intelligence, experiments>>
        BY <1>6 DEF Resume
    <2> QED
        BY <1>1, <1>2, <1>6, <2>1, ResumeKeepsCollection DEF ThesisInv
<1>7. ASSUME NEW r \in Runs, NEW missing, CollectBatch(r, missing) PROVE ThesisInv'
    <2>1. UNCHANGED <<reviews, intelligence, experiments>>
        BY <1>7 DEF CollectBatch
    <2> QED
        BY <1>1, <1>2, <1>7, <2>1, BatchKeepsCollection DEF ThesisInv
<1>8. ASSUME NEW e \in experiments, NEW i \in DOMAIN e.scope,
             NEW verdicts \in Judgements(Direct(Report(e, e.scope[i]))),
             Review(e, e.scope[i], verdicts)
      PROVE  ThesisInv'
    <2>1. /\ UNCHANGED <<now, attempts, experiments, intelligence>>
          /\ reviews' = reviews \cup {[report |-> Report(e, e.scope[i]), verdicts |-> verdicts]}
        BY <1>8 DEF Review
    <2>2. \A v \in reviews' \ reviews : v.verdicts = verdicts
        BY <2>1
    <2>3. \A l \in DOMAIN verdicts : verdicts[l] \in Verdicts
        BY <1>1, ReviewIsOfOpinions
    <2>4. CollectionInv'
        BY <1>1, <2>1, CollectionStandsStill
    <2>5. IntelligenceInv'
        BY <1>1, <2>1, <2>2, <2>3, IntelligenceGrows
    <2> QED
        BY <2>4, <2>5 DEF ThesisInv
<1>9. ASSUME NEW c \in experiments, NEW priors \in Histories, NEW supplied \in SUBSET reviews,
             Build(c, priors, supplied)
      PROVE  ThesisInv'
    <2>1. UNCHANGED <<now, attempts, experiments, reviews>>
        BY <1>9 DEF Build
    <2>2. \A x \in intelligence' \ intelligence : IsBuilt(x, experiments', reviews')
        BY <1>9, <2>1, BuildIsBuilt
    <2>3. CollectionInv'
        BY <1>1, <2>1, CollectionStandsStill
    <2>4. IntelligenceInv'
        BY <1>1, <2>1, <2>2, IntelligenceGrows
    <2> QED
        BY <2>3, <2>4 DEF ThesisInv
<1>10. CASE UNCHANGED thesisVars
    <2>1. UNCHANGED <<now, attempts, experiments, reviews, intelligence>>
        BY <1>10 DEF thesisVars
    <2> QED
        BY <1>1, <1>2, <2>1, CollectionStandsStill DEF ThesisInv
<1>11. CASE ThesisNext
    BY <1>3, <1>4, <1>5, <1>6, <1>7, <1>8, <1>9, <1>11 DEF ThesisNext
<1> QED
    BY <1>10, <1>11

(* Whatever runs fail, are resumed and publish, and whatever is reviewed   *)
(* and built from what they published: an artifact is made of what its own *)
(* invocation was answered, a run publishes one at most, and intelligence  *)
(* is the bundle of inputs that were accepted (_run_in_workdir, resume and *)
(* build_thesis_intelligence_artifact).                                    *)
THEOREM ThesisInvariance == ThesisSpec => []ThesisInv
<1>1. ThesisInit => ThesisInv
    BY ThesisStarts
<1>2. ThesisInv /\ [ThesisNext]_thesisVars => ThesisInv'
    BY ThesisStepKeepsInv
<1> QED
    BY <1>1, <1>2, PTL DEF ThesisSpec

(* What an experiment artifact says of a listing comes from one response   *)
(* to the invocation that published it: batches never share a listing, and *)
(* a resumed run binds only what it asked for itself.                      *)
THEOREM EvidenceOfTheLastAttempt == ThesisSpec => []EvidenceIsOfTheLastAttempt
<1>1. ThesisInv => EvidenceIsOfTheLastAttempt
    BY DEF ThesisInv, CollectionInv, ArtifactsInv, EvidenceIsOfTheLastAttempt
<1> QED
    BY <1>1, ThesisInvariance, PTL

-----------------------------------------------------------------------------
(* What an artifact is built from, as its properties see it.               *)

LEMMA ArtifactsAreKnown == ThesisInv => Known(experiments)
BY DEF ThesisInv, CollectionInv, ArtifactsInv, Known

(* The artifacts that the inputs name are those of the history.            *)
LEMMA PastIsHistory ==
    ASSUME Known(experiments), NEW c, NEW priors \in Seq(experiments), NEW supplied,
           NEW x, x.inputs = Inputs(c, priors, supplied)
    PROVE  Past(x) = ToSet(priors)
<1> DEFINE canonical == Canonical(priors)
<1>1. /\ canonical \in Seq(experiments) /\ DOMAIN canonical = DOMAIN priors
      /\ ToSet(canonical) = ToSet(priors)
    BY CanonicalIsSorted
<1>2. x.inputs.priors = [i \in DOMAIN priors |-> Binding(canonical[i])]
    BY DEF Inputs
<1> HIDE DEF canonical
<1>3. \A e, f \in experiments : Binding(e) = Binding(f) => e = f
    <2>1. \A e : Binding(e).run = e.run
        BY DEF Binding
    <2> QED
        BY <2>1 DEF Known
<1>4. \A i \in DOMAIN priors : canonical[i] \in experiments
    BY <1>1
<1>5. \A e : e \in Past(x) <=> e \in experiments /\ \E i \in DOMAIN priors : Binding(canonical[i]) = Binding(e)
    BY <1>2 DEF Past
<1>6. \A e : e \in Past(x) <=> \E i \in DOMAIN priors : canonical[i] = e
    BY <1>3, <1>4, <1>5
<1>7. \A e : e \in ToSet(canonical) <=> \E i \in DOMAIN priors : canonical[i] = e
    BY <1>1 DEF ToSet
<1>8. \A e : e \in Past(x) <=> e \in ToSet(priors)
    BY <1>1, <1>6, <1>7
<1> QED
    BY <1>8

(* A listing that a report shows has the row of the traction.              *)
LEMMA ShownRow ==
    ASSUME NEW c, NEW priors, NEW supplied, NEW x, x = Bundle(c, priors, supplied),
           NEW entry \in Rows(x)
    PROVE  /\ entry[1] \in ToSet(Listings(Suite))
           /\ entry[2] = TractionOf(c, priors)[entry[1]]
<1>1. PICK y \in ToSet(x.theses) : \E i \in DOMAIN y.rows :
          entry = <<Members[y.thesis][i], y.rows[i]>>
    BY DEF Rows
<1>2. PICK t \in ToSet(Suite) : y = ThesisReport(t, c, TractionOf(c, priors), supplied)
    BY <1>1, ReportOfBundle
<1>3. /\ y.thesis = t
      /\ y.rows = [j \in DOMAIN Members[t] |-> TractionOf(c, priors)[Members[t][j]]]
    BY <1>2, ReportFields
<1>4. PICK i \in DOMAIN Members[t] :
          entry[1] = Members[t][i] /\ entry[2] = TractionOf(c, priors)[Members[t][i]]
    BY <1>1, <1>3
<1>5. Members[t][i] \in ToSet(Members[t])
    BY <1>4 DEF ToSet
<1> QED
    BY <1>4, <1>5, MembersHaveRows

(* The row that the validator of a report looks up.                        *)
LookedUp(y, l) ==
    The({y.rows[i] : i \in {j \in DOMAIN Members[y.thesis] : Members[y.thesis][j] = l}})

LEMMA RowLookedUp ==
    ASSUME NEW t \in DOMAIN Members, NEW rows, NEW y, y.thesis = t,
           y.rows = [i \in DOMAIN Members[t] |-> rows[Members[t][i]]],
           NEW l \in ToSet(Members[t])
    PROVE  LookedUp(y, l) = rows[l]
<1>1. PICK k \in DOMAIN Members[t] : Members[t][k] = l
    BY DEF ToSet
<1>2. {j \in DOMAIN Members[t] : Members[t][j] = l} = {k}
    BY <1>1, SetsAreSequences
<1>3. y.rows[k] = rows[l]
    BY <1>1
<1>4. {y.rows[i] : i \in {j \in DOMAIN Members[t] : Members[t][j] = l}} = {rows[l]}
    BY <1>2, <1>3
<1> QED
    BY <1>4 DEF The, LookedUp

(* A policy that asks for a velocity lets no listing pass without one.     *)
LEMMA CandidateHasVelocity ==
    ASSUME NEW row, NEW p \in Policy, p.min_delta # {},
           \E q \in Policy : IsCandidate(row, q)
    PROVE  row.longitudinal.velocity # {}
<1>1. IsCandidate(row, p)
    BY PolicyAssumption DEF IsOptional
<1>2. Gates(row, p)[5] \in ToSet(Gates(row, p))
    <2>1. \A a, b, c, d, e : <<a, b, c, d, e>>[5] = e /\ e \in ToSet(<<a, b, c, d, e>>)
        BY DEF ToSet
    <2> QED
        BY <2>1 DEF Gates
<1>3. Gates(row, p)[5] \in {"not_configured", "pass"}
    BY <1>1, <1>2 DEF IsCandidate
<1>4. Gates(row, p)[5] =
          Gate(p.min_delta, row.longitudinal.velocity,
               \A t \in p.min_delta, v \in row.longitudinal.velocity : AtLeastPerDay(v, t))
    BY DEF Gates
<1>5. row.longitudinal.velocity = {} => Gates(row, p)[5] = "unknown"
    BY <1>4 DEF Gate
<1> QED
    BY <1>3, <1>5

LEMMA QueuedHasVelocity ==
    ASSUME NEW c, NEW priors, NEW supplied, NEW x, x = Bundle(c, priors, supplied), Sound(x),
           NEW y \in ToSet(x.theses), NEW l \in ToSet(y.queue), NEW p \in Policy, p.min_delta # {}
    PROVE  TractionOf(c, priors)[l].longitudinal.velocity # {}
<1>1. PICK t \in ToSet(Suite) : y = ThesisReport(t, c, TractionOf(c, priors), supplied)
    BY ReportOfBundle
<1>2. /\ y.thesis = t
      /\ y.rows = [i \in DOMAIN Members[t] |-> TractionOf(c, priors)[Members[t][i]]]
    BY <1>1, ReportFields
<1>3. SoundReport(y)
    BY DEF Sound
<1> DEFINE found == [m \in ToSet(Members[t]) |-> LookedUp(y, m)]
<1>4. SoundQueue(y.queue, Members[t], found, Policy)
    BY <1>2, <1>3 DEF SoundReport, LookedUp
<1>5. l \in ToSet(Members[t]) /\ \E q \in Policy : IsCandidate(found[l], q)
    BY <1>4 DEF SoundQueue, Candidates
<1>6. t \in DOMAIN Members
    BY <1>5, MembersHaveRows
<1>7. found[l] = TractionOf(c, priors)[l]
    BY <1>2, <1>5, <1>6, RowLookedUp
<1> HIDE DEF found
<1> QED
    BY <1>5, <1>7, CandidateHasVelocity

LEMMA BuiltVelocityIsMeasured ==
    ASSUME ThesisInv, NEW x \in intelligence, NEW entry \in Rows(x)
    PROVE  LET l == entry[1]
               row == entry[2]
               nearest == Nearest(EarlierRatings(l, row.rating, Past(x)))
           IN /\ row.longitudinal.velocity =
                    {[ratings |-> p[1].count - p[2].count, over |-> p[1].seen - p[2].seen] :
                        p \in {q \in row.rating \X nearest : q[1].seen - q[2].seen >= Day}}
              /\ \A y \in ToSet(x.theses) : (l \in ToSet(y.queue) /\ \E p \in Policy : p.min_delta # {})
                    => row.longitudinal.velocity # {}
<1> DEFINE l == entry[1]
           row == entry[2]
<1>1. PICK c \in experiments, priors \in Seq(experiments), supplied \in SUBSET reviews :
          /\ Acceptable(c, priors, supplied)
          /\ x = Bundle(c, priors, supplied) /\ Sound(x)
    BY DEF ThesisInv, IntelligenceInv, IsBuilt
<1>2. Known(experiments)
    BY ArtifactsAreKnown
<1> DEFINE listings == ToSet(Listings(Suite))
           canonical == Canonical(priors)
           rating == c.rows[l].rating
<1>3. /\ l \in listings /\ row = TractionOf(c, priors)[l]
    BY <1>1, ShownRow
<1>4. /\ row.rating = rating
      /\ row.longitudinal = Longitudinal(row.rating, PriorPoints(l, row.rating, canonical))
    <2>1. row = Traction(listings, c, canonical)[l]
        BY <1>3 DEF TractionOf
    <2> HIDE DEF row, l, listings, canonical
    <2> QED
        <3>1. IsRowOf(row, l, c, canonical, Derivations(listings, c, canonical))
            BY <1>3, <2>1, RowOfTraction, Zenon
        <3> QED
            BY <3>1 DEF IsRowOf
<1>5. /\ canonical \in Seq(experiments) /\ ToSet(canonical) = ToSet(priors)
    BY <1>2, CanonicalIsSorted
<1>6. Past(x) = ToSet(canonical)
    BY <1>1, <1>2, <1>5, BundleFields, PastIsHistory
<1>7. l \in DOMAIN c.rows
    <2>1. c.scope = Suite
        BY <1>1 DEF Acceptable
    <2>2. DOMAIN c.rows = MembersOf(Suite)
        BY <1>2, <2>1, KnownTypes
    <2> QED
        BY <1>3, <2>2, ListingsListMembers, SetsAssumption
<1>8. rating \in SUBSET Ratings /\ IsOptional(rating)
    BY <1>2, <1>7, KnownTypes
<1>9. ~Conflicting(PriorPoints(l, rating, canonical))
    <2>1. ~Conflicting(PriorPoints(l, rating, priors))
        BY <1>1, <1>3 DEF Acceptable, Derivable
    <2>2. PriorPoints(l, rating, canonical) = PriorPoints(l, rating, priors)
        BY <1>5 DEF PriorPoints
    <2> QED
        BY <2>1, <2>2
<1>10. row.longitudinal.velocity =
           {[ratings |-> p[1].count - p[2].count, over |-> p[1].seen - p[2].seen] :
               p \in {q \in row.rating \X Nearest(EarlierRatings(l, row.rating, Past(x))) :
                         q[1].seen - q[2].seen >= Day}}
    <2> HIDE DEF row, l, rating, canonical
    <2> QED
        BY <1>2, <1>4, <1>5, <1>6, <1>8, <1>9, VelocityOfRatings
<1>11. ASSUME NEW y \in ToSet(x.theses), l \in ToSet(y.queue), NEW p \in Policy, p.min_delta # {}
       PROVE  row.longitudinal.velocity # {}
    <2> HIDE DEF row, l
    <2> QED
        BY <1>1, <1>3, <1>11, QueuedHasVelocity
<1> QED
    BY <1>10, <1>11

(* Velocities are measured against the nearest earlier rating that any     *)
(* artifact of the history holds, in whatever order they were supplied.    *)
THEOREM VelocitiesAreMeasured == ThesisSpec => []VelocityIsMeasured
<1>1. ThesisInv => VelocityIsMeasured
    BY BuiltVelocityIsMeasured DEF VelocityIsMeasured
<1> QED
    BY <1>1, ThesisInvariance, PTL

-----------------------------------------------------------------------------
(* Reviews.                                                                *)

(* What a report counts of its listings and of the reviews.                *)
IsQuality(quality, report, own, queries, foundBy) ==
    /\ quality.union = Cardinality(DOMAIN report.rows)
    /\ quality.sourced = Cardinality({l \in DOMAIN report.rows : report.rows[l].source})
    /\ quality.directness = [d \in ToSet(Directnesses) |-> Cardinality(Of(report, d))]
    /\ quality.reviewed = Cardinality(Judged(own, Verdicts))
    /\ quality.confirmed = Cardinality(Judged(own, {"confirmed_direct"}))
    /\ quality.rejected = Cardinality(Judged(own, {"adjacent", "not_direct"}))
    /\ quality.unresolved = Cardinality(Judged(own, {"unresolved"}))
    /\ quality.state = ReviewState(Direct(report), Judged(own, Verdicts),
                                   Judged(own, {"confirmed_direct"}))
    /\ quality.surface = Surface(queries, DOMAIN report.rows, foundBy)

LEMMA QualityFields ==
    ASSUME NEW report, NEW own, NEW queries, NEW foundBy
    PROVE  IsQuality(Quality(report, own, queries, foundBy), report, own, queries, foundBy)
BY DEF Quality, IsQuality

LEMMA HighlightIsAmong ==
    ASSUME NEW among, NEW members, NEW ahead
    PROVE  Highlight(among, members, ahead) \subseteq among
BY DEF Highlight

(* What a row of the comparison takes from the report of its thesis.       *)
IsComparison(row, own, members, rows, queue, quality) ==
    /\ row.union = quality.union
    /\ row.direct = quality.directness["direct_candidate"]
    /\ row.adjacent = quality.directness["adjacent_candidate"]
    /\ row.confirmed = quality.confirmed /\ row.unresolved = quality.unresolved
    /\ row.fresh_confirmed =
          Cardinality({l \in Judged(own, {"confirmed_direct"}) : Fresh(rows[l])})
    /\ row.anomalies = Len(queue)
    /\ row.longitudinal = Cardinality({l \in ToSet(members) : rows[l].longitudinal.velocity # {}})
    /\ row.best_rating \cup row.best_pace \subseteq Judged(own, {"confirmed_direct"})

LEMMA ComparisonFields ==
    ASSUME NEW report, NEW own, NEW members, NEW rows, NEW queue, NEW quality
    PROVE  IsComparison(ComparisonRow(report, own, members, rows, queue, quality),
                        own, members, rows, queue, quality)
<1> DEFINE confirmed == Judged(own, {"confirmed_direct"})
           rated == {l \in ToSet(members) : rows[l].rating # {}}
           paced == {l \in ToSet(members) : rows[l].pace # {}}
           moreRated == {p \in rated \X rated : MoreRated(rows[p[1]], rows[p[2]])}
           faster == {p \in paced \X paced : Faster(rows[p[1]], rows[p[2]])}
           row == ComparisonRow(report, own, members, rows, queue, quality)
<1>1. /\ Highlight(confirmed \cap rated, members, moreRated) \subseteq confirmed
      /\ Highlight(confirmed \cap paced, members, faster) \subseteq confirmed
    <2> HIDE DEF confirmed, rated, paced, moreRated, faster
    <2> QED
        BY HighlightIsAmong
<1>2. /\ row.best_rating = Highlight(confirmed \cap rated, members, moreRated)
      /\ row.best_pace = Highlight(confirmed \cap paced, members, faster)
    BY DEF ComparisonRow
<1>3. /\ row.union = quality.union
      /\ row.direct = quality.directness["direct_candidate"]
      /\ row.adjacent = quality.directness["adjacent_candidate"]
      /\ row.confirmed = quality.confirmed /\ row.unresolved = quality.unresolved
      /\ row.fresh_confirmed = Cardinality({l \in confirmed : Fresh(rows[l])})
      /\ row.anomalies = Len(queue)
      /\ row.longitudinal = Cardinality({l \in ToSet(members) : rows[l].longitudinal.velocity # {}})
    BY DEF ComparisonRow
<1> HIDE DEF row
<1>4. IsComparison(row, own, members, rows, queue, quality)
    BY <1>1, <1>2, <1>3 DEF IsComparison
<1> QED
    BY <1>4 DEF row

(* The reviews of a thesis that fit judge what its report shows.           *)
FitsAll(own, report) ==
    \A v \in own : /\ v.report = report
                   /\ DOMAIN v.verdicts \subseteq Direct(report)
                   /\ \A l \in DOMAIN v.verdicts : v.verdicts[l] \in Verdicts

LEMMA OwnReviewsFit ==
    ASSUME IntelligenceInv, NEW c, NEW priors, NEW supplied \in SUBSET reviews,
           Acceptable(c, priors, supplied), NEW t
    PROVE  FitsAll(Own(supplied, t), Report(c, t))
<1>1. \A v \in supplied : Fits(v, c)
    BY DEF Acceptable
<1>2. \A v \in Own(supplied, t) :
          /\ v.report = Report(c, t)
          /\ DOMAIN v.verdicts \subseteq Direct(v.report)
    BY <1>1 DEF Own, Fits
<1> QED
    BY <1>2 DEF FitsAll, Own, IntelligenceInv

LEMMA JudgedAreDirect ==
    ASSUME NEW own, NEW report, FitsAll(own, report), NEW verdicts
    PROVE  Judged(own, verdicts) \subseteq Direct(report)
BY DEF FitsAll, Judged

LEMMA DirectIsFinite ==
    ASSUME NEW c, NEW t \in DOMAIN Members
    PROVE  /\ Direct(Report(c, t)) \subseteq ToSet(Members[t])
           /\ DOMAIN Report(c, t).rows = ToSet(Members[t])
           /\ IsFiniteSet(ToSet(Members[t])) /\ IsFiniteSet(Direct(Report(c, t)))
<1>1. DOMAIN Report(c, t).rows = ToSet(Members[t])
    BY DEF Report
<1>2. Direct(Report(c, t)) \subseteq ToSet(Members[t])
    BY <1>1 DEF Direct, Of
<1>3. Members[t] \in Seq(Nat)
    BY SetsAssumption
<1>4. IsFiniteSet(ToSet(Members[t]))
    BY <1>3, DistinctHistory
<1> QED
    BY <1>1, <1>2, <1>4, FS_Subset

(* What a report of a bundle holds.                                        *)
IsReportOf(y, t, c, rows, supplied) ==
    /\ y.thesis = t /\ y.report = Report(c, t)
    /\ y.rows = [i \in DOMAIN Members[t] |-> rows[Members[t][i]]]
    /\ y.queue = Queue(Members[t], rows, Policy)
    /\ IsQuality(y.quality, y.report, Own(supplied, t), Queries[t], FoundBy[t])
    /\ IsComparison(y.comparison, Own(supplied, t), Members[t], rows, y.queue, y.quality)

LEMMA ReportShows ==
    ASSUME NEW c, NEW priors, NEW supplied, NEW x, x = Bundle(c, priors, supplied),
           NEW y \in ToSet(x.theses)
    PROVE  \E t \in ToSet(Suite) : IsReportOf(y, t, c, TractionOf(c, priors), supplied)
<1>1. PICK t \in ToSet(Suite) : y = ThesisReport(t, c, TractionOf(c, priors), supplied)
    BY ReportOfBundle
<1>2. /\ y.thesis = t /\ y.report = Report(c, t)
      /\ y.rows = [i \in DOMAIN Members[t] |-> TractionOf(c, priors)[Members[t][i]]]
      /\ y.queue = Queue(Members[t], TractionOf(c, priors), Policy)
      /\ y.quality = Quality(y.report, Own(supplied, t), Queries[t], FoundBy[t])
      /\ y.comparison = ComparisonRow(y.report, Own(supplied, t), Members[t],
                                      TractionOf(c, priors), y.queue, y.quality)
    BY <1>1, ReportFields
<1>3. /\ IsQuality(y.quality, y.report, Own(supplied, t), Queries[t], FoundBy[t])
      /\ IsComparison(y.comparison, Own(supplied, t), Members[t], TractionOf(c, priors),
                      y.queue, y.quality)
    BY <1>2, QualityFields, ComparisonFields
<1> QED
    BY <1>2, <1>3 DEF IsReportOf

(* A review that an artifact shows, of one of its direct candidates.       *)
Judgings(x, y) ==
    {j \in x.reviews \X Direct(y.report) :
        /\ j[1].report.thesis = y.thesis /\ j[1].report.run = x.run
        /\ j[2] \in DOMAIN j[1].verdicts}
ConfirmedIn(x, y) ==
    {l \in Direct(y.report) :
        \E j \in Judgings(x, y) : j[2] = l /\ j[1].verdicts[l] = "confirmed_direct"}

LEMMA JudgingsAreJudged ==
    ASSUME NEW x, NEW y, FitsAll(Own(x.reviews, y.thesis), y.report),
           y.report.thesis = y.thesis, y.report.run = x.run
    PROVE  /\ {j[2] : j \in Judgings(x, y)} = Judged(Own(x.reviews, y.thesis), Verdicts)
           /\ ConfirmedIn(x, y) = Judged(Own(x.reviews, y.thesis), {"confirmed_direct"})
<1> DEFINE own == Own(x.reviews, y.thesis)
<1>1. \A v : v \in own <=> v \in x.reviews /\ v.report.thesis = y.thesis
    BY DEF Own
<1>2. \A v \in own : /\ v.report = y.report /\ DOMAIN v.verdicts \subseteq Direct(y.report)
                     /\ \A l \in DOMAIN v.verdicts : v.verdicts[l] \in Verdicts
    BY DEF FitsAll
<1> HIDE DEF own
<1>3. \A v, l : (v \in own /\ l \in DOMAIN v.verdicts) <=> <<v, l>> \in Judgings(x, y)
    BY <1>1, <1>2 DEF Judgings
<1>4. \A j \in Judgings(x, y) : j = <<j[1], j[2]>> /\ j[1] \in own /\ j[2] \in DOMAIN j[1].verdicts
    BY <1>1 DEF Judgings
<1>5. \A verdicts : \A l : l \in Judged(own, verdicts) <=>
          \E v \in own : l \in DOMAIN v.verdicts /\ v.verdicts[l] \in verdicts
    BY DEF Judged
<1>6. \A l : (\E j \in Judgings(x, y) : j[2] = l) <=> l \in Judged(own, Verdicts)
    <2>1. ASSUME NEW j \in Judgings(x, y) PROVE j[2] \in Judged(own, Verdicts)
        BY <1>2, <1>4, <1>5
    <2>2. ASSUME NEW l \in Judged(own, Verdicts) PROVE \E j \in Judgings(x, y) : j[2] = l
        <3>1. PICK v \in own : l \in DOMAIN v.verdicts
            BY <1>5
        <3>2. <<v, l>> \in Judgings(x, y) /\ <<v, l>>[2] = l
            BY <1>3, <3>1
        <3> QED
            BY <3>2
    <2> QED
        BY <2>1, <2>2
<1>7. ASSUME NEW l \in Judged(own, {"confirmed_direct"})
      PROVE  /\ l \in Direct(y.report)
             /\ \E j \in Judgings(x, y) : j[2] = l /\ j[1].verdicts[l] = "confirmed_direct"
    <2>1. PICK v \in own : l \in DOMAIN v.verdicts /\ v.verdicts[l] \in {"confirmed_direct"}
        BY <1>5
    <2>2. <<v, l>> \in Judgings(x, y) /\ <<v, l>>[2] = l /\ <<v, l>>[1] = v
        BY <1>3, <2>1
    <2> QED
        BY <1>2, <2>1, <2>2
<1>8. ASSUME NEW j \in Judgings(x, y), j[1].verdicts[j[2]] = "confirmed_direct"
      PROVE  j[2] \in Judged(own, {"confirmed_direct"})
    BY <1>4, <1>5, <1>8
<1>9. ConfirmedIn(x, y) = Judged(own, {"confirmed_direct"})
    BY <1>7, <1>8 DEF ConfirmedIn
<1>10. {j[2] : j \in Judgings(x, y)} = Judged(own, Verdicts)
    BY <1>6
<1> QED
    BY <1>9, <1>10 DEF own

LEMMA BuiltReviewsBind ==
    ASSUME ThesisInv, NEW x \in intelligence, NEW y \in ToSet(x.theses)
    PROVE  LET judged == {j \in x.reviews \X Direct(y.report) :
                             /\ j[1].report.thesis = y.thesis /\ j[1].report.run = x.run
                             /\ j[2] \in DOMAIN j[1].verdicts}
               confirmed == {l \in Direct(y.report) :
                                \E j \in judged : j[2] = l /\ j[1].verdicts[l] = "confirmed_direct"}
           IN /\ y.quality.reviewed = Cardinality({j[2] : j \in judged})
              /\ y.quality.confirmed = Cardinality(confirmed)
              /\ y.comparison.fresh_confirmed <= Cardinality(confirmed)
              /\ y.comparison.best_rating \cup y.comparison.best_pace \subseteq confirmed
              /\ y.quality.state = "all_reviewed_with_confirmed" =>
                    confirmed # {} /\ {j[2] : j \in judged} = Direct(y.report)
<1>1. PICK c \in experiments, priors \in Seq(experiments), supplied \in SUBSET reviews :
          /\ Acceptable(c, priors, supplied)
          /\ x = Bundle(c, priors, supplied) /\ Sound(x)
    BY DEF ThesisInv, IntelligenceInv, IsBuilt
<1>2. PICK t \in ToSet(Suite) : IsReportOf(y, t, c, TractionOf(c, priors), supplied)
    BY <1>1, ReportShows
<1> DEFINE rows == TractionOf(c, priors)
           own == Own(supplied, t)
           judged == Judgings(x, y)
           confirmed == ConfirmedIn(x, y)
           reviewed == {j[2] : j \in judged}
<1> HIDE DEF rows
<1>3. /\ y.thesis = t /\ y.report = Report(c, t)
      /\ IsQuality(y.quality, y.report, own, Queries[t], FoundBy[t])
      /\ IsComparison(y.comparison, own, Members[t], rows, y.queue, y.quality)
    BY <1>2 DEF IsReportOf, rows
<1>4. x.run = c.run /\ x.reviews = supplied
    BY <1>1, BundleFields
<1>5. y.report.thesis = t /\ y.report.run = c.run
    BY <1>3 DEF Report
<1>6. FitsAll(own, y.report)
    BY <1>1, <1>3, OwnReviewsFit DEF ThesisInv
<1>8. own = Own(x.reviews, y.thesis) /\ y.report.thesis = y.thesis /\ y.report.run = x.run
    BY <1>3, <1>4, <1>5
<1> HIDE DEF own
<1>9. reviewed = Judged(own, Verdicts) /\ confirmed = Judged(own, {"confirmed_direct"})
    BY <1>6, <1>8, JudgingsAreJudged
<1>10. y.comparison.fresh_confirmed <= Cardinality(confirmed)
    <2>1. t \in DOMAIN Members
        BY SetsAssumption DEF ToSet
    <2>2. IsFiniteSet(Direct(y.report))
        BY <1>3, <2>1, DirectIsFinite
    <2>3. IsFiniteSet(Judged(own, {"confirmed_direct"}))
        BY <1>6, <2>2, JudgedAreDirect, FS_Subset
    <2>4. y.comparison.fresh_confirmed =
              Cardinality({l \in Judged(own, {"confirmed_direct"}) : Fresh(rows[l])})
        BY <1>3 DEF IsComparison
    <2>5. {l \in Judged(own, {"confirmed_direct"}) : Fresh(rows[l])}
              \subseteq Judged(own, {"confirmed_direct"})
        OBVIOUS
    <2> QED
        BY <1>9, <2>3, <2>4, <2>5, FS_Subset
<1>11. /\ y.quality.reviewed = Cardinality(reviewed)
       /\ y.quality.confirmed = Cardinality(confirmed)
       /\ y.comparison.best_rating \cup y.comparison.best_pace \subseteq confirmed
    BY <1>3, <1>9 DEF IsQuality, IsComparison
<1>12. y.quality.state = "all_reviewed_with_confirmed" =>
           confirmed # {} /\ reviewed = Direct(y.report)
    <2>1. y.quality.state = ReviewState(Direct(y.report), Judged(own, Verdicts),
                                        Judged(own, {"confirmed_direct"}))
        BY <1>3 DEF IsQuality
    <2> QED
        BY <1>9, <2>1 DEF ReviewState
<1> QED
    BY <1>10, <1>11, <1>12 DEF Judgings, ConfirmedIn

(* A verdict counts only for the listing, thesis and run it was given on,  *)
(* and a competitor is called confirmed on no other ground.                *)
THEOREM ReviewsAreBound == ThesisSpec => []ReviewsBindTheirEvidence
<1>1. ThesisInv => ReviewsBindTheirEvidence
    BY BuiltReviewsBind DEF ReviewsBindTheirEvidence
<1> QED
    BY <1>1, ThesisInvariance, PTL

-----------------------------------------------------------------------------
(* Artifacts reproduce.                                                    *)

EarlierIn(set) == {p \in set \X set : Earlier(p[1], p[2])}

LEMMA EarlierIsStrict ==
    ASSUME NEW known, Known(known), NEW set \in SUBSET known
    PROVE  StrictOrder(set, EarlierIn(set))
<1>1. \A e \in set : e.at \in Nat /\ e.run \in Nat
    BY KnownTypes
<1>2. \A e, f \in set : e.run = f.run => e = f
    BY DEF Known
<1>3. \A e, f \in set : <<e, f>> \in EarlierIn(set) <=> Earlier(e, f)
    BY DEF EarlierIn
<1>4. \A e \in set : ~Earlier(e, e)
    BY <1>1 DEF Earlier
<1>5. \A e, f, g \in set : Earlier(e, f) /\ Earlier(f, g) => Earlier(e, g)
    BY <1>1 DEF Earlier
<1>6. \A e, f \in set : e # f => Earlier(e, f) \/ Earlier(f, e)
    BY <1>1, <1>2 DEF Earlier
<1> QED
    BY <1>3, <1>4, <1>5, <1>6 DEF StrictOrder

LEMMA CanonicalIsOrdered ==
    ASSUME NEW known, Known(known), NEW priors \in Seq(known),
           Cardinality(ToSet(priors)) = Len(priors)
    PROVE  /\ IsFiniteSet(ToSet(priors)) /\ StrictOrder(ToSet(priors), EarlierIn(ToSet(priors)))
           /\ DOMAIN priors = 1..Cardinality(ToSet(priors))
           /\ Canonical(priors) \in [1..Cardinality(ToSet(priors)) -> ToSet(priors)]
           /\ \A i, j \in 1..Cardinality(ToSet(priors)) :
                 i < j => <<Canonical(priors)[i], Canonical(priors)[j]>> \in EarlierIn(ToSet(priors))
<1> DEFINE canonical == Canonical(priors)
           set == ToSet(priors)
<1>1. /\ canonical \in Seq(known) /\ DOMAIN canonical = DOMAIN priors /\ ToSet(canonical) = set
      /\ \A i, j \in DOMAIN priors : i < j => ~Earlier(canonical[j], canonical[i])
      /\ (\A i, j \in DOMAIN priors : priors[i] = priors[j] => i = j)
            => \A i, j \in DOMAIN priors : canonical[i] = canonical[j] => i = j
    BY CanonicalIsSorted
<1>2. IsFiniteSet(set) /\ \A i, j \in DOMAIN priors : priors[i] = priors[j] => i = j
    BY DistinctHistory
<1>3. DOMAIN priors = 1..Cardinality(set)
    OBVIOUS
<1>4. set \in SUBSET known
    BY DEF ToSet
<1>5. StrictOrder(set, EarlierIn(set))
    BY <1>4, EarlierIsStrict
<1> HIDE DEF canonical
<1>6. \A i \in DOMAIN priors : canonical[i] \in set
    BY <1>1 DEF ToSet
<1> HIDE DEF set
<1>7. canonical \in [1..Cardinality(set) -> set]
    BY <1>1, <1>3, <1>6
<1>8. \A i, j \in 1..Cardinality(set) : i < j => <<canonical[i], canonical[j]>> \in EarlierIn(set)
    <2>1. SUFFICES ASSUME NEW i \in 1..Cardinality(set), NEW j \in 1..Cardinality(set), i < j
                   PROVE  <<canonical[i], canonical[j]>> \in EarlierIn(set)
        OBVIOUS
    <2>2. ~Earlier(canonical[j], canonical[i])
        BY <1>1, <1>3, <2>1
    <2>3. canonical[i] # canonical[j]
        <3>1. i # j
            BY <2>1
        <3> QED
            BY <1>1, <1>2, <1>3, <3>1
    <2>4. canonical[i] \in set /\ canonical[j] \in set
        BY <1>7
    <2>5. \/ <<canonical[i], canonical[j]>> \in EarlierIn(set)
          \/ <<canonical[j], canonical[i]>> \in EarlierIn(set)
        BY <1>5, <2>3, <2>4 DEF StrictOrder
    <2> QED
        BY <2>2, <2>5 DEF EarlierIn
<1> QED
    BY <1>2, <1>3, <1>5, <1>7, <1>8 DEF canonical, set

(* Histories of the same artifacts, each once, are one history.            *)
LEMMA OneCanonicalHistory ==
    ASSUME NEW known, Known(known), NEW one \in Seq(known), NEW two \in Seq(known),
           ToSet(one) = ToSet(two),
           Cardinality(ToSet(one)) = Len(one), Cardinality(ToSet(two)) = Len(two)
    PROVE  DOMAIN one = DOMAIN two /\ Canonical(one) = Canonical(two)
<1> DEFINE set == ToSet(one)
<1>1. /\ IsFiniteSet(set) /\ StrictOrder(set, EarlierIn(set))
      /\ DOMAIN one = 1..Cardinality(set)
      /\ Canonical(one) \in [1..Cardinality(set) -> set]
      /\ \A i, j \in 1..Cardinality(set) :
            i < j => <<Canonical(one)[i], Canonical(one)[j]>> \in EarlierIn(set)
    BY CanonicalIsOrdered
<1>2. /\ DOMAIN two = 1..Cardinality(set)
      /\ Canonical(two) \in [1..Cardinality(set) -> set]
      /\ \A i, j \in 1..Cardinality(set) :
            i < j => <<Canonical(two)[i], Canonical(two)[j]>> \in EarlierIn(set)
    BY CanonicalIsOrdered
<1> HIDE DEF set
<1> QED
    BY <1>1, <1>2, OrderIsUnique

LEMMA SameHistorySameBundle ==
    ASSUME NEW known, Known(known), NEW one \in Seq(known), NEW two \in Seq(known),
           ToSet(one) = ToSet(two), NEW c, NEW supplied,
           Acceptable(c, one, supplied), Cardinality(ToSet(two)) = Len(two)
    PROVE  /\ Inputs(c, one, supplied) = Inputs(c, two, supplied)
           /\ Bundle(c, one, supplied) = Bundle(c, two, supplied)
           /\ Acceptable(c, two, supplied)
<1>1. Cardinality(ToSet(one)) = Len(one)
    BY DEF Acceptable
<1>2. DOMAIN one = DOMAIN two /\ Canonical(one) = Canonical(two)
    BY <1>1, OneCanonicalHistory
<1>3. Inputs(c, one, supplied) = Inputs(c, two, supplied)
    BY <1>2 DEF Inputs
<1>4. TractionOf(c, one) = TractionOf(c, two)
    BY <1>2 DEF TractionOf
<1>5. Bundle(c, one, supplied) = Bundle(c, two, supplied)
    <2> DEFINE Made(inputs, rows) ==
                   [run |-> c.run, inputs |-> inputs, reviews |-> supplied,
                    theses |-> [i \in DOMAIN Suite |-> ThesisReport(Suite[i], c, rows, supplied)]]
    <2>1. /\ Bundle(c, one, supplied) = Made(Inputs(c, one, supplied), TractionOf(c, one))
          /\ Bundle(c, two, supplied) = Made(Inputs(c, two, supplied), TractionOf(c, two))
        BY Zenon DEF Bundle, TractionOf
    <2> QED
        BY <1>3, <1>4, <2>1
<1>6. \A l, rating : PriorPoints(l, rating, one) = PriorPoints(l, rating, two)
    BY DEF PriorPoints
<1>7. Derivable(ToSet(Listings(Suite)), c, one) => Derivable(ToSet(Listings(Suite)), c, two)
    BY <1>6 DEF Derivable
<1>8. Acceptable(c, two, supplied)
    BY <1>7 DEF Acceptable
<1> QED
    BY <1>3, <1>5, <1>8

LEMMA BuiltArtifactReproduces ==
    ASSUME ThesisInv, NEW x \in intelligence, NEW c \in experiments, NEW priors \in Histories
    PROVE  Verifies(x, c, priors) <=>
               /\ c.run = x.run
               /\ ToSet(priors) = Past(x)
               /\ Len(priors) = Cardinality(Past(x))
<1>1. PICK current \in experiments, history \in Seq(experiments), supplied \in SUBSET reviews :
          /\ Acceptable(current, history, supplied)
          /\ x = Bundle(current, history, supplied) /\ Sound(x)
    BY DEF ThesisInv, IntelligenceInv, IsBuilt
<1>2. Known(experiments)
    BY ArtifactsAreKnown
<1>3. /\ x.run = current.run /\ x.reviews = supplied
      /\ x.inputs = Inputs(current, history, supplied)
    BY <1>1, BundleFields
<1>4. Past(x) = ToSet(history) /\ Cardinality(ToSet(history)) = Len(history)
    BY <1>1, <1>2, <1>3, PastIsHistory DEF Acceptable
<1>5. priors \in Seq(experiments)
    BY DEF Histories
<1>6. ASSUME Verifies(x, c, priors)
      PROVE  /\ c.run = x.run /\ ToSet(priors) = Past(x)
             /\ Len(priors) = Cardinality(Past(x))
    <2>1. x.inputs = Inputs(c, priors, supplied) /\ Acceptable(c, priors, supplied)
        BY <1>3, <1>6 DEF Verifies, Identified
    <2>2. Past(x) = ToSet(priors)
        BY <1>2, <1>5, <2>1, PastIsHistory
    <2>3. Binding(c) = Binding(current)
        BY <1>3, <2>1 DEF Inputs
    <2>4. c.run = current.run
        BY <2>3 DEF Binding
    <2> QED
        BY <1>3, <2>1, <2>2, <2>4 DEF Acceptable
<1>7. ASSUME c.run = x.run, ToSet(priors) = Past(x), Len(priors) = Cardinality(Past(x))
      PROVE  Verifies(x, c, priors)
    <2>1. c = current
        BY <1>2, <1>3, <1>7 DEF Known
    <2>2. ToSet(history) = ToSet(priors) /\ Cardinality(ToSet(priors)) = Len(priors)
        BY <1>4, <1>7
    <2>3. /\ Inputs(current, history, supplied) = Inputs(current, priors, supplied)
          /\ Bundle(current, history, supplied) = Bundle(current, priors, supplied)
          /\ Acceptable(current, priors, supplied)
        BY <1>1, <1>2, <1>5, <2>2, SameHistorySameBundle
    <2> QED
        BY <1>1, <1>3, <2>1, <2>3 DEF Verifies, Identified
<1> QED
    BY <1>6, <1>7

(* An intelligence artifact verifies against the artifact and the history  *)
(* it was built from, in whatever order the history is supplied, and       *)
(* against no other.                                                       *)
THEOREM IntelligenceReproduces == ThesisSpec => []ArtifactsReproduce
<1>1. ThesisInv => ArtifactsReproduce
    BY BuiltArtifactReproduces DEF ArtifactsReproduce
<1> QED
    BY <1>1, ThesisInvariance, PTL

-----------------------------------------------------------------------------
(* The order of the anomaly queue.                                         *)

(* An order in which members may be level.                                 *)
WeakOrder(set, before) ==
    /\ \A x, y \in set : <<x, y>> \in before => <<y, x>> \notin before
    /\ \A x, y, z \in set :
          <<x, z>> \in before => <<x, y>> \in before \/ <<y, z>> \in before

(* The first order, and the second one where the first is level.           *)
Then(set, first, second) ==
    {p \in set \X set : p \in first \/ (<<p[2], p[1]>> \notin first /\ p \in second)}

LEMMA ThenIsWeak ==
    ASSUME NEW set, NEW first, NEW second, WeakOrder(set, first), WeakOrder(set, second)
    PROVE  WeakOrder(set, Then(set, first, second))
<1> DEFINE both == Then(set, first, second)
<1>1. \A x, y \in set : <<x, y>> \in both <=>
          <<x, y>> \in first \/ (<<y, x>> \notin first /\ <<x, y>> \in second)
    BY DEF Then
<1> HIDE DEF both
<1>2. \A x, y \in set : <<x, y>> \in both => <<y, x>> \notin both
    BY <1>1 DEF WeakOrder
<1>3. \A x, y, z \in set : <<x, z>> \in both => <<x, y>> \in both \/ <<y, z>> \in both
    <2>1. SUFFICES ASSUME NEW x \in set, NEW y \in set, NEW z \in set, <<x, z>> \in both,
                          <<x, y>> \notin both, <<y, z>> \notin both
                   PROVE  FALSE
        OBVIOUS
    <2>2. <<x, y>> \notin first /\ <<y, z>> \notin first
        BY <1>1, <2>1
    <2>3. <<x, z>> \notin first
        BY <2>2 DEF WeakOrder
    <2>4. <<z, x>> \notin first /\ <<x, z>> \in second
        BY <1>1, <2>1, <2>3
    <2>5. <<x, y>> \in second \/ <<y, z>> \in second
        BY <2>4 DEF WeakOrder
    <2>6. <<y, x>> \notin first
        BY <2>2, <2>4 DEF WeakOrder
    <2>7. <<z, y>> \notin first
        BY <2>2, <2>4 DEF WeakOrder
    <2> QED
        BY <1>1, <2>1, <2>5, <2>6, <2>7
<1> QED
    BY <1>2, <1>3 DEF WeakOrder, both

LEMMA StrictIsWeak ==
    ASSUME NEW set, NEW before
    PROVE  StrictOrder(set, before) <=>
               /\ WeakOrder(set, before)
               /\ \A x, y \in set : x # y => <<x, y>> \in before \/ <<y, x>> \in before
<1>1. ASSUME StrictOrder(set, before) PROVE WeakOrder(set, before)
    <2>1. \A x, y \in set : <<x, y>> \in before => <<y, x>> \notin before
        BY <1>1 DEF StrictOrder
    <2>2. ASSUME NEW x \in set, NEW y \in set, NEW z \in set, <<x, z>> \in before
          PROVE  <<x, y>> \in before \/ <<y, z>> \in before
        BY <1>1, <2>2 DEF StrictOrder
    <2> QED
        BY <2>1, <2>2 DEF WeakOrder
<1>2. ASSUME WeakOrder(set, before),
             \A x, y \in set : x # y => <<x, y>> \in before \/ <<y, x>> \in before
      PROVE  StrictOrder(set, before)
    <2>1. \A x \in set : <<x, x>> \notin before
        BY <1>2 DEF WeakOrder
    <2>2. \A x, y, z \in set : <<x, y>> \in before /\ <<y, z>> \in before => <<x, z>> \in before
        BY <1>2 DEF WeakOrder
    <2> QED
        BY <1>2, <2>1, <2>2 DEF StrictOrder
<1> QED
    BY <1>1, <1>2 DEF StrictOrder

LEMMA ThenIsStrict ==
    ASSUME NEW set, NEW first, NEW second, WeakOrder(set, first), StrictOrder(set, second)
    PROVE  StrictOrder(set, Then(set, first, second))
<1>1. WeakOrder(set, Then(set, first, second))
    BY StrictIsWeak, ThenIsWeak
<1>2. \A x, y \in set : x # y =>
          \/ <<x, y>> \in Then(set, first, second)
          \/ <<y, x>> \in Then(set, first, second)
    BY DEF Then, StrictOrder
<1> QED
    BY <1>1, <1>2, StrictIsWeak

Paces == [ratings : Nat, over : Nat \ {0}]

(* What the order of the queue needs to know of a row.                     *)
Ranked(row) ==
    /\ row.rating \subseteq Ratings /\ IsOptional(row.rating)
    /\ row.age \subseteq Int /\ IsOptional(row.age)
    /\ row.pace \subseteq Paces /\ IsOptional(row.pace)

(* A pace that is not slower than a second one, which is not slower than a *)
(* third one, is not slower than the third one.                            *)
LEMMA PacesAreOrdered ==
    ASSUME NEW x \in Paces, NEW y \in Paces, NEW z \in Paces
    PROVE  /\ Slower(x, y) => ~Slower(y, x)
           /\ Slower(x, z) => Slower(x, y) \/ Slower(y, z)
<1>1. /\ x.ratings \in Nat /\ y.ratings \in Nat /\ z.ratings \in Nat
      /\ x.over \in Nat /\ y.over \in Nat /\ z.over \in Nat
      /\ x.over > 0 /\ y.over > 0 /\ z.over > 0
    BY DEF Paces
<1>2. /\ Slower(x, y) <=> x.ratings * y.over < y.ratings * x.over
      /\ Slower(y, x) <=> y.ratings * x.over < x.ratings * y.over
      /\ Slower(x, z) <=> x.ratings * z.over < z.ratings * x.over
      /\ Slower(y, z) <=> y.ratings * z.over < z.ratings * y.over
    BY DEF Slower
<1>3. \A a, b, c, d, e, f \in Nat :
          (b > 0 /\ d > 0 /\ f > 0 /\ ~(a * d < c * b) /\ ~(c * f < e * d)) => ~(a * f < e * b)
    <2>1. SUFFICES ASSUME NEW a \in Nat, NEW b \in Nat, NEW c \in Nat, NEW d \in Nat,
                          NEW e \in Nat, NEW f \in Nat, b > 0, d > 0, f > 0,
                          a * d >= c * b, c * f >= e * d, a * f < e * b
                   PROVE  FALSE
        BY SMT
    <2>2. (a * d) * f >= (c * b) * f
        BY <2>1, SMT
    <2>3. (c * f) * b >= (e * d) * b
        BY <2>1, SMT
    <2>4. (a * f) * d < (e * b) * d
        BY <2>1, SMT
    <2>5. (a * d) * f = (a * f) * d /\ (c * b) * f = (c * f) * b /\ (e * d) * b = (e * b) * d
        BY SMT
    <2>6. (a * d) * f \in Int /\ (c * b) * f \in Int /\ (e * d) * b \in Int
        BY SMT
    <2> QED
        BY <2>2, <2>3, <2>4, <2>5, <2>6, SMT
<1>4. Slower(x, y) => ~Slower(y, x)
    BY <1>1, <1>2
<1>5. Slower(x, z) => Slower(x, y) \/ Slower(y, z)
    BY <1>1, <1>2, <1>3
<1> QED
    BY <1>4, <1>5

LEMMA FasterIsWeak ==
    ASSUME NEW a, NEW b, NEW c, Ranked(a), Ranked(b), Ranked(c)
    PROVE  /\ Faster(a, b) => ~Faster(b, a)
           /\ Faster(a, c) => Faster(a, b) \/ Faster(b, c)
<1>1. /\ \A p \in a.pace : p \in Paces /\ \A q \in a.pace : p = q
      /\ \A p \in b.pace : p \in Paces /\ \A q \in b.pace : p = q
      /\ \A p \in c.pace : p \in Paces /\ \A q \in c.pace : p = q
    BY DEF Ranked, IsOptional
<1>2. ASSUME Faster(a, b), Faster(b, a) PROVE FALSE
    <2>1. PICK q \in b.pace : TRUE
        BY <1>2 DEF Faster
    <2>2. PICK p \in a.pace : Slower(q, p)
        BY <1>2, <2>1 DEF Faster
    <2>3. Slower(p, q)
        BY <1>1, <1>2, <2>1, <2>2 DEF Faster
    <2> QED
        BY <1>1, <2>2, <2>3, PacesAreOrdered
<1>3. ASSUME Faster(a, c), ~Faster(a, b) PROVE Faster(b, c)
    <2>1. PICK p \in a.pace : TRUE
        BY <1>3 DEF Faster
    <2>2. PICK q \in b.pace : ~Slower(q, p)
        BY <1>3, <2>1 DEF Faster
    <2>3. \A r \in c.pace : Slower(r, p)
        BY <1>1, <1>3, <2>1 DEF Faster
    <2>4. \A r \in c.pace : Slower(r, q)
        BY <1>1, <2>1, <2>2, <2>3, PacesAreOrdered
    <2> QED
        BY <2>2, <2>4 DEF Faster
<1> QED
    BY <1>2, <1>3

LEMMA MoreRatedIsWeak ==
    ASSUME NEW a, NEW b, NEW c, Ranked(a), Ranked(b), Ranked(c)
    PROVE  /\ MoreRated(a, b) => ~MoreRated(b, a)
           /\ MoreRated(a, c) => MoreRated(a, b) \/ MoreRated(b, c)
<1>1. /\ \A p \in a.rating : p.count \in Nat /\ \A q \in a.rating : p = q
      /\ \A p \in b.rating : p.count \in Nat /\ \A q \in b.rating : p = q
      /\ \A p \in c.rating : p.count \in Nat /\ \A q \in c.rating : p = q
    BY DEF Ranked, IsOptional, Ratings
<1>2. ASSUME MoreRated(a, b), MoreRated(b, a) PROVE FALSE
    <2>1. PICK q \in b.rating : TRUE
        BY <1>2 DEF MoreRated
    <2>2. PICK p \in a.rating : p.count > q.count
        BY <1>2, <2>1 DEF MoreRated
    <2>3. q.count > p.count
        BY <1>1, <1>2, <2>1, <2>2 DEF MoreRated
    <2> QED
        BY <1>1, <2>1, <2>2, <2>3
<1>3. ASSUME MoreRated(a, c), ~MoreRated(a, b) PROVE MoreRated(b, c)
    <2>1. PICK p \in a.rating : TRUE
        BY <1>3 DEF MoreRated
    <2>2. PICK q \in b.rating : ~(p.count > q.count)
        BY <1>3, <2>1 DEF MoreRated
    <2>3. \A r \in c.rating : p.count > r.count
        BY <1>1, <1>3, <2>1 DEF MoreRated
    <2>4. \A r \in c.rating : q.count > r.count
        BY <1>1, <2>1, <2>2, <2>3
    <2> QED
        BY <2>2, <2>4 DEF MoreRated
<1> QED
    BY <1>2, <1>3

LEMMA YoungerIsWeak ==
    ASSUME NEW a, NEW b, NEW c, Ranked(a), Ranked(b), Ranked(c)
    PROVE  /\ Younger(a, b) => ~Younger(b, a)
           /\ Younger(a, c) => Younger(a, b) \/ Younger(b, c)
<1>1. /\ \A p \in a.age : p \in Int /\ \A q \in a.age : p = q
      /\ \A p \in b.age : p \in Int /\ \A q \in b.age : p = q
      /\ \A p \in c.age : p \in Int /\ \A q \in c.age : p = q
    BY DEF Ranked, IsOptional
<1>2. ASSUME Younger(a, b), Younger(b, a) PROVE FALSE
    <2>1. PICK q \in b.age : TRUE
        BY <1>2 DEF Younger
    <2>2. PICK p \in a.age : p < q
        BY <1>2, <2>1 DEF Younger
    <2>3. q < p
        BY <1>1, <1>2, <2>1, <2>2 DEF Younger
    <2> QED
        BY <1>1, <2>1, <2>2, <2>3
<1>3. ASSUME Younger(a, c), ~Younger(a, b) PROVE Younger(b, c)
    <2>1. PICK p \in a.age : TRUE
        BY <1>3 DEF Younger
    <2>2. PICK q \in b.age : ~(p < q)
        BY <1>3, <2>1 DEF Younger
    <2>3. \A r \in c.age : p < r
        BY <1>1, <1>3, <2>1 DEF Younger
    <2>4. \A r \in c.age : q < r
        BY <1>1, <2>1, <2>2, <2>3
    <2> QED
        BY <2>2, <2>4 DEF Younger
<1> QED
    BY <1>2, <1>3

Comparable(set, rows) == set \subseteq Nat /\ \A l \in set : Ranked(rows[l])
BeforeIn(set, rows) == {p \in set \X set : Before(p[1], p[2], rows)}
FasterIn(set, rows) == {p \in set \X set : Faster(rows[p[1]], rows[p[2]])}
MoreRatedIn(set, rows) == {p \in set \X set : MoreRated(rows[p[1]], rows[p[2]])}
YoungerIn(set, rows) == {p \in set \X set : Younger(rows[p[1]], rows[p[2]])}
LessIn(set) == {p \in set \X set : p[1] < p[2]}

LEMMA RowsAreOrdered ==
    ASSUME NEW set, NEW rows, Comparable(set, rows)
    PROVE  /\ WeakOrder(set, FasterIn(set, rows))
           /\ WeakOrder(set, MoreRatedIn(set, rows))
           /\ WeakOrder(set, YoungerIn(set, rows))
           /\ StrictOrder(set, LessIn(set))
<1>1. \A x \in set : x \in Nat /\ Ranked(rows[x])
    BY DEF Comparable
<1>2. WeakOrder(set, FasterIn(set, rows))
    <2>1. \A x, y \in set : <<x, y>> \in FasterIn(set, rows) <=> Faster(rows[x], rows[y])
        BY DEF FasterIn
    <2> QED
        BY <1>1, <2>1, FasterIsWeak DEF WeakOrder
<1>3. WeakOrder(set, MoreRatedIn(set, rows))
    <2>1. \A x, y \in set : <<x, y>> \in MoreRatedIn(set, rows) <=> MoreRated(rows[x], rows[y])
        BY DEF MoreRatedIn
    <2> QED
        BY <1>1, <2>1, MoreRatedIsWeak DEF WeakOrder
<1>4. WeakOrder(set, YoungerIn(set, rows))
    <2>1. \A x, y \in set : <<x, y>> \in YoungerIn(set, rows) <=> Younger(rows[x], rows[y])
        BY DEF YoungerIn
    <2> QED
        BY <1>1, <2>1, YoungerIsWeak DEF WeakOrder
<1>5. StrictOrder(set, LessIn(set))
    <2>1. \A x, y \in set : <<x, y>> \in LessIn(set) <=> x < y
        BY DEF LessIn
    <2> QED
        BY <1>1, <2>1 DEF StrictOrder
<1> QED
    BY <1>2, <1>3, <1>4, <1>5

(* Faster, more rated, younger and the identifier leave no two level.      *)
LEMMA BeforeIsStrict ==
    ASSUME NEW set, NEW rows, Comparable(set, rows)
    PROVE  StrictOrder(set, BeforeIn(set, rows))
<1> DEFINE faster == FasterIn(set, rows)
           rated == MoreRatedIn(set, rows)
           younger == YoungerIn(set, rows)
           less == LessIn(set)
           all == Then(set, faster, Then(set, rated, Then(set, younger, less)))
<1>1. StrictOrder(set, all)
    <2>1. /\ WeakOrder(set, faster) /\ WeakOrder(set, rated) /\ WeakOrder(set, younger)
          /\ StrictOrder(set, less)
        BY RowsAreOrdered
    <2> HIDE DEF faster, rated, younger, less
    <2> QED
        BY <2>1, ThenIsStrict
<1>2. BeforeIn(set, rows) = all
    <2>1. ASSUME NEW x \in set, NEW y \in set
          PROVE  <<x, y>> \in BeforeIn(set, rows) <=> <<x, y>> \in all
        <3>1. /\ <<x, y>> \in faster <=> Faster(rows[x], rows[y])
              /\ <<y, x>> \in faster <=> Faster(rows[y], rows[x])
              /\ <<x, y>> \in rated <=> MoreRated(rows[x], rows[y])
              /\ <<y, x>> \in rated <=> MoreRated(rows[y], rows[x])
              /\ <<x, y>> \in younger <=> Younger(rows[x], rows[y])
              /\ <<y, x>> \in younger <=> Younger(rows[y], rows[x])
              /\ <<x, y>> \in less <=> x < y
            BY <2>1 DEF FasterIn, MoreRatedIn, YoungerIn, LessIn
        <3>2. <<x, y>> \in BeforeIn(set, rows) <=> Before(x, y, rows)
            BY <2>1 DEF BeforeIn
        <3> HIDE DEF faster, rated, younger, less
        <3>3. <<x, y>> \in all <=>
                  \/ <<x, y>> \in faster
                  \/ /\ <<y, x>> \notin faster
                     /\ \/ <<x, y>> \in rated
                        \/ /\ <<y, x>> \notin rated
                           /\ <<x, y>> \in younger \/ (<<y, x>> \notin younger /\ <<x, y>> \in less)
            BY <2>1 DEF Then
        <3> QED
            BY <3>1, <3>2, <3>3 DEF Before
    <2>2. BeforeIn(set, rows) \subseteq set \X set /\ all \subseteq set \X set
        BY DEF BeforeIn, Then
    <2> HIDE DEF all
    <2> QED
        BY <2>1, <2>2
<1> QED
    BY <1>1, <1>2

LEMMA QueueIsOrdered ==
    ASSUME NEW members, IsFiniteSet(ToSet(members)), NEW rows,
           Comparable(ToSet(members), rows), NEW policies
    PROVE  /\ IsFiniteSet(Candidates(members, rows, policies))
           /\ Candidates(members, rows, policies) \subseteq ToSet(members)
           /\ Len(Queue(members, rows, policies)) = Cardinality(Candidates(members, rows, policies))
           /\ ToSet(Queue(members, rows, policies)) = Candidates(members, rows, policies)
           /\ \A i, j \in DOMAIN Queue(members, rows, policies) :
                 i < j => Before(Queue(members, rows, policies)[i], Queue(members, rows, policies)[j], rows)
<1> DEFINE candidates == Candidates(members, rows, policies)
           queue == Queue(members, rows, policies)
<1>1. candidates \subseteq ToSet(members)
    BY DEF Candidates
<1>2. IsFiniteSet(candidates) /\ Comparable(candidates, rows)
    BY <1>1, FS_Subset DEF Comparable
<1>3. queue = Arranged(candidates, BeforeIn(candidates, rows))
    BY Zenon DEF Queue, BeforeIn
<1> HIDE DEF candidates
<1>4. StrictOrder(candidates, BeforeIn(candidates, rows))
    BY <1>2, BeforeIsStrict
<1> DEFINE n == Cardinality(candidates)
<1>5. /\ n \in Nat /\ queue \in [1..n -> candidates]
      /\ \A i, j \in 1..n : i < j => <<queue[i], queue[j]>> \in BeforeIn(candidates, rows)
      /\ \A x \in candidates : \E k \in 1..n : queue[k] = x
    <2> DEFINE before == BeforeIn(candidates, rows)
               order == Arranged(candidates, before)
    <2>1. StrictOrder(candidates, before)
        BY <1>4
    <2>2. order = queue
        BY <1>3
    <2> HIDE DEF before, queue
    <2>3. /\ n \in Nat /\ order \in [1..n -> candidates]
          /\ \A i, j \in 1..n : i < j => <<order[i], order[j]>> \in before
          /\ \A x \in candidates : \E k \in 1..n : order[k] = x
        BY <1>2, <2>1, ArrangedInOrder, Zenon
    <2> QED
        BY <2>2, <2>3 DEF before
<1> HIDE DEF queue, n
<1>6. queue \in Seq(candidates) /\ Len(queue) = n /\ DOMAIN queue = 1..n
    BY <1>5
<1>7. ToSet(queue) = candidates
    BY <1>5, <1>6 DEF ToSet
<1>8. \A i, j \in DOMAIN queue : i < j => Before(queue[i], queue[j], rows)
    BY <1>5, <1>6 DEF BeforeIn
<1> QED
    BY <1>1, <1>2, <1>6, <1>7, <1>8 DEF candidates, queue, n

-----------------------------------------------------------------------------
(* What the validators of the reports check holds of what is built.        *)

(* What a row says of the latest rating before its own.                    *)
IsDelta(delta, rating, points) ==
    /\ delta.status =
          IF rating = {} THEN "current_missing"
          ELSE IF points = {} THEN "no_prior_observation"
          ELSE IF The(rating).seen - Selected(points).seen < Day THEN "interval_too_short"
          ELSE IF The(rating).count - Selected(points).count < 0 THEN "negative_revision"
          ELSE "observed"
    /\ delta.prior = IF points = {} THEN {} ELSE {Selected(points)}
    /\ delta.velocity =
          IF points = {} \/ The(rating).seen - Selected(points).seen < Day THEN {}
          ELSE {[ratings |-> The(rating).count - Selected(points).count,
                 over |-> The(rating).seen - Selected(points).seen]}

LEMMA LongitudinalFields ==
    ASSUME NEW rating, NEW points
    PROVE  IsDelta(Longitudinal(rating, points), rating, points)
BY DEF Longitudinal, IsDelta

LEMMA DeltaIsSound ==
    ASSUME NEW known, Known(known), NEW priors \in Seq(known), NEW l,
           NEW row, row.rating \in SUBSET Ratings, IsOptional(row.rating),
           ~Conflicting(PriorPoints(l, row.rating, priors)),
           row.longitudinal = Longitudinal(row.rating, PriorPoints(l, row.rating, priors))
    PROVE  SoundDelta(row)
<1> DEFINE rating == row.rating
           delta == row.longitudinal
           points == PriorPoints(l, rating, priors)
           cur == The(rating)
           last == Selected(points)
<1>1. /\ points \in SUBSET Points /\ IsFiniteSet(points)
      /\ \A p \in points : \E c \in rating : p.seen < c.seen
    BY PointsAreRatings
<1>2. /\ delta.status = IF rating = {} THEN "current_missing"
                        ELSE IF points = {} THEN "no_prior_observation"
                        ELSE IF cur.seen - last.seen < Day THEN "interval_too_short"
                        ELSE IF cur.count - last.count < 0 THEN "negative_revision"
                        ELSE "observed"
      /\ delta.prior = IF points = {} THEN {} ELSE {last}
      /\ delta.velocity = IF points = {} \/ cur.seen - last.seen < Day THEN {}
                          ELSE {[ratings |-> cur.count - last.count, over |-> cur.seen - last.seen]}
    <2>1. delta = Longitudinal(rating, points)
        OBVIOUS
    <2>2. IsDelta(delta, rating, points)
        BY <2>1, LongitudinalFields
    <2> HIDE DEF points, rating, delta
    <2> QED
        BY <2>2 DEF IsDelta
<1> HIDE DEF points, last
<1>3. rating = {} => points = {}
    BY <1>1
<1>4. CASE points = {}
    <2>1. /\ delta.status = IF rating = {} THEN "current_missing" ELSE "no_prior_observation"
          /\ delta.prior = {} /\ delta.velocity = {}
        BY <1>2, <1>4
    <2>2. rating = {} <=> delta.status = "current_missing"
        BY <2>1
    <2>3. delta.status \in {"current_missing", "no_prior_observation"}
        BY <2>1
    <2> QED
        BY <2>1, <2>2, <2>3 DEF SoundDelta
<1>5. CASE points # {}
    <2>1. last \in points
        BY <1>1, <1>5, SelectedIsLatest DEF last, points
    <2>2. rating # {} /\ cur \in rating /\ \A c \in rating : c = cur
        BY <1>3, <1>5 DEF The, IsOptional
    <2> HIDE DEF cur
    <2>3. /\ cur.seen \in Nat /\ cur.count \in Nat /\ last.seen \in Nat /\ last.count \in Nat
        BY <1>1, <2>1, <2>2 DEF Ratings, Points
    <2>4. last.seen < cur.seen
        BY <1>1, <2>1, <2>2
    <2> DEFINE over == cur.seen - last.seen
               change == cur.count - last.count
    <2>5. over > 0
        BY <2>3, <2>4
    <2>6. /\ delta.status = IF over < Day THEN "interval_too_short"
                            ELSE IF change < 0 THEN "negative_revision" ELSE "observed"
          /\ delta.prior = {last}
          /\ delta.velocity = IF over < Day THEN {} ELSE {[ratings |-> change, over |-> over]}
        BY <1>2, <1>5, <2>2
    <2> HIDE DEF over, change
    <2>7. ~(delta.status \in {"current_missing", "no_prior_observation"})
        BY <2>6
    <2>8. ~(rating = {}) /\ ~(delta.status = "current_missing")
        BY <2>2, <2>7
    <2>9. \E c \in rating, p \in delta.prior :
              /\ c.seen - p.seen > 0
              /\ delta.velocity = IF c.seen - p.seen < Day THEN {}
                                  ELSE {[ratings |-> c.count - p.count, over |-> c.seen - p.seen]}
              /\ delta.status = IF c.seen - p.seen < Day THEN "interval_too_short"
                                ELSE IF c.count - p.count < 0 THEN "negative_revision" ELSE "observed"
        BY <2>2, <2>5, <2>6 DEF over, change
    <2> QED
        BY <2>7, <2>8, <2>9 DEF SoundDelta
<1> QED
    BY <1>4, <1>5

LEMMA AgesAndPaces ==
    ASSUME NEW published, published \subseteq Int, IsOptional(published), NEW at \in Int,
           NEW rating, rating \subseteq Ratings, IsOptional(rating)
    PROVE  /\ Age(published, at) \subseteq Int /\ IsOptional(Age(published, at))
           /\ Pace(Age(published, at), {r.count : r \in rating}) \subseteq Paces
           /\ IsOptional(Pace(Age(published, at), {r.count : r \in rating}))
           /\ \A p \in Pace(Age(published, at), {r.count : r \in rating}) :
                 \E a \in Age(published, at), r \in rating :
                    a >= Day /\ p = [ratings |-> r.count, over |-> a]
<1> DEFINE age == Age(published, at)
           counts == {r.count : r \in rating}
           pace == Pace(age, counts)
<1>1. age \subseteq Int /\ \A a, b \in age : a = b
    <2>1. \A a \in age : \E p \in published : a = at - p
        BY DEF Age
    <2>2. \A p \in published : at - p \in Int
        OBVIOUS
    <2>3. \A p, q \in published : p = q
        BY DEF IsOptional
    <2> HIDE DEF age
    <2> QED
        BY <2>1, <2>2, <2>3
<1>2. /\ \A n \in counts : n \in Nat /\ \E r \in rating : n = r.count
      /\ \A m, n \in counts : m = n
    BY DEF Ratings, IsOptional
<1> HIDE DEF age, counts
<1>3. \A p \in pace : \E a \in age, n \in counts : a >= Day /\ p = [ratings |-> n, over |-> a]
    BY DEF Pace
<1> HIDE DEF pace
<1>4. pace \subseteq Paces
    <2>1. \A a \in age : a >= Day => a \in Nat \ {0}
        BY <1>1 DEF Day
    <2> QED
        BY <1>2, <1>3, <2>1 DEF Paces
<1>5. \A p, q \in pace : p = q
    BY <1>1, <1>2, <1>3
<1>6. \A p \in pace : \E a \in age, r \in rating : a >= Day /\ p = [ratings |-> r.count, over |-> a]
    BY <1>2, <1>3
<1> QED
    BY <1>1, <1>4, <1>5, <1>6 DEF IsOptional, age, counts, pace

LEMMA CohortCounts ==
    ASSUME NEW bucket, bucket # {}, IsOptional(bucket), NEW peers, IsFiniteSet(peers)
    PROVE  \E m \in {Cardinality(Cohort(b, peers)) : b \in {{x} : x \in bucket}},
              n \in {Cardinality(Paced(bucket, peers)) : b \in bucket} : n <= m
<1>1. PICK x \in bucket : TRUE
    OBVIOUS
<1>2. bucket = {x}
    BY <1>1 DEF IsOptional
<1>3. Paced(bucket, peers) \subseteq Cohort(bucket, peers) /\ Cohort(bucket, peers) \subseteq peers
    BY DEF Paced, Cohort
<1>4. IsFiniteSet(Cohort(bucket, peers))
    BY <1>3, FS_Subset
<1>5. Cardinality(Paced(bucket, peers)) <= Cardinality(Cohort(bucket, peers))
    BY <1>3, <1>4, FS_Subset
<1>6. Cardinality(Cohort(bucket, peers)) \in {Cardinality(Cohort(b, peers)) : b \in {{y} : y \in bucket}}
    <2>1. bucket \in {{y} : y \in bucket}
        BY <1>2
    <2> QED
        BY <2>1
<1>7. Cardinality(Paced(bucket, peers)) \in {Cardinality(Paced(bucket, peers)) : b \in bucket}
    BY <1>1
<1> QED
    BY <1>5, <1>6, <1>7

LEMMA RowOfAcceptable ==
    ASSUME NEW known, Known(known), NEW c \in known, NEW priors \in Seq(known), NEW supplied,
           Acceptable(c, priors, supplied), NEW l \in ToSet(Listings(Suite))
    PROVE  /\ c.rows[l].rating \in SUBSET Ratings /\ IsOptional(c.rows[l].rating)
           /\ c.rows[l].published \subseteq Int /\ IsOptional(c.rows[l].published)
           /\ c.at \in Int
           /\ Canonical(priors) \in Seq(known)
           /\ ~Conflicting(PriorPoints(l, c.rows[l].rating, Canonical(priors)))
<1>1. c.scope = Suite /\ ~Conflicting(PriorPoints(l, c.rows[l].rating, priors))
    BY DEF Acceptable, Derivable
<1>2. DOMAIN c.rows = MembersOf(Suite) /\ c.at \in Int
    BY <1>1, KnownTypes
<1>3. l \in DOMAIN c.rows
    BY <1>2, ListingsListMembers, SetsAssumption
<1>4. Canonical(priors) \in Seq(known) /\ ToSet(Canonical(priors)) = ToSet(priors)
    BY CanonicalIsSorted
<1>5. \A rating : PriorPoints(l, rating, Canonical(priors)) = PriorPoints(l, rating, priors)
    BY <1>4 DEF PriorPoints
<1> QED
    BY <1>1, <1>2, <1>3, <1>4, <1>5, KnownTypes

LEMMA RowIsSound ==
    ASSUME NEW known, Known(known), NEW c \in known, NEW priors \in Seq(known), NEW supplied,
           Acceptable(c, priors, supplied), NEW l \in ToSet(Listings(Suite))
    PROVE  Ranked(TractionOf(c, priors)[l]) /\ SoundRow(TractionOf(c, priors)[l])
<1> DEFINE listings == ToSet(Listings(Suite))
           canonical == Canonical(priors)
           peers == Derivations(listings, c, canonical)
<1> PICK row : row = TractionOf(c, priors)[l]
    OBVIOUS
<1>1. IsRowOf(row, l, c, canonical, peers)
    BY RowOfTraction DEF TractionOf
<1>2. /\ row.rating = c.rows[l].rating
      /\ row.age = Age(c.rows[l].published, c.at)
      /\ row.bucket = AgeBucket(row.age)
      /\ row.pace = Pace(row.age, {r.count : r \in row.rating})
      /\ row.longitudinal = Longitudinal(row.rating, PriorPoints(l, row.rating, canonical))
      /\ row.members = {Cardinality(Cohort(b, peers)) : b \in {{x} : x \in row.bucket}}
      /\ row.paced = {Cardinality(Paced(row.bucket, peers)) : b \in row.bucket}
      /\ row.percentile =
            {Share(Cardinality({m \in Paced(row.bucket, peers) : ~Slower(p, The(m.row.pace))}),
                   Cardinality(Paced(row.bucket, peers))) : p \in row.pace}
    <2> HIDE DEF canonical, peers
    <2> QED
        BY <1>1 DEF IsRowOf
<1>3. IsFiniteSet(peers)
    <2>1. IsFiniteSet(listings)
        BY ListingsListMembers, DistinctHistory, SetsAssumption
    <2> DEFINE derived == [m \in listings |-> [listing |-> m, row |-> Derived(m, c, canonical)]]
    <2>2. derived \in Surjection(listings, peers)
        BY DEF Surjection, Derivations
    <2> QED
        BY <2>1, <2>2, FS_Surjection
<1>4. /\ row.rating \in SUBSET Ratings /\ IsOptional(row.rating)
      /\ canonical \in Seq(known) /\ ~Conflicting(PriorPoints(l, row.rating, canonical))
    BY <1>2, RowOfAcceptable
<1> HIDE DEF listings, canonical, peers
<1>5. SoundDelta(row)
    BY <1>2, <1>4, DeltaIsSound
<1>6. /\ row.age \subseteq Int /\ IsOptional(row.age)
      /\ row.pace \subseteq Paces /\ IsOptional(row.pace)
      /\ \A p \in row.pace : \E a \in row.age, r \in row.rating :
            a >= Day /\ p = [ratings |-> r.count, over |-> a]
    <2>1. /\ c.rows[l].published \subseteq Int /\ IsOptional(c.rows[l].published) /\ c.at \in Int
        BY RowOfAcceptable
    <2> QED
        BY <1>2, <1>4, <2>1, AgesAndPaces
<1>7. Ranked(row)
    BY <1>4, <1>6 DEF Ranked
<1>8. /\ row.age = {} <=> row.bucket = {}
      /\ IsOptional(row.bucket)
    <2> DEFINE Passed(a) == Cardinality({d \in {7, 31, 91, 181, 366} : a >= d * Day})
    <2>1. \A k : k \in row.bucket <=> \E a \in row.age : k = Passed(a)
        BY <1>2 DEF AgeBucket
    <2> HIDE DEF Passed
    <2>2. \A a, b \in row.age : a = b
        BY <1>6 DEF IsOptional
    <2>3. \A j, k \in row.bucket : j = k
        BY <2>1, <2>2
    <2> QED
        BY <2>1, <2>3 DEF IsOptional
<1>9. row.percentile = {} <=> row.pace = {}
    <2>1. \A s : s \in row.percentile <=> \E p \in row.pace :
              s = Share(Cardinality({m \in Paced(row.bucket, peers) : ~Slower(p, The(m.row.pace))}),
                        Cardinality(Paced(row.bucket, peers)))
        BY <1>2
    <2> QED
        BY <2>1
<1>10. row.bucket = {} => row.members = {} /\ row.paced = {} /\ row.percentile = {}
    <2>1. SUFFICES ASSUME row.bucket = {}
                   PROVE  row.members = {} /\ row.paced = {} /\ row.percentile = {}
        OBVIOUS
    <2>2. row.pace = {}
        BY <1>6, <1>8, <2>1
    <2>3. {{x} : x \in row.bucket} = {}
        BY <2>1
    <2>4. row.members = {} /\ row.paced = {}
        BY <1>2, <2>1, <2>3
    <2> QED
        BY <1>9, <2>2, <2>4
<1>11. row.bucket # {} => \E m \in row.members, n \in row.paced : n <= m
    <2>1. SUFFICES ASSUME row.bucket # {}
                   PROVE  \E m \in row.members, n \in row.paced : n <= m
        OBVIOUS
    <2>2. \E m \in {Cardinality(Cohort(b, peers)) : b \in {{x} : x \in row.bucket}},
             n \in {Cardinality(Paced(row.bucket, peers)) : b \in row.bucket} : n <= m
        BY <1>3, <1>8, <2>1, CohortCounts
    <2> QED
        BY <1>2, <2>2
<1>12. SoundRow(row)
    BY <1>5, <1>6, <1>8, <1>9, <1>10, <1>11 DEF SoundRow
<1> QED
    BY <1>7, <1>12

LEMMA PartsAddUp ==
    ASSUME NEW one, NEW two, IsFiniteSet(one), IsFiniteSet(two), one \cap two = {}
    PROVE  /\ IsFiniteSet(one \cup two) /\ Cardinality(one \cup two) \in Nat
           /\ Cardinality(one) \in Nat /\ Cardinality(two) \in Nat
           /\ Cardinality(one \cup two) = Cardinality(one) + Cardinality(two)
<1>1. /\ IsFiniteSet(one \cup two)
      /\ Cardinality(one \cup two) = Cardinality(one) + Cardinality(two) - Cardinality(one \cap two)
    BY FS_Union
<1>2. Cardinality(one \cap two) = 0
    BY FS_EmptySet
<1>3. Cardinality(one) \in Nat /\ Cardinality(two) \in Nat /\ Cardinality(one \cup two) \in Nat
    BY <1>1, FS_CardinalityType
<1> QED
    BY <1>1, <1>2, <1>3

LEMMA TotalOfFour ==
    ASSUME NEW terms \in [1..4 -> Int]
    PROVE  Total(terms) = terms[1] + terms[2] + terms[3] + terms[4]
<1> DEFINE Summed(f) == f = [k \in 0..4 |-> IF k = 0 THEN 0 ELSE f[k - 1] + terms[k]]
           sums == [k \in 0..4 |->
                      IF k = 0 THEN 0
                      ELSE IF k = 1 THEN terms[1]
                      ELSE IF k = 2 THEN terms[1] + terms[2]
                      ELSE IF k = 3 THEN terms[1] + terms[2] + terms[3]
                      ELSE terms[1] + terms[2] + terms[3] + terms[4]]
           sum == CHOOSE f : Summed(f)
<1>1. /\ terms[1] \in Int /\ terms[2] \in Int /\ terms[3] \in Int /\ terms[4] \in Int
      /\ Len(terms) = 4
    OBVIOUS
<1>2. Summed(sums)
    <2>1. \A k \in 0..4 : k \in {0, 1, 2, 3, 4}
        OBVIOUS
    <2>2. \A k \in 0..4 : sums[k] = IF k = 0 THEN 0 ELSE sums[k - 1] + terms[k]
        BY <1>1, <2>1
    <2>3. sums = [k \in 0..4 |-> sums[k]]
        OBVIOUS
    <2> HIDE DEF sums
    <2> QED
        BY <2>2, <2>3
<1>3. Summed(sum)
    <2> HIDE DEF Summed, sums
    <2> QED
        BY <1>2
<1>4. Total(terms) = sum[4]
    BY <1>1, Zenon DEF Total
<1> HIDE DEF sum
<1>5. /\ sum[0] = 0 /\ sum[1] = sum[0] + terms[1] /\ sum[2] = sum[1] + terms[2]
      /\ sum[3] = sum[2] + terms[3] /\ sum[4] = sum[3] + terms[4]
    <2>1. \A k \in 0..4 : sum[k] = IF k = 0 THEN 0 ELSE sum[k - 1] + terms[k]
        BY <1>3
    <2> QED
        BY <2>1
<1> QED
    BY <1>1, <1>4, <1>5

(* Every listing of a report is of one of the four kinds.                  *)
Counted(report) == [d \in ToSet(Directnesses) |-> Cardinality(Of(report, d))]

LEMMA DirectnessesPartition ==
    ASSUME NEW c, NEW t \in DOMAIN Members
    PROVE  /\ Total([i \in 1..4 |-> Counted(Report(c, t))[Directnesses[i]]]) =
                 Cardinality(DOMAIN Report(c, t).rows)
           /\ Counted(Report(c, t))["direct_candidate"] = Cardinality(Direct(Report(c, t)))
           /\ Counted(Report(c, t))["adjacent_candidate"] =
                 Cardinality(Of(Report(c, t), "adjacent_candidate"))
           /\ Cardinality(Direct(Report(c, t))) + Cardinality(Of(Report(c, t), "adjacent_candidate"))
                 <= Cardinality(DOMAIN Report(c, t).rows)
<1> DEFINE report == Report(c, t)
           counts == Counted(report)
           terms == [i \in 1..4 |-> counts[Directnesses[i]]]
           all == DOMAIN report.rows
           one == Of(report, "direct_candidate")
           two == Of(report, "adjacent_candidate")
           three == Of(report, "noise_candidate")
           four == Of(report, "insufficient_evidence")
<1>1. IsFiniteSet(all)
    BY DirectIsFinite
<1>2. \A l \in all : report.rows[l].directness \in
          {"direct_candidate", "adjacent_candidate", "noise_candidate", "insufficient_evidence"}
    <2>1. \A l \in all : report.rows[l] = SemanticRow(l, c)
        BY DEF Report
    <2>2. \A l : SemanticRow(l, c).directness \in
              {"direct_candidate", "adjacent_candidate", "noise_candidate", "insufficient_evidence"}
        <3>1. \A text : Directness(text) \in
                  {"direct_candidate", "adjacent_candidate", "noise_candidate", "insufficient_evidence"}
            BY DEF Directness
        <3>2. \A l : \E text : SemanticRow(l, c).directness = Directness(text)
            BY DEF SemanticRow
        <3> QED
            BY <3>1, <3>2
    <2> QED
        BY <2>1, <2>2
<1> HIDE DEF report
<1>3. /\ one \cup two \cup three \cup four = all
      /\ one \cap two = {} /\ (one \cup two) \cap three = {} /\ (one \cup two \cup three) \cap four = {}
    BY <1>2 DEF Of
<1>4. IsFiniteSet(one) /\ IsFiniteSet(two) /\ IsFiniteSet(three) /\ IsFiniteSet(four)
    BY <1>1, <1>3, FS_Subset
<1> HIDE DEF one, two, three, four
<1>5. /\ Cardinality(one) \in Nat /\ Cardinality(two) \in Nat
      /\ Cardinality(three) \in Nat /\ Cardinality(four) \in Nat
      /\ Cardinality(all) = Cardinality(one) + Cardinality(two) + Cardinality(three) + Cardinality(four)
    <2>1. /\ IsFiniteSet(one \cup two) /\ Cardinality(one \cup two) \in Nat
          /\ Cardinality(one) \in Nat /\ Cardinality(two) \in Nat
          /\ Cardinality(one \cup two) = Cardinality(one) + Cardinality(two)
        BY <1>3, <1>4, PartsAddUp
    <2>2. /\ IsFiniteSet((one \cup two) \cup three) /\ Cardinality((one \cup two) \cup three) \in Nat
          /\ Cardinality(three) \in Nat
          /\ Cardinality((one \cup two) \cup three) = Cardinality(one \cup two) + Cardinality(three)
        BY <1>3, <1>4, <2>1, PartsAddUp
    <2>3. /\ Cardinality(four) \in Nat
          /\ Cardinality(((one \cup two) \cup three) \cup four) =
                Cardinality((one \cup two) \cup three) + Cardinality(four)
        BY <1>3, <1>4, <2>2, PartsAddUp
    <2> QED
        BY <1>3, <2>1, <2>2, <2>3
<1>6. ToSet(Directnesses) =
          {"direct_candidate", "adjacent_candidate", "noise_candidate", "insufficient_evidence"}
    <2>1. DOMAIN Directnesses = {1, 2, 3, 4}
        BY DEF Directnesses
    <2> QED
        BY <2>1 DEF ToSet, Directnesses
<1>7. /\ counts["direct_candidate"] = Cardinality(one)
      /\ counts["adjacent_candidate"] = Cardinality(two)
      /\ counts["noise_candidate"] = Cardinality(three)
      /\ counts["insufficient_evidence"] = Cardinality(four)
    BY <1>6 DEF one, two, three, four, Counted
<1> HIDE DEF counts
<1>8. /\ terms \in [1..4 -> Int]
      /\ terms[1] = Cardinality(one) /\ terms[2] = Cardinality(two)
      /\ terms[3] = Cardinality(three) /\ terms[4] = Cardinality(four)
    <2>1. /\ Directnesses[1] = "direct_candidate" /\ Directnesses[2] = "adjacent_candidate"
          /\ Directnesses[3] = "noise_candidate" /\ Directnesses[4] = "insufficient_evidence"
        BY DEF Directnesses
    <2>2. /\ terms[1] = Cardinality(one) /\ terms[2] = Cardinality(two)
          /\ terms[3] = Cardinality(three) /\ terms[4] = Cardinality(four)
        BY <1>7, <2>1
    <2>3. \A i \in 1..4 : i \in {1, 2, 3, 4}
        OBVIOUS
    <2>4. \A i \in 1..4 : terms[i] \in Int
        BY <1>5, <2>2, <2>3
    <2>5. terms \in [1..4 -> Int]
        BY <2>4
    <2> QED
        BY <2>2, <2>5
<1> HIDE DEF terms
<1>9. Total(terms) = Cardinality(all)
    BY <1>5, <1>8, TotalOfFour
<1>10. Direct(report) = one
    BY DEF Direct, one
<1> QED
    BY <1>5, <1>7, <1>9, <1>10 DEF terms, counts, one, two, report

(* With one review of a thesis, each listing has one verdict.              *)
LEMMA VerdictsPartition ==
    ASSUME NEW own, \A v, w \in own : v = w, IsFiniteSet(Judged(own, Verdicts))
    PROVE  /\ Cardinality(Judged(own, {"confirmed_direct"}))
                 + Cardinality(Judged(own, {"adjacent", "not_direct"}))
                 + Cardinality(Judged(own, {"unresolved"})) = Cardinality(Judged(own, Verdicts))
           /\ Judged(own, {"confirmed_direct"}) \subseteq Judged(own, Verdicts)
           /\ Judged(own, {"unresolved"}) \subseteq Judged(own, Verdicts)
<1> DEFINE one == Judged(own, {"confirmed_direct"})
           two == Judged(own, {"adjacent", "not_direct"})
           three == Judged(own, {"unresolved"})
           all == Judged(own, Verdicts)
<1>1. \A verdicts : \A l : l \in Judged(own, verdicts) <=>
          \E v \in own : l \in DOMAIN v.verdicts /\ v.verdicts[l] \in verdicts
    BY DEF Judged
<1>2. \A l : /\ l \in one <=> \E v \in own : l \in DOMAIN v.verdicts /\ v.verdicts[l] = "confirmed_direct"
             /\ l \in two <=> \E v \in own : l \in DOMAIN v.verdicts
                                             /\ v.verdicts[l] \in {"adjacent", "not_direct"}
             /\ l \in three <=> \E v \in own : l \in DOMAIN v.verdicts /\ v.verdicts[l] = "unresolved"
             /\ l \in all <=> \E v \in own : l \in DOMAIN v.verdicts /\ v.verdicts[l] \in Verdicts
    BY <1>1
<1> HIDE DEF one, two, three, all
<1>3. one \cup two \cup three = all /\ one \cap two = {} /\ (one \cup two) \cap three = {}
    BY <1>2 DEF Verdicts
<1>4. IsFiniteSet(one) /\ IsFiniteSet(two) /\ IsFiniteSet(three)
    <2>1. IsFiniteSet(all)
        BY DEF all
    <2> QED
        BY <1>3, <2>1, FS_Subset
<1>5. /\ IsFiniteSet(one \cup two) /\ Cardinality(one \cup two) \in Nat
      /\ Cardinality(one \cup two) = Cardinality(one) + Cardinality(two)
    BY <1>3, <1>4, PartsAddUp
<1>6. Cardinality((one \cup two) \cup three) = Cardinality(one \cup two) + Cardinality(three)
    BY <1>3, <1>4, <1>5, PartsAddUp
<1> QED
    BY <1>3, <1>5, <1>6 DEF one, two, three, all

LEMMA SurfaceIsSound ==
    ASSUME NEW queries, NEW members, IsFiniteSet(members), NEW foundBy
    PROVE  SoundSurface(Surface(queries, members, foundBy), Cardinality(members))
<1> DEFINE surface == Surface(queries, members, foundBy)
           overlaps == Overlaps(queries, members, foundBy)
<1>1. /\ surface.multiple = Cardinality({l \in members : Cardinality(foundBy[l]) > 1})
      /\ surface.queries = [q \in queries |-> Contribution(q, members, foundBy)]
      /\ surface.mean = IF overlaps = << >> THEN {} ELSE {Total(overlaps) \div Len(overlaps)}
      /\ surface.median = IF overlaps = << >> THEN {} ELSE {Median(overlaps)}
    BY Zenon DEF Surface
<1> HIDE DEF surface, overlaps
<1>2. surface.multiple <= Cardinality(members)
    <2>1. {l \in members : Cardinality(foundBy[l]) > 1} \subseteq members
        OBVIOUS
    <2> QED
        BY <1>1, <2>1, FS_Subset
<1>3. ASSUME NEW q \in DOMAIN surface.queries
      PROVE  /\ surface.queries[q].alone <= surface.queries[q].found
             /\ surface.queries[q].found <= Cardinality(members)
    <2> DEFINE alone == {l \in members : foundBy[l] = {q}}
               found == {l \in members : q \in foundBy[l]}
    <2>1. surface.queries[q] = Contribution(q, members, foundBy)
        BY <1>1
    <2>2. surface.queries[q].found = Cardinality(found) /\ surface.queries[q].alone = Cardinality(alone)
        BY <2>1 DEF Contribution
    <2>3. alone \subseteq found /\ found \subseteq members
        OBVIOUS
    <2> HIDE DEF alone, found
    <2>4. IsFiniteSet(found)
        BY <2>3, FS_Subset
    <2> QED
        BY <2>2, <2>3, <2>4, FS_Subset
<1>4. surface.mean = {} <=> surface.median = {}
    BY <1>1
<1>5. SoundSurface(surface, Cardinality(members))
    BY <1>2, <1>3, <1>4 DEF SoundSurface
<1> QED
    BY <1>5 DEF surface

LEMMA SmallerUnlessEqual ==
    ASSUME NEW set, IsFiniteSet(set), NEW part, part \subseteq set
    PROVE  /\ IsFiniteSet(part) /\ Cardinality(part) \in Nat /\ Cardinality(set) \in Nat
           /\ Cardinality(part) <= Cardinality(set)
           /\ Cardinality(part) < Cardinality(set) <=> part # set
           /\ Cardinality(part) = 0 <=> part = {}
           /\ Cardinality(set) = 0 <=> set = {}
<1>1. IsFiniteSet(part) /\ Cardinality(part) <= Cardinality(set)
    BY FS_Subset
<1>2. Cardinality(part) = Cardinality(set) => part = set
    BY FS_Subset
<1>3. Cardinality(part) \in Nat /\ Cardinality(set) \in Nat
    BY <1>1, FS_CardinalityType
<1> QED
    BY <1>1, <1>2, <1>3, FS_EmptySet

LEMMA QualityIsSound ==
    ASSUME NEW c, NEW t \in DOMAIN Members, NEW own, FitsAll(own, Report(c, t)),
           \A v, w \in own : v = w, NEW queries, NEW foundBy,
           NEW quality, IsQuality(quality, Report(c, t), own, queries, foundBy)
    PROVE  SoundQuality(quality)
<1> DEFINE report == Report(c, t)
           all == DOMAIN report.rows
           reviewed == Judged(own, Verdicts)
           confirmed == Judged(own, {"confirmed_direct"})
           direct == Direct(report)
<1>1. /\ quality.union = Cardinality(all)
      /\ quality.sourced = Cardinality({l \in all : report.rows[l].source})
      /\ quality.directness = Counted(report)
      /\ quality.reviewed = Cardinality(reviewed)
      /\ quality.confirmed = Cardinality(confirmed)
      /\ quality.rejected = Cardinality(Judged(own, {"adjacent", "not_direct"}))
      /\ quality.unresolved = Cardinality(Judged(own, {"unresolved"}))
      /\ quality.state = ReviewState(direct, reviewed, confirmed)
      /\ quality.surface = Surface(queries, all, foundBy)
    BY DEF IsQuality, Counted
<1>2. IsFiniteSet(all) /\ IsFiniteSet(direct)
    BY DirectIsFinite
<1>3. reviewed \subseteq direct
    BY JudgedAreDirect
<1>4. /\ IsFiniteSet(reviewed) /\ Cardinality(reviewed) \in Nat /\ Cardinality(direct) \in Nat
      /\ Cardinality(reviewed) <= Cardinality(direct)
      /\ Cardinality(reviewed) < Cardinality(direct) <=> reviewed # direct
      /\ Cardinality(reviewed) = 0 <=> reviewed = {}
      /\ Cardinality(direct) = 0 <=> direct = {}
    BY <1>2, <1>3, SmallerUnlessEqual
<1>5. /\ Cardinality(confirmed) + Cardinality(Judged(own, {"adjacent", "not_direct"}))
            + Cardinality(Judged(own, {"unresolved"})) = Cardinality(reviewed)
      /\ confirmed \subseteq reviewed
    BY <1>4, VerdictsPartition
<1>6. Cardinality(confirmed) \in Nat /\ (Cardinality(confirmed) = 0 <=> confirmed = {})
    BY <1>4, <1>5, SmallerUnlessEqual
<1>7. quality.directness["direct_candidate"] = Cardinality(direct)
    BY <1>1, DirectnessesPartition
<1>8. Total([i \in 1..4 |-> quality.directness[Directnesses[i]]]) = quality.union
    <2>1. Total([i \in 1..4 |-> Counted(Report(c, t))[Directnesses[i]]]) =
              Cardinality(DOMAIN Report(c, t).rows)
        BY DirectnessesPartition
    <2> QED
        BY <1>1, <2>1
<1>9. SoundSurface(quality.surface, quality.union)
    BY <1>1, <1>2, SurfaceIsSound
<1>10. quality.sourced <= quality.union
    <2>1. {l \in all : report.rows[l].source} \subseteq all
        OBVIOUS
    <2> QED
        BY <1>1, <1>2, <2>1, FS_Subset
<1> HIDE DEF report, all, reviewed, confirmed, direct
<1>11. quality.state =
           IF Cardinality(direct) = 0 THEN "no_direct_candidates"
           ELSE IF quality.reviewed = 0 THEN "not_reviewed"
           ELSE IF quality.reviewed < Cardinality(direct) THEN "partially_reviewed"
           ELSE IF quality.confirmed > 0 THEN "all_reviewed_with_confirmed"
           ELSE "all_direct_candidates_reviewed_zero_confirmed"
    BY <1>1, <1>4, <1>6 DEF ReviewState
<1> QED
    BY <1>1, <1>4, <1>5, <1>7, <1>8, <1>9, <1>10, <1>11 DEF SoundQuality

LEMMA ComparisonIsSound ==
    ASSUME NEW c, NEW t \in DOMAIN Members, NEW own, FitsAll(own, Report(c, t)),
           \A v, w \in own : v = w, NEW queries, NEW foundBy, NEW queue, NEW rows,
           NEW quality, IsQuality(quality, Report(c, t), own, queries, foundBy),
           Len(queue) \in Nat, Len(queue) <= Cardinality(ToSet(Members[t])),
           NEW row, IsComparison(row, own, Members[t], rows, queue, quality)
    PROVE  SoundComparison(row)
<1> DEFINE report == Report(c, t)
           all == DOMAIN report.rows
           direct == Direct(report)
           reviewed == Judged(own, Verdicts)
           confirmed == Judged(own, {"confirmed_direct"})
           unresolved == Judged(own, {"unresolved"})
           fresh == {l \in confirmed : Fresh(rows[l])}
           measured == {l \in ToSet(Members[t]) : rows[l].longitudinal.velocity # {}}
<1>1. /\ quality.union = Cardinality(all) /\ quality.directness = Counted(report)
      /\ quality.confirmed = Cardinality(confirmed) /\ quality.unresolved = Cardinality(unresolved)
    BY DEF IsQuality, Counted
<1>2. /\ row.union = quality.union
      /\ row.direct = quality.directness["direct_candidate"]
      /\ row.adjacent = quality.directness["adjacent_candidate"]
      /\ row.confirmed = quality.confirmed /\ row.unresolved = quality.unresolved
      /\ row.fresh_confirmed = Cardinality(fresh)
      /\ row.anomalies = Len(queue)
      /\ row.longitudinal = Cardinality(measured)
    BY DEF IsComparison
<1>3. IsFiniteSet(all) /\ IsFiniteSet(direct) /\ all = ToSet(Members[t])
    BY DirectIsFinite
<1>4. reviewed \subseteq direct
    BY JudgedAreDirect
<1>5. confirmed \subseteq reviewed /\ unresolved \subseteq reviewed
    BY <1>3, <1>4, FS_Subset, VerdictsPartition
<1>6. /\ Counted(report)["direct_candidate"] = Cardinality(direct)
      /\ Counted(report)["direct_candidate"] + Counted(report)["adjacent_candidate"] <= Cardinality(all)
    BY DirectnessesPartition
<1>7. fresh \subseteq confirmed /\ measured \subseteq all
    BY <1>3
<1> HIDE DEF report, all, direct, reviewed, confirmed, unresolved, fresh, measured
<1>8. IsFiniteSet(confirmed) /\ confirmed \subseteq direct /\ unresolved \subseteq direct
    BY <1>3, <1>4, <1>5, FS_Subset
<1>9. Cardinality(confirmed) <= Cardinality(direct) /\ Cardinality(unresolved) <= Cardinality(direct)
    BY <1>3, <1>8, FS_Subset
<1>10. Cardinality(fresh) <= Cardinality(confirmed) /\ Cardinality(measured) <= Cardinality(all)
    BY <1>3, <1>7, <1>8, FS_Subset
<1> QED
    BY <1>1, <1>2, <1>3, <1>6, <1>9, <1>10 DEF SoundComparison

LEMMA ReportLooksUpRows ==
    ASSUME NEW t \in DOMAIN Members, NEW c, NEW rows, NEW supplied, NEW y,
           IsReportOf(y, t, c, rows, supplied), NEW l \in ToSet(Members[t])
    PROVE  LookedUp(y, l) = rows[l]
BY RowLookedUp DEF IsReportOf

LEMMA ReportIsSound ==
    ASSUME IntelligenceInv, Known(experiments), NEW c \in experiments,
           NEW priors \in Seq(experiments), NEW supplied \in SUBSET reviews,
           Acceptable(c, priors, supplied), NEW t \in ToSet(Suite),
           NEW y, IsReportOf(y, t, c, TractionOf(c, priors), supplied)
    PROVE  SoundReport(y)
<1> DEFINE members == Members[t]
           set == ToSet(members)
           own == Own(supplied, t)
           found == [l \in set |-> LookedUp(y, l)]
<1> PICK rows : rows = TractionOf(c, priors)
    OBVIOUS
<1>1. /\ y.thesis = t /\ y.report = Report(c, t)
      /\ y.rows = [i \in DOMAIN members |-> rows[members[i]]]
      /\ y.queue = Queue(members, rows, Policy)
      /\ IsQuality(y.quality, y.report, own, Queries[t], FoundBy[t])
      /\ IsComparison(y.comparison, own, members, rows, y.queue, y.quality)
    BY DEF IsReportOf
<1>2. t \in DOMAIN Members
    BY SetsAssumption DEF ToSet
<1>3. /\ members \in Seq(Nat) /\ \A i, j \in DOMAIN members : members[i] = members[j] => i = j
    BY <1>2, SetsAssumption
<1>4. IsFiniteSet(set) /\ Cardinality(set) = Len(members)
    BY <1>3, DistinctHistory
<1>5. \A l \in set : Ranked(rows[l]) /\ SoundRow(rows[l])
    <2>1. SUFFICES ASSUME NEW l \in set PROVE Ranked(rows[l]) /\ SoundRow(rows[l])
        OBVIOUS
    <2>2. l \in ToSet(Listings(Suite))
        BY <2>1, MembersHaveRows
    <2>3. Ranked(TractionOf(c, priors)[l]) /\ SoundRow(TractionOf(c, priors)[l])
        BY <2>2, RowIsSound
    <2> QED
        BY <2>3
<1>6. \A l \in set : found[l] = rows[l]
    <2>1. SUFFICES ASSUME NEW l \in set PROVE found[l] = rows[l]
        OBVIOUS
    <2>2. LookedUp(y, l) = TractionOf(c, priors)[l]
        BY <1>2, <2>1, ReportLooksUpRows
    <2> QED
        BY <2>1, <2>2
<1>7. Comparable(set, rows)
    <2>1. set \subseteq Nat
        BY <1>3 DEF ToSet
    <2> QED
        BY <1>5, <2>1 DEF Comparable
<1>8. FitsAll(own, Report(c, t)) /\ \A v, w \in own : v = w
    <2>1. \A v, w \in supplied : v.report.thesis = w.report.thesis => v = w
        BY DEF Acceptable
    <2> QED
        BY <2>1, OwnReviewsFit DEF Own
<1>9. Len(y.rows) = y.quality.union
    <2>1. y.quality.union = Cardinality(DOMAIN Report(c, t).rows)
        BY <1>1 DEF IsQuality
    <2>2. DOMAIN Report(c, t).rows = set
        BY <1>2, DirectIsFinite
    <2>3. DOMAIN y.rows = 1..Len(members) /\ Len(members) \in Nat
        BY <1>1, <1>3
    <2>4. Len(y.rows) = Len(members)
        BY <2>3
    <2> QED
        BY <1>4, <2>1, <2>2, <2>4
<1>10. SoundQuality(y.quality)
    BY <1>1, <1>2, <1>8, QualityIsSound
<1> HIDE DEF own, found
<1>11. /\ IsFiniteSet(Candidates(members, rows, Policy))
       /\ Candidates(members, rows, Policy) \subseteq set
       /\ Len(y.queue) = Cardinality(Candidates(members, rows, Policy))
       /\ ToSet(y.queue) = Candidates(members, rows, Policy)
       /\ \A i, j \in DOMAIN y.queue : i < j => Before(y.queue[i], y.queue[j], rows)
    BY <1>1, <1>4, <1>7, QueueIsOrdered
<1>12. SoundQueue(y.queue, members, found, Policy)
    <2>1. Candidates(members, found, Policy) = Candidates(members, rows, Policy)
        BY <1>6 DEF Candidates
    <2>2. \A i, j \in DOMAIN y.queue : i < j => Before(y.queue[i], y.queue[j], found)
        <3>1. \A i \in DOMAIN y.queue : found[y.queue[i]] = rows[y.queue[i]]
            BY <1>6, <1>11 DEF ToSet
        <3> QED
            BY <1>11, <3>1 DEF Before
    <2> QED
        BY <1>11, <2>1, <2>2 DEF SoundQueue
<1>13. SoundComparison(y.comparison)
    <2>1. Len(y.queue) \in Nat /\ Len(y.queue) <= Cardinality(set)
        BY <1>4, <1>11, SmallerUnlessEqual
    <2> QED
        BY <1>1, <1>2, <1>8, <2>1, ComparisonIsSound
<1>14. \A l \in set : SoundRow(found[l])
    BY <1>5, <1>6
<1> QED
    BY <1>1, <1>9, <1>10, <1>12, <1>13, <1>14 DEF SoundReport, found, LookedUp

LEMMA InputsAreSound ==
    ASSUME NEW known, Known(known), NEW c \in known, NEW priors \in Seq(known), NEW supplied,
           Acceptable(c, priors, supplied)
    PROVE  SoundInputs(Inputs(c, priors, supplied))
<1> DEFINE canonical == Canonical(priors)
           inputs == Inputs(c, priors, supplied)
<1>1. /\ canonical \in Seq(known) /\ DOMAIN canonical = DOMAIN priors
      /\ ToSet(canonical) = ToSet(priors)
      /\ \A i, j \in DOMAIN priors : i < j => ~Earlier(canonical[j], canonical[i])
      /\ (\A i, j \in DOMAIN priors : priors[i] = priors[j] => i = j)
            => \A i, j \in DOMAIN priors : canonical[i] = canonical[j] => i = j
    BY CanonicalIsSorted
<1>2. Cardinality(ToSet(priors)) = Len(priors) /\ c \notin ToSet(priors)
    BY DEF Acceptable
<1>3. \A i, j \in DOMAIN priors : canonical[i] = canonical[j] => i = j
    BY <1>1, <1>2, DistinctHistory
<1>4. inputs.current = Binding(c) /\ inputs.priors = [i \in DOMAIN priors |-> Binding(canonical[i])]
    BY DEF Inputs
<1> HIDE DEF canonical, inputs
<1>5. \A i \in DOMAIN priors : canonical[i] \in known /\ canonical[i] \in ToSet(priors)
    <2>1. \A i \in DOMAIN canonical : canonical[i] \in ToSet(canonical)
        BY DEF ToSet
    <2>2. \A i \in DOMAIN canonical : canonical[i] \in known
        BY <1>1
    <2> QED
        BY <1>1, <2>1, <2>2
<1>6. \A e : Binding(e).run = e.run /\ Binding(e).at = e.at /\ Binding(e).sha = e.sha
    BY DEF Binding
<1>7. \A e \in known : e.sha = Digest[e.run] /\ e.run \in Runs /\ e.at \in Nat /\ e.run \in Nat
    <2>1. \A e \in known : e.sha = Digest[e.run]
        BY DEF Known, WellMade
    <2> QED
        BY <2>1, KnownTypes
<1>8. \A e, f \in known : Binding(e).sha = Binding(f).sha => e = f
    <2>1. \A r, s \in Runs : Digest[r] = Digest[s] => r = s
        BY RunsAssumption
    <2>2. \A e, f \in known : e.run = f.run => e = f
        BY DEF Known
    <2> QED
        BY <1>6, <1>7, <2>1, <2>2
<1>9. ASSUME NEW i \in DOMAIN priors, NEW j \in DOMAIN priors, i < j
      PROVE  Binding(canonical[i]).at <= Binding(canonical[j]).at
             /\ Binding(canonical[i]).sha # Binding(canonical[j]).sha
    <2>1. ~Earlier(canonical[j], canonical[i])
        BY <1>1, <1>9
    <2>2. canonical[i].at \in Nat /\ canonical[j].at \in Nat
        BY <1>5, <1>7
    <2>3. canonical[i].at <= canonical[j].at
        BY <2>1, <2>2 DEF Earlier
    <2>4. i # j
        BY <1>9
    <2>5. canonical[i] # canonical[j]
        BY <1>3, <2>4
    <2> QED
        BY <1>5, <1>6, <1>8, <2>3, <2>5
<1>10. inputs.current \notin ToSet(inputs.priors)
    <2>1. SUFFICES ASSUME NEW i \in DOMAIN priors, Binding(canonical[i]) = Binding(c) PROVE FALSE
        BY <1>4 DEF ToSet
    <2>2. canonical[i] = c
        BY <1>5, <1>8, <2>1
    <2> QED
        BY <1>2, <1>5, <2>2
<1>11. \A i, j \in DOMAIN inputs.priors :
           i < j => /\ inputs.priors[i].at <= inputs.priors[j].at
                    /\ inputs.priors[i].sha # inputs.priors[j].sha
    BY <1>4, <1>9
<1>12. SoundInputs(inputs)
    BY <1>10, <1>11 DEF SoundInputs
<1> QED
    BY <1>12 DEF inputs

LEMMA AcceptedIsSound ==
    ASSUME ThesisInv, NEW c \in experiments, NEW priors \in Histories,
           NEW supplied \in SUBSET reviews, Acceptable(c, priors, supplied)
    PROVE  /\ Sound(Bundle(c, priors, supplied))
           /\ Verifies(Bundle(c, priors, supplied), c, priors)
<1> PICK x : x = Bundle(c, priors, supplied)
    OBVIOUS
<1>1. /\ x.reviews = supplied /\ x.inputs = Inputs(c, priors, supplied)
    BY BundleFields
<1>2. priors \in Seq(experiments) /\ Known(experiments) /\ IntelligenceInv
    BY ArtifactsAreKnown DEF Histories, ThesisInv
<1>3. Verifies(x, c, priors)
    BY <1>1 DEF Verifies, Identified
<1>4. SoundInputs(x.inputs)
    BY <1>1, <1>2, InputsAreSound
<1>5. ASSUME NEW y \in ToSet(x.theses) PROVE SoundReport(y)
    <2>1. PICK t \in ToSet(Suite) : IsReportOf(y, t, c, TractionOf(c, priors), supplied)
        BY <1>5, ReportShows
    <2> QED
        BY <1>2, <2>1, ReportIsSound
<1>6. Sound(x)
    BY <1>4, <1>5 DEF Sound
<1> QED
    BY <1>3, <1>6

(* The checks that the reports make of their own numbers never refuse what *)
(* was computed from inputs that were accepted, and neither does the       *)
(* verification before the publication.                                    *)
THEOREM AcceptedIsBuilt == ThesisSpec => []AcceptedInputsAreBuilt
<1>1. ThesisInv => AcceptedInputsAreBuilt
    BY AcceptedIsSound DEF AcceptedInputsAreBuilt
<1> QED
    BY <1>1, ThesisInvariance, PTL
=============================================================================
