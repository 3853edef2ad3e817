-------------------------- MODULE WorkdirLifecycle --------------------------
(***************************************************************************)
(* The life of one experiment workdir: the process that runs the           *)
(* experiment and the processes that resume it, the operating-system lock  *)
(* on run.lock, crash-safe publication of the artifact through a temporary *)
(* ZIP and a create-only link, and the removal of the workdir.             *)
(*                                                                         *)
(* Every step is one or a few system calls; a process may be killed        *)
(* between any two, which releases its lock and nothing else. What happens *)
(* between taking the lock and the derived reports is ProbeCollection's.   *)
(***************************************************************************)
EXTENDS Integers, FiniteSets

CONSTANTS
    Runner,   \* the process of analyst-experiment run
    Resumers, \* the processes of analyst-experiment resume
    Nobody    \* the holder of a free lock

ASSUME ProcessAssumption ==
    /\ IsFiniteSet(Resumers)
    /\ Runner \notin Resumers
    /\ Nobody \notin {Runner} \cup Resumers

VARIABLES
    exists,    \* does the workdir exist?
    entries,   \* what it contains
    lockFile,  \* inode of run.lock, while it is one of the entries
    inodes,    \* inodes of run.lock created so far
    holder,    \* which process holds the lock on each inode
    temporary, \* the temporary ZIP next to the artifact
    artifact,  \* the artifact under its final name
    pc,        \* where each process is
    handle,    \* inode of the run.lock it opened
    removing   \* directory entries its rmtree still has to remove

disk == <<exists, entries, lockFile, inodes, temporary, artifact>>
vars == <<disk, holder, pc, handle, removing>>

-----------------------------------------------------------------------------
Process == {Runner} \cup Resumers

Entry == {"lock", "manifest", "run_state", "evidence", "derived"}
ZipStates == {"absent", "partial", "whole"}

(* holding the lock with the intention to collect and publish *)
Collecting == {"initialise", "write_state", "collect", "derive", "prepare",
               "write_zip", "verify", "publish", "discard_temporary"}
Owning == Collecting \cup {"preflight", "look_for_artifact", "release_success",
                           "release_failure", "discard_failure"}
Removing == {"rmtree", "rmdir"}
Ended == {"succeeded", "failed", "refused", "killed"}

Init ==
    /\ exists = FALSE
    /\ entries = {}
    /\ lockFile = 0
    /\ inodes = 0
    /\ holder = <<>>
    /\ temporary = "absent"
    /\ artifact = "absent"
    /\ pc = [p \in Process |-> IF p = Runner THEN "allocate" ELSE "open"]
    /\ handle = [p \in Process |-> 0]
    /\ removing = [p \in Process |-> {}]

At(p, where) == pc[p] = where
Goto(p, where) == pc' = [pc EXCEPT ![p] = where]

(* A step under the lock that changes no file, and one that adds files *)
Step(p, from, to) ==
    /\ At(p, from)
    /\ Goto(p, to)
    /\ UNCHANGED <<disk, holder, handle, removing>>

Write(p, from, new, to) ==
    /\ At(p, from)
    /\ exists
    /\ entries' = entries \cup new
    /\ Goto(p, to)
    /\ UNCHANGED <<exists, lockFile, inodes, temporary, artifact, holder,
                   handle, removing>>

WriteZip(p, from, tmp, final, to) ==
    /\ At(p, from)
    /\ temporary' = tmp
    /\ artifact' = final
    /\ Goto(p, to)
    /\ UNCHANGED <<exists, entries, lockFile, inodes, holder, handle, removing>>

-----------------------------------------------------------------------------
(* _allocate_run_paths: a run only starts in a workdir it created. *)
Allocate ==
    /\ At(Runner, "allocate")
    /\ ~exists
    /\ artifact = "absent"
    /\ exists' = TRUE
    /\ Goto(Runner, "open")
    /\ UNCHANGED <<entries, lockFile, inodes, temporary, artifact, holder,
                   handle, removing>>

(* WorkdirLock.acquire opens run.lock and creates it, and the workdir with *)
(* it, when it is not there. Resumes are told the path by the run ...      *)
Open(p) ==
    /\ At(p, "open")
    /\ ~At(Runner, "allocate")
    /\ exists' = TRUE
    /\ IF "lock" \in entries
       THEN /\ handle' = [handle EXCEPT ![p] = lockFile]
            /\ UNCHANGED <<entries, lockFile, inodes, holder>>
       ELSE /\ inodes' = inodes + 1
            /\ lockFile' = inodes + 1
            /\ entries' = entries \cup {"lock"}
            /\ holder' = [k \in 1..(inodes + 1) |->
                             IF k <= inodes THEN holder[k] ELSE Nobody]
            /\ handle' = [handle EXCEPT ![p] = inodes + 1]
    /\ Goto(p, "lock")
    /\ UNCHANGED <<temporary, artifact, removing>>

(* ... and then takes the lock of the file it opened, or refuses. *)
Lock(p) ==
    /\ At(p, "lock")
    /\ IF holder[handle[p]] = Nobody
       THEN /\ holder' = [holder EXCEPT ![handle[p]] = p]
            /\ Goto(p, IF p = Runner THEN "initialise" ELSE "preflight")
            /\ UNCHANGED handle
       ELSE /\ handle' = [handle EXCEPT ![p] = 0]
            /\ Goto(p, "refused")
            /\ UNCHANGED holder
    /\ UNCHANGED <<disk, removing>>

(* run: the manifest, then the immutable run state, atomically *)
Initialise == Write(Runner, "initialise", {"manifest"}, "write_state")
WriteRunState == Write(Runner, "write_state", {"run_state"}, "collect")

(* resume: load_resume_preflight, then an artifact that is already there   *)
(* is verified and reported, otherwise derived outputs are discarded.      *)
Preflight(p) ==
    IF {"run_state", "manifest"} \subseteq entries
    THEN Step(p, "preflight", "look_for_artifact")
    ELSE Step(p, "preflight", "release_failure")

FindArtifact(p) ==
    /\ artifact # "absent"
    /\ Step(p, "look_for_artifact",
            IF artifact = "whole" THEN "release_success" ELSE "release_failure")

(* mutant: resume does not look for the artifact *)
ClearWithoutLooking(p) ==
    /\ At(p, "look_for_artifact")
    /\ entries' = entries \ {"derived"}
    /\ Goto(p, "collect")
    /\ UNCHANGED <<exists, lockFile, inodes, temporary, artifact, holder,
                   handle, removing>>

ClearDerivedOutputs(p) ==
    /\ At(p, "look_for_artifact")
    /\ artifact = "absent"
    /\ entries' = entries \ {"derived"}
    /\ Goto(p, "collect")
    /\ UNCHANGED <<exists, lockFile, inodes, temporary, artifact, holder,
                   handle, removing>>

Collect(p) == Write(p, "collect", {"evidence"}, "derive")
Derive(p) == Write(p, "derive", {"derived"}, "prepare")

(* prepare_temporary_artifact removes what a killed process left;          *)
(* package_workdir creates the ZIP anew and fills it.                      *)
PrepareTemporary(p) == WriteZip(p, "prepare", "absent", artifact, "write_zip")
CreateFinalZip(p) == \* mutant: the ZIP is written under its final name
    /\ temporary = "absent"
    /\ artifact = "absent"
    /\ WriteZip(p, "write_zip", "partial", "partial", "verify")
CreateZip(p) ==
    /\ temporary = "absent"
    /\ WriteZip(p, "write_zip", "partial", artifact, "verify")
CompleteZip(p) ==
    /\ temporary = "partial"
    /\ WriteZip(p, "verify", "whole", artifact, "publish")

(* publish_artifact_create_only: link, then unlink; a file that is there   *)
(* already is never replaced.                                              *)
Publish(p) ==
    IF artifact = "absent"
    THEN WriteZip(p, "publish", temporary, temporary, "discard_temporary")
    ELSE Step(p, "publish", "discard_failure")
DiscardTemporary(p) ==
    WriteZip(p, "discard_temporary", "absent", artifact, "release_success")

(* Any stage can fail: the source, the disk, a verification. A failure     *)
(* while packaging discards the temporary ZIP, if it can; the workdir is   *)
(* preserved, also when only the last event could not be logged.           *)
Fail(p) ==
    \/ \E at \in {"initialise", "write_state", "collect", "derive", "prepare",
                   "release_success"} :
          Step(p, at, "release_failure")
    \/ \E at \in {"write_zip", "verify", "publish", "discard_temporary"} :
          Step(p, at, "discard_failure")
DiscardFailure(p) ==
    \E left \in {"absent", temporary} :
        WriteZip(p, "discard_failure", left, artifact, "release_failure")

(* mutant: the workdir is removed after a failure, too *)
ReleaseAndRemove(p) ==
    /\ pc[p] \in {"release_success", "release_failure"}
    /\ holder' = [holder EXCEPT ![handle[p]] = Nobody]
    /\ handle' = [handle EXCEPT ![p] = 0]
    /\ Goto(p, "scan")
    /\ UNCHANGED <<disk, removing>>

(* The with statement releases the lock before the workdir is removed. *)
Release(p) ==
    /\ pc[p] \in {"release_success", "release_failure"}
    /\ holder' = [holder EXCEPT ![handle[p]] = Nobody]
    /\ handle' = [handle EXCEPT ![p] = 0]
    /\ Goto(p, IF At(p, "release_success") THEN "scan" ELSE "failed")
    /\ UNCHANGED <<disk, removing>>

(* shutil.rmtree lists the directory, removes what it listed in any order  *)
(* and then the directory, which must be empty.                            *)
Scan(p) ==
    /\ At(p, "scan")
    /\ IF exists
       THEN /\ removing' = [removing EXCEPT ![p] = entries]
            /\ Goto(p, "rmtree")
       ELSE /\ Goto(p, "failed")
            /\ UNCHANGED removing
    /\ UNCHANGED <<disk, holder, handle>>

RemoveEntry(p) ==
    /\ At(p, "rmtree")
    /\ \E e \in removing[p] :
         IF e \in entries
         THEN /\ entries' = entries \ {e}
              /\ lockFile' = IF e = "lock" THEN 0 ELSE lockFile
              /\ removing' = [removing EXCEPT ![p] = @ \ {e}]
              /\ UNCHANGED pc
         ELSE /\ Goto(p, "failed")
              /\ removing' = [removing EXCEPT ![p] = {}]
              /\ UNCHANGED <<entries, lockFile>>
    /\ UNCHANGED <<exists, inodes, temporary, artifact, holder, handle>>

RemoveDirectory(p) ==
    /\ At(p, "rmtree")
    /\ removing[p] = {}
    /\ IF exists /\ entries = {}
       THEN exists' = FALSE /\ Goto(p, "succeeded")
       ELSE Goto(p, "failed") /\ UNCHANGED exists
    /\ UNCHANGED <<entries, lockFile, inodes, temporary, artifact, holder,
                   handle, removing>>

(* The operating system releases the lock of a process that dies. *)
Kill(p) ==
    /\ pc[p] \notin Ended \cup {"allocate", "open"}
    /\ Goto(p, "killed")
    /\ holder' = IF pc[p] \in Owning THEN [holder EXCEPT ![handle[p]] = Nobody]
                 ELSE holder
    /\ handle' = [handle EXCEPT ![p] = 0]
    /\ removing' = [removing EXCEPT ![p] = {}]
    /\ UNCHANGED disk

-----------------------------------------------------------------------------
ProcessStep(p) ==
    \/ p = Runner /\ (Allocate \/ Initialise \/ WriteRunState)
    \/ Open(p) \/ Lock(p) \/ Preflight(p) \/ FindArtifact(p)
    \/ ClearDerivedOutputs(p) \/ Collect(p) \/ Derive(p)
    \/ PrepareTemporary(p) \/ CreateZip(p) \/ CompleteZip(p)
    \/ Publish(p) \/ DiscardTemporary(p)
    \/ Fail(p) \/ DiscardFailure(p)
    \/ Release(p) \/ Scan(p) \/ RemoveEntry(p) \/ RemoveDirectory(p)

AllEnded == (\A p \in Process : pc[p] \in Ended) /\ UNCHANGED vars

Next == (\E p \in Process : ProcessStep(p) \/ Kill(p)) \/ AllEnded

Spec == Init /\ [][Next]_vars

-----------------------------------------------------------------------------
Holds(p) == pc[p] \in Owning

(* The types of the variables, and the lock of a process is on the inode   *)
(* of its own handle.                                                      *)
TypeOK ==
    /\ exists \in BOOLEAN
    /\ entries \subseteq Entry
    /\ inodes \in Nat
    /\ lockFile \in 0..inodes
    /\ holder \in [1..inodes -> Process \cup {Nobody}]
    /\ temporary \in ZipStates
    /\ artifact \in ZipStates
    /\ pc \in [Process -> Owning \cup Removing \cup Ended
                          \cup {"allocate", "open", "lock", "scan"}]
    /\ handle \in [Process -> 0..inodes]
    /\ removing \in [Process -> SUBSET Entry]
    /\ \A p \in Process : Holds(p) => handle[p] # 0 /\ holder[handle[p]] = p

(* Although a removed run.lock lets two processes hold a lock each, on two *)
(* inodes, no two ever collect into or publish from the workdir: the       *)
(* second finds the artifact or no run state.                              *)
OneCollector ==
    \A p, q \in Process : pc[p] \in Collecting /\ pc[q] \in Collecting => p = q

(* Section 31.2: the final name only ever shows a complete artifact, and   *)
(* success is only reported when it is there.                              *)
ArtifactIsWhole ==
    /\ artifact # "partial"
    /\ \A p \in Process :
          pc[p] \in {"release_success", "scan", "succeeded"} \cup Removing =>
              artifact = "whole"

(* Sections 4.3 and 33: nothing a resume needs is lost before the verified *)
(* artifact is published, whichever processes fail, die or race.           *)
EvidenceOutlivesFailures ==
    [][ /\ artifact = "absent" => entries \ {"derived"} \subseteq entries'
        /\ artifact = "whole" => artifact' = "whole" ]_vars

(* Section 5: exactly one process owns the workdir at a time. While one    *)
(* holds the lock, nobody removes anything from the workdir, except the    *)
(* holder its derived outputs.                                             *)
LockedWorkdirIsPrivate ==
    [][ (\E p \in Process : Holds(p) /\ Holds(p)') =>
            entries \ {"derived"} \subseteq entries' ]_vars
=============================================================================
