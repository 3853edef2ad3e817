---------------------------- MODULE SessionState ----------------------------
(***************************************************************************)
(* The persistent anonymous session profile: a cookie jar and its          *)
(* metadata, loaded when a session is opened and replaced when it is       *)
(* closed, by processes that may fail or be killed at any point. A session *)
(* is its number; contexts says what was recorded about it.                *)
(*                                                                         *)
(* Names lead to inodes: a file that is replaced by os.replace keeps its   *)
(* bytes for whoever still writes to it.                                   *)
(***************************************************************************)
EXTENDS Integers, Sequences

CONSTANTS
    Process,      \* processes that open sessions on the profile
    MaxSessions,  \* bound: sessions ever opened
    MaxInodes,    \* bound: files ever created
    MaxTime       \* bound: clock readings

(* There is room for a profile that exists before the first session. *)
ASSUME BoundAssumption ==
    /\ {MaxSessions, MaxInodes, MaxTime} \subseteq Nat
    /\ MaxInodes >= 2 /\ MaxTime >= 1

VARIABLES
    exists,    \* does the profile directory exist?
    file,      \* the inode of each name in it, 0 without
    data,      \* of each inode: the session that wrote it, 0 when truncated
    contexts,  \* of each session: the ProbeContext recorded with its runs
    pc,        \* where each process is
    session,   \* the session it has open
    target     \* the inode it writes to

disk == <<exists, file, data>>
vars == <<disk, contexts, pc, session, target>>

-----------------------------------------------------------------------------
Name == {"cookies", "metadata", "cookies.tmp", "metadata.tmp"}
Temporary == {"cookies.tmp", "metadata.tmp"}
Time == 1..MaxTime
Session == 1..Len(contexts)

(* What a file holds: the session it was written by, 0 if it is truncated. *)
Held(name) == data[file[name]]
Present(name) == file[name] # 0
At(p, l) == pc[p] = l
Goto(p, l) == pc' = [pc EXCEPT ![p] = l]

(* Metadata from before instance identities existed has none. *)
NoIdentity == 0
Legacy == [id |-> NoIdentity, jar |-> 0, created |-> 1]

Init ==
    /\ \/ /\ exists = FALSE
          /\ file = [n \in Name |-> 0]
          /\ data = <<>>
          /\ contexts = <<>>
       \/ /\ exists = TRUE
          /\ file = [n \in Name |-> IF n = "cookies" THEN 1
                                    ELSE IF n = "metadata" THEN 2 ELSE 0]
          /\ data = <<1, 1>>
          /\ contexts = <<Legacy>>
    /\ pc = [p \in Process |-> "closed"]
    /\ session = [p \in Process |-> 0]
    /\ target = [p \in Process |-> 0]

-----------------------------------------------------------------------------
(* A session with this identity, cookie jar and creation time is open, and *)
(* its context is what probe runs are recorded with.                       *)
Opened(p, id, jar, created) ==
    /\ contexts' = Append(contexts, [id |-> id, jar |-> jar, created |-> created])
    /\ session' = [session EXCEPT ![p] = Len(contexts) + 1]
    /\ Goto(p, "open")

NewIdentity == Len(contexts) + 1

(* _load_persistent_state: profile_exists, cookie_exists, metadata_exists  *)
LookForProfile(p) ==
    /\ At(p, "closed")
    /\ Goto(p, IF exists THEN "expect_files" ELSE "expect_nothing")
    /\ UNCHANGED <<disk, contexts, session, target>>

LookForCookies(p) ==
    /\ \/ At(p, "expect_files") /\ Goto(p, IF Present("cookies") THEN "load" ELSE "closed")
       \/ At(p, "expect_nothing") /\ Goto(p, IF Present("cookies") THEN "appeared" ELSE "absent")
    /\ UNCHANGED <<disk, contexts, session, target>>

(* Without a profile directory the session starts a profile of its own.    *)
LookForMetadata(p) ==
    /\ pc[p] \in {"load", "appeared", "absent"}
    /\ Len(contexts) < MaxSessions
    /\ IF Present("metadata") # (pc[p] # "absent")
       THEN Goto(p, "closed") /\ UNCHANGED <<contexts, session>>
       ELSE IF At(p, "load")
       THEN Goto(p, "read_metadata") /\ UNCHANGED <<contexts, session>>
       ELSE \E now \in Time : Opened(p, NewIdentity, 0, now)
    /\ UNCHANGED <<disk, target>>

(* The metadata must be valid and not from the future, the jar readable.   *)
ReadMetadata(p) ==
    /\ At(p, "read_metadata")
    /\ \E now \in Time :
         IF Present("metadata") /\ Held("metadata") # 0
              /\ contexts[Held("metadata")].created <= now
         THEN /\ session' = [session EXCEPT ![p] = Held("metadata")]
              /\ Goto(p, "read_cookies")
         ELSE /\ Goto(p, "closed")
              /\ UNCHANGED session
    /\ UNCHANGED <<disk, contexts, target>>

(* mutant: the profile is as old as the session *)
ReadCookiesAnew(p) ==
    /\ At(p, "read_cookies")
    /\ Len(contexts) < MaxSessions
    /\ \E now \in Time :
         Opened(p, IF contexts[session[p]].id # NoIdentity
                   THEN contexts[session[p]].id ELSE NewIdentity,
                Held("cookies"), now)
    /\ UNCHANGED <<disk, target>>

(* mutant: an identity of its own for every session *)
ReadCookiesOnly(p) ==
    /\ At(p, "read_cookies")
    /\ Len(contexts) < MaxSessions
    /\ Opened(p, NewIdentity, Held("cookies"), contexts[session[p]].created)
    /\ UNCHANGED <<disk, target>>

ReadCookies(p) ==
    /\ At(p, "read_cookies")
    /\ Len(contexts) < MaxSessions
    /\ IF Present("cookies") /\ Held("cookies") # 0
       THEN LET saved == contexts[session[p]] IN
            Opened(p, IF saved.id # NoIdentity THEN saved.id ELSE NewIdentity,
                   Held("cookies"), saved.created)
       ELSE /\ session' = [session EXCEPT ![p] = 0]
            /\ Goto(p, "closed")
            /\ UNCHANGED contexts
    /\ UNCHANGED <<disk, target>>

-----------------------------------------------------------------------------
(* _persist_persistent_state, when the session is closed *)
MakeDirectory(p) ==
    /\ At(p, "open")
    /\ exists' = TRUE
    /\ Goto(p, "open_cookies")
    /\ UNCHANGED <<file, data, contexts, session, target>>

(* Opening a file for writing truncates it, or creates it. *)
Truncate(p, from, name, to) ==
    /\ At(p, from)
    /\ exists
    /\ IF Present(name)
       THEN /\ data' = [data EXCEPT ![file[name]] = 0]
            /\ target' = [target EXCEPT ![p] = file[name]]
            /\ UNCHANGED file
       ELSE /\ Len(data) < MaxInodes
            /\ data' = Append(data, 0)
            /\ file' = [file EXCEPT ![name] = Len(data) + 1]
            /\ target' = [target EXCEPT ![p] = Len(data) + 1]
    /\ Goto(p, to)
    /\ UNCHANGED <<exists, contexts, session>>

Fill(p, from, to) ==
    /\ At(p, from)
    /\ data' = [data EXCEPT ![target[p]] = session[p]]
    /\ Goto(p, to)
    /\ UNCHANGED <<exists, file, contexts, session, target>>

Replace(p, from, name, with, to) ==
    /\ At(p, from)
    /\ Present(with)
    /\ file' = [file EXCEPT ![name] = file[with], ![with] = 0]
    /\ Goto(p, to)
    /\ session' = [session EXCEPT ![p] = IF to = "closed" THEN 0 ELSE @]
    /\ UNCHANGED <<exists, data, contexts, target>>

(* mutant: the cookie jar is written in place *)
OpenCookiesInPlace(p) == Truncate(p, "open_cookies", "cookies", "write_cookies")

OpenCookies(p) == Truncate(p, "open_cookies", "cookies.tmp", "write_cookies")
WriteCookies(p) == Fill(p, "write_cookies", "open_metadata")
OpenMetadata(p) == Truncate(p, "open_metadata", "metadata.tmp", "write_metadata")
WriteMetadata(p) == Fill(p, "write_metadata", "replace_cookies")
ReplaceCookies(p) ==
    Replace(p, "replace_cookies", "cookies", "cookies.tmp", "replace_metadata")
ReplaceMetadata(p) ==
    Replace(p, "replace_metadata", "metadata", "metadata.tmp", "closed")

Saving == {"open", "open_cookies", "write_cookies", "open_metadata",
           "write_metadata", "replace_cookies", "replace_metadata"}

(* Any of these calls can fail: the temporary files are removed.           *)
SaveFails(p) ==
    /\ pc[p] \in Saving
    /\ file' = [n \in Name |-> IF n \in Temporary THEN 0 ELSE file[n]]
    /\ session' = [session EXCEPT ![p] = 0]
    /\ Goto(p, "closed")
    /\ UNCHANGED <<exists, data, contexts, target>>

Kill(p) ==
    /\ ~At(p, "closed")
    /\ session' = [session EXCEPT ![p] = 0]
    /\ Goto(p, "closed")
    /\ UNCHANGED <<disk, contexts, target>>

(* "Delete the local profile directory to create a new baseline": by the   *)
(* user, while no session is open.                                         *)
Reset ==
    /\ exists
    /\ \A p \in Process : At(p, "closed")
    /\ exists' = FALSE
    /\ file' = [n \in Name |-> 0]
    /\ UNCHANGED <<data, contexts, pc, session, target>>

Next ==
    \/ \E p \in Process :
         \/ LookForProfile(p) \/ LookForCookies(p) \/ LookForMetadata(p)
         \/ ReadMetadata(p) \/ ReadCookies(p)
         \/ MakeDirectory(p) \/ OpenCookies(p) \/ WriteCookies(p)
         \/ OpenMetadata(p) \/ WriteMetadata(p)
         \/ ReplaceCookies(p) \/ ReplaceMetadata(p)
         \/ SaveFails(p) \/ Kill(p)
    \/ Reset

Spec == Init /\ [][Next]_vars

-----------------------------------------------------------------------------
(* The types of the variables; a session that is being saved is recorded,  *)
(* and a name never leads to an inode that was not created.                *)
TypeOK ==
    /\ exists \in BOOLEAN
    /\ Len(data) <= MaxInodes
    /\ file \in [Name -> 0..Len(data)]
    /\ data \in Seq(0..Len(contexts))
    /\ contexts \in Seq([id : 0..Len(contexts), jar : 0..Len(contexts), created : Time])
    /\ \A s \in Session : contexts[s].jar < s
    /\ pc \in [Process -> Saving \cup {"closed", "expect_files", "expect_nothing",
                 "load", "appeared", "absent", "read_metadata", "read_cookies"}]
    /\ session \in [Process -> 0..Len(contexts)]
    /\ \A p \in Process : pc[p] \in Saving \cup {"read_cookies"} => session[p] # 0
    /\ \A n \in Name : Present(n) => exists
    /\ target \in [Process -> 0..Len(data)]

(* market-observation.md: an instance identity is one local profile. Runs  *)
(* recorded under one identity saw one profile age, and after the first of *)
(* them only cookies that sessions of that identity had left.              *)
CohortIsOneProfile ==
    \A s \in Session :
        LET earlier == {r \in 1..(s - 1) : contexts[r].id = contexts[s].id} IN
        /\ \A r \in earlier : contexts[r].created = contexts[s].created
        /\ earlier # {} /\ contexts[s].jar # 0 =>
              contexts[contexts[s].jar].id \in {contexts[s].id, NoIdentity}

Usable == /\ Present("cookies") /\ Held("cookies") # 0
          /\ Present("metadata") /\ Held("metadata") # 0
Identity == contexts[Held("metadata")].id

(* ARCHITECTURE.md: the instance identity survives ordinary cookie churn,  *)
(* and changes when the local profile is explicitly reset.                 *)
IdentityChangesOnlyByReset ==
    [][ Usable /\ Usable' /\ Identity # NoIdentity => Identity' = Identity ]_vars

(* Replacing is atomic: once it can be opened, a profile stays so whatever *)
(* fails, until the user deletes it.                                       *)
ProfileStaysUsable == [][ Usable => Usable' \/ ~exists' ]_vars
=============================================================================
