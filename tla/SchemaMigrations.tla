------------------------- MODULE SchemaMigrations -------------------------
(* Opening the shared SQLite database (storage/sqlite.py).  Every store     *)
(* opens it through SQLiteDatabase, whose constructor reads the version of  *)
(* the schema and then runs each later migration in a transaction of its    *)
(* own.  The version is read outside those transactions, so another process *)
(* may migrate the database after the reading and before the first of them. *)
EXTENDS Integers, FiniteSets

CONSTANTS
    Opener,             \* the processes that open the database
    OldVersions,        \* the versions a database may have before the first opening
    OpeningsOverlap     \* whether an opening may start while another migrates

ASSUME OpenerAssumption == Opener # {}
ASSUME VersionAssumption == OldVersions \subseteq Nat
ASSUME OverlapAssumption == OpeningsOverlap \in BOOLEAN

SchemaVersion == 12

(* Every migration but these only creates what does not exist; these add a  *)
(* column, which fails when the table has it.                               *)
AddsColumn == {6, 12}

VARIABLES
    userVersion,        \* PRAGMA user_version
    schema,             \* the migrations whose tables and columns exist
    opener              \* what each process does with the database

schemaVars == <<userVersion, schema, opener>>

Closed == [at |-> "closed", next |-> 0]
Opened == [at |-> "open", next |-> 0]
Refused == [at |-> "failed", next |-> 0]
Migrating(t) == [at |-> "migrating", next |-> t]

(* What is left to do for a process that has seen the database at v.        *)
From(v) == IF v = SchemaVersion THEN Opened ELSE Migrating(v + 1)

SchemaTypeOK ==
    /\ userVersion \in Nat
    /\ schema \subseteq 1..SchemaVersion
    /\ opener \in [Opener -> {Closed, Opened, Refused}
                               \cup {Migrating(t) : t \in 1..SchemaVersion}]

SchemaInit ==
    /\ userVersion \in OldVersions
    /\ schema = 1..(IF userVersion > SchemaVersion THEN SchemaVersion ELSE userVersion)
    /\ opener = [p \in Opener |-> Closed]

---------------------------------------------------------------------------

(* The version is read, and one newer than the program is refused.          *)
ReadVersion(p) ==
    /\ opener[p] = Closed
    /\ OpeningsOverlap \/ \A o \in Opener : opener[o].at # "migrating"
    /\ opener' = [opener EXCEPT ![p] = IF userVersion > SchemaVersion
                                       THEN Refused ELSE From(userVersion)]
    /\ UNCHANGED <<userVersion, schema>>

(* One migration and the version it leads to, in a transaction; a failing   *)
(* statement rolls it back and ends the opening.                            *)
Migrate(p) ==
    LET t == opener[p].next IN
    /\ opener[p].at = "migrating"
    /\ IF t \in AddsColumn \cap schema
       THEN /\ opener' = [opener EXCEPT ![p] = Refused]
            /\ UNCHANGED <<userVersion, schema>>
       ELSE /\ schema' = schema \cup {t}
            /\ userVersion' = t
            /\ opener' = [opener EXCEPT ![p] = From(t)]

(* BEGIN IMMEDIATE gives up when another process holds the write lock for   *)
(* longer than the busy timeout.                                            *)
MigrationLockTimeout(p) ==
    /\ opener[p].at = "migrating"
    /\ \E o \in Opener \ {p} : opener[o].at = "migrating"
    /\ opener' = [opener EXCEPT ![p] = Refused]
    /\ UNCHANGED <<userVersion, schema>>

(* The process ends, at any point; a transaction it has open is rolled back *)
(* by the next connection.                                                  *)
Leave(p) ==
    /\ opener[p] # Closed
    /\ opener' = [opener EXCEPT ![p] = Closed]
    /\ UNCHANGED <<userVersion, schema>>

SchemaNext ==
    \E p \in Opener :
        ReadVersion(p) \/ Migrate(p) \/ MigrationLockTimeout(p) \/ Leave(p)

SchemaSpec == SchemaInit /\ [][SchemaNext]_schemaVars

---------------------------------------------------------------------------

(* However openings and crashes fall, a database that nobody is migrating   *)
(* can be opened again: each column that exists belongs to a migration the  *)
(* version already counts, so that no later opening adds it a second time   *)
(* and fails for ever (sqlite.py:506-531).                                  *)
DatabaseStaysUsable ==
    (\A p \in Opener : opener[p].at # "migrating")
        => \A t \in AddsColumn \cap schema : t <= userVersion

(* Every store works on the whole schema: whatever overlaps, fails or is    *)
(* killed, the tables in the database are those of one version, never older *)
(* than the version it states, and a process that the constructor let       *)
(* through has all of them (sqlite.py:506-531).                             *)
SchemaIsOfAVersion ==
    /\ \E v \in 0..SchemaVersion :
          schema = 1..v /\ (userVersion <= v \/ v = SchemaVersion)
    /\ \A p \in Opener : opener[p] = Opened => schema = 1..SchemaVersion

(* The database is of this program's version, or of a later one, and nobody *)
(* is still migrating it.                                                   *)
Settled ==
    /\ userVersion >= SchemaVersion
    /\ \A p \in Opener : opener[p].at # "migrating"

(* Only the first openings after an upgrade can meet in the migrations:     *)
(* once they are over and the version is there, no later openings harm the  *)
(* database, however they overlap.                                          *)
SettledStaysUsable == [](Settled => []DatabaseStaysUsable)
=============================================================================
