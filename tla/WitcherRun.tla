----------------------------- MODULE WitcherRun -----------------------------
(***************************************************************************)
(* The whole run of rustic-witcher anonymize: prepare_for_snapshot,        *)
(* snapshot (module SnapshotLoad), finalize_snapshot and the validations,  *)
(* in the order of main, against one target schema.                        *)
(*                                                                         *)
(* A run is one sequential process.  It dies on the first error it does    *)
(* not swallow, or is killed between any two steps; nothing is rolled      *)
(* back.  It is started again from the top, against whatever the dead run  *)
(* left in the target database and on the local disk.                      *)
(***************************************************************************)
EXTENDS SnapshotLoad

CONSTANTS
    AppUsers,    \* target_application_users
    AppOwner,    \* the role of TARGET_POSTGRES_URL
    ImportRole,  \* the role of SUPERUSER_URL
    Extensions,  \* REQUIRED_PG_EXTENSIONS, {} when the variable is unset
    NoName,      \* the extension whose name is the empty string
    Owned,       \* tables whose id sequence the dump attaches to them
    Fixes,       \* tables whose sequence ownerships.txt attaches
    MaxRuns      \* bound: runs started

ASSUME RunAssumption ==
    /\ MaxRuns \in Nat \ {0}
    /\ Owned \subseteq Tables /\ Fixes \subseteq Tables
    /\ NoName \notin Extensions

VARIABLES
    phase,         \* the statement main is at
    run,           \* number of the run
    todo,          \* what the loop main is in has still to deal with
    dump,          \* the pg_dump file on disk
    schemaExists,  \* the schema exists in the target
    roleExists,    \* the data import role exists in the cluster
    replica,       \* session_replication_role of that role is replica
    importGrants,  \* that role may write to the schema
    owned,         \* tables with a sequence in pg_depend
    seqCovers,     \* seqCovers[t]: files with no id above t's sequence
    granted        \* application users the finalizer has granted access

targetVars == <<schemaExists, importGrants, owned, seqCovers, granted>>
roleVars   == <<roleExists, replica>>
runVars    == <<phase, run, todo, dump, targetVars, roleVars>>
vars       == <<loadVars, runVars>>

Preparing  == {"dump", "drop"}
Rebuilding == {"schema", "extensions", "restore", "role", "alter",
               "importGrants", "fix"}
Finalizing == {"sequences", "setval", "grant", "postsql", "validate", "done"}
Phases     == Preparing \cup Rebuilding \cup {"snapshot"} \cup Finalizing
                        \cup {"dead"}

Stopped == phase \in {"done", "dead"}

NoFiles  == [t \in Tables |-> {}]
NoDump   == [run |-> 0, whole |-> FALSE, cols |-> NoColumns]

\* The rows a table holds, by the file they came from.
Held(t) == {p \in Parquet : copies[t][p] > 0}

\* The roles the run itself works as.
Workers == {AppOwner, ImportRole}

\* The application users that reach the tables.  pg_restore --no-owner makes
\* AppOwner the owner of what it restores, so that as an application user it
\* is in from the restore on, before a row is loaded.  ImportRole has all
\* privileges or is a superuser, or is a member of AppOwner since an earlier
\* run: it is counted from its creation on.  The others need a grant.
Readers ==
    {u \in AppUsers :
        \/ u \in granted
        \/ /\ \E t \in Tables : Exists(targetCols, t)
           /\ u = AppOwner \/ (u = ImportRole /\ roleExists)}

\* An empty target cluster, and the first run about to start.
Init ==
    /\ sourceCols \in [Tables -> SUBSET Columns]
    /\ alters = 0
    /\ mode = "FullLoadOnly"
    /\ targetCols = NoColumns
    /\ snap = "idle" /\ listed = {}
    /\ stage = Unstarted /\ seenCols = NoColumns /\ nextFile = FirstFiles
    /\ srcConn = {} /\ tgtConn = {}
    /\ copies = NoRows /\ torn = {} /\ panicked = FALSE
    /\ phase = "dump" /\ run = 1 /\ todo = {}
    /\ dump = NoDump
    /\ schemaExists = FALSE /\ importGrants = FALSE
    /\ owned = {} /\ seqCovers = NoFiles /\ granted = {}
    /\ roleExists = FALSE /\ replica = FALSE

----------------------------------------------------------------------------
(* TargetDbPreparator *)

PgDump ==
    /\ phase = "dump"
    /\ dump' = [run |-> run, whole |-> TRUE, cols |-> sourceCols]
    /\ phase' = "drop"
    /\ UNCHANGED <<loadVars, run, todo, targetVars, roleVars>>

\* MUTANT of PgDumpFails: the error is logged and swallowed.
PgDumpFailsSwallowed ==
    /\ phase = "dump"
    /\ dump' = [run |-> run, whole |-> FALSE, cols |-> sourceCols]
    /\ phase' = "drop"
    /\ UNCHANGED <<loadVars, run, todo, targetVars, roleVars>>

\* pg_dump fails, or is killed, while it writes the file.
PgDumpFails ==
    /\ phase = "dump"
    /\ \E cols \in {NoColumns, sourceCols} :
          dump' = [run |-> run, whole |-> FALSE, cols |-> cols]
    /\ phase' = "dead"
    /\ UNCHANGED <<loadVars, run, todo, targetVars, roleVars>>

\* required_extensions: splitting the unset variable gives one empty name.
RequiredExtensions == IF Extensions = {} THEN {NoName} ELSE Extensions

\* MUTANT of DropSchema: the rows go, the privileges stay.
DropSchemaKeepingAccess ==
    /\ phase = "drop"
    /\ mode' \in Modes
    /\ targetCols' = NoColumns
    /\ snap' = "idle" /\ listed' = {}
    /\ stage' = Unstarted /\ seenCols' = NoColumns /\ nextFile' = FirstFiles
    /\ srcConn' = {} /\ tgtConn' = {}
    /\ copies' = NoRows /\ torn' = {} /\ panicked' = FALSE
    /\ schemaExists' = FALSE /\ importGrants' = FALSE
    /\ owned' = {} /\ seqCovers' = NoFiles
    /\ phase' \in {"restore", "schema"}
    /\ UNCHANGED <<sourceVars, run, todo, dump, granted, roleVars>>

\* MUTANT of DropSchema: the rows of the last run stay.
DropSchemaKeepingRows ==
    /\ phase = "drop"
    /\ mode' \in Modes
    /\ targetCols' = NoColumns
    /\ snap' = "idle" /\ listed' = {}
    /\ stage' = Unstarted /\ seenCols' = NoColumns /\ nextFile' = FirstFiles
    /\ srcConn' = {} /\ tgtConn' = {} /\ panicked' = FALSE
    /\ schemaExists' = FALSE /\ importGrants' = FALSE
    /\ owned' = {} /\ seqCovers' = NoFiles /\ granted' = {}
    /\ phase' \in {"restore", "schema"}
    /\ UNCHANGED <<sourceVars, run, todo, dump, rowVars, roleVars>>

\* DROP SCHEMA ... CASCADE takes the tables, their rows, their sequences and
\* every privilege on them.  What the dead run's futures remembered is kept
\* until the rows they wrote are gone; mode is read from here on only.
DropSchema ==
    /\ phase = "drop"
    /\ mode' \in Modes
    /\ targetCols' = NoColumns
    /\ snap' = "idle" /\ listed' = {}
    /\ stage' = Unstarted /\ seenCols' = NoColumns /\ nextFile' = FirstFiles
    /\ srcConn' = {} /\ tgtConn' = {}
    /\ copies' = NoRows /\ torn' = {} /\ panicked' = FALSE
    /\ schemaExists' = FALSE /\ importGrants' = FALSE
    /\ owned' = {} /\ seqCovers' = NoFiles /\ granted' = {}
    /\ \/ phase' = "restore"      \* CREATE_EXTENSIONS_IN_SCHEMA is off
       \/ phase' = "schema"
    /\ UNCHANGED <<sourceVars, run, todo, dump, roleVars>>

\* MUTANT of CreateSchema: the list is pushed, not its items.
CreateSchemaNested ==
    /\ phase = "schema"
    /\ schemaExists' = TRUE
    /\ todo' = {RequiredExtensions}
    /\ phase' = "extensions"
    /\ UNCHANGED <<loadVars, run, dump, importGrants, owned, seqCovers, granted,
                   roleVars>>

CreateSchema ==
    /\ phase = "schema"
    /\ schemaExists' = TRUE
    /\ todo' = RequiredExtensions
    /\ phase' = "extensions"
    /\ UNCHANGED <<loadVars, run, dump, importGrants, owned, seqCovers, granted,
                   roleVars>>

\* MUTANT of CreateExtension: the same extension is created again and again.
CreateExtensionForever(x) ==
    /\ phase = "extensions"
    /\ x \in todo /\ x # NoName
    /\ UNCHANGED <<loadVars, phase, run, todo, dump, targetVars, roleVars>>

\* No extension has the empty name: that statement is an error.
CreateExtension(x) ==
    /\ phase = "extensions"
    /\ x \in todo /\ x # NoName
    /\ todo' = todo \ {x}
    /\ UNCHANGED <<loadVars, phase, run, dump, targetVars, roleVars>>

ExtensionsCreated ==
    /\ phase = "extensions" /\ todo = {}
    /\ phase' = "restore"
    /\ UNCHANGED <<loadVars, run, todo, dump, targetVars, roleVars>>

\* The tables R of the dump, and the sequences S, come back; they belong to
\* AppOwner, whom Readers has among the users from here on.
Restored(R, S) ==
    /\ targetCols' = [t \in Tables |-> IF t \in R THEN dump.cols[t] ELSE {}]
    /\ owned' = S
    /\ schemaExists' \in {schemaExists \/ R # {}, TRUE}

Dumped == {t \in Tables : Exists(dump.cols, t)}

\* pg_restore: the errors it reports are logged and swallowed, so any part of
\* the schema may be missing.  The dump file is removed either way.
PgRestore ==
    /\ phase = "restore"
    /\ \/ Restored(Dumped, Owned \cap Dumped) /\ schemaExists' = TRUE
       \/ \E R \in SUBSET Dumped : \E S \in SUBSET (Owned \cap R) : Restored(R, S)
    /\ dump' = NoDump
    /\ phase' = "role"
    /\ UNCHANGED <<mode, sourceVars, snap, listed, futureVars, rowVars, panicked,
                   run, todo, importGrants, seqCovers, granted, roleVars>>

\* Killed in the middle of it, with the dump file still there.
PgRestoreKilled ==
    /\ phase = "restore"
    /\ \E R \in SUBSET Dumped : \E S \in SUBSET (Owned \cap R) : Restored(R, S)
    /\ phase' = "dead"
    /\ UNCHANGED <<mode, sourceVars, snap, listed, futureVars, rowVars, panicked,
                   run, todo, dump, importGrants, seqCovers, granted, roleVars>>

\* Every error of CREATE ROLE is taken for "already exists".
CreateRole ==
    /\ phase = "role"
    /\ roleExists' \in {roleExists, TRUE}
    /\ phase' = "alter"
    /\ UNCHANGED <<loadVars, run, todo, dump, targetVars, replica>>

\* An error of ALTER ROLE ... SET session_replication_role is logged only.
AlterRole ==
    /\ phase = "alter"
    /\ replica' \in {replica, roleExists}
    /\ phase' = "importGrants"
    /\ UNCHANGED <<loadVars, run, todo, dump, targetVars, roleExists>>

GrantImportUser ==
    /\ phase = "importGrants"
    /\ roleExists /\ schemaExists
    /\ importGrants' = TRUE
    /\ todo' = Fixes
    /\ phase' = "fix"
    /\ UNCHANGED <<loadVars, run, dump, schemaExists, owned, seqCovers, granted,
                   roleVars>>

FixSequenceOwnership(t) ==
    /\ phase = "fix"
    /\ t \in todo /\ Exists(targetCols, t)
    /\ owned' = owned \cup {t}
    /\ todo' = todo \ {t}
    /\ UNCHANGED <<loadVars, phase, run, dump, schemaExists, importGrants,
                   seqCovers, granted, roleVars>>

SequencesFixed ==
    /\ phase = "fix" /\ todo = {}
    /\ phase' = "snapshot"
    /\ UNCHANGED <<loadVars, run, todo, dump, targetVars, roleVars>>

----------------------------------------------------------------------------
(* CDCOperator::snapshot and TargetDBFinalizer *)

\* MUTANT of Snapshot: the load is spawned and the panic in it ignored.
SnapshotIgnoringPanic ==
    /\ phase = "snapshot"
    /\ LoadProgress
    /\ phase' = IF panicked' \/ snap' = "finished" THEN "sequences" ELSE "snapshot"
    /\ UNCHANGED <<run, todo, dump, targetVars, roleVars>>

\* A panic of the load ends the process; its end lets main go on.
Snapshot ==
    /\ phase = "snapshot"
    /\ LoadProgress
    /\ phase' = IF panicked' THEN "dead"
                ELSE IF snap' = "finished" THEN "sequences" ELSE "snapshot"
    /\ UNCHANGED <<run, todo, dump, targetVars, roleVars>>

\* update_sequence_values asks pg_depend which sequences belong to a table.
ListSequences ==
    /\ phase = "sequences"
    /\ todo' = owned
    /\ phase' = "setval"
    /\ UNCHANGED <<loadVars, run, dump, targetVars, roleVars>>

\* SETVAL to the highest id in the table.
UpdateSequence(t) ==
    /\ phase = "setval"
    /\ t \in todo
    /\ seqCovers' = [seqCovers EXCEPT ![t] = Held(t)]
    /\ todo' = todo \ {t}
    /\ UNCHANGED <<loadVars, phase, run, dump, schemaExists, importGrants, owned,
                   granted, roleVars>>

\* MUTANT of SequencesUpdated: the updates are not awaited.
SequencesNotAwaited ==
    /\ phase = "setval"
    /\ todo' = AppUsers
    /\ phase' = "grant"
    /\ UNCHANGED <<loadVars, run, dump, targetVars, roleVars>>

SequencesUpdated ==
    /\ phase = "setval" /\ todo = {}
    /\ todo' = AppUsers
    /\ phase' = "grant"
    /\ UNCHANGED <<loadVars, run, dump, targetVars, roleVars>>

\* For AppOwner this only repeats what it may do as the owner.
GrantUser(u) ==
    /\ phase = "grant"
    /\ u \in todo
    /\ granted' = granted \cup {u}
    /\ todo' = todo \ {u}
    /\ UNCHANGED <<loadVars, phase, run, dump, schemaExists, importGrants, owned,
                   seqCovers, roleVars>>

\* MUTANT of UsersGranted: main goes on after the first user.
FirstUserGranted ==
    /\ phase = "grant" /\ todo # AppUsers
    /\ phase' = "postsql"
    /\ UNCHANGED <<loadVars, run, todo, dump, targetVars, roleVars>>

UsersGranted ==
    /\ phase = "grant" /\ todo = {}
    /\ phase' = "postsql"
    /\ UNCHANGED <<loadVars, run, todo, dump, targetVars, roleVars>>

\* Skipped, or every configured query succeeds.
ExecutePostImportSql ==
    /\ phase = "postsql"
    /\ phase' = "validate"
    /\ UNCHANGED <<loadVars, run, todo, dump, targetVars, roleVars>>

\* Skipped, or every validation passes; they only read.
Validate ==
    /\ phase = "validate"
    /\ phase' = "done"
    /\ UNCHANGED <<loadVars, run, todo, dump, targetVars, roleVars>>

----------------------------------------------------------------------------
\* A statement that cannot succeed: the process panics on it.
Rejected ==
    /\ \/ phase = "extensions" /\ NoName \in todo
       \/ phase = "importGrants" /\ ~(roleExists /\ schemaExists)
       \/ phase = "fix" /\ \E t \in todo : ~Exists(targetCols, t)
    /\ phase' = "dead"
    /\ UNCHANGED <<loadVars, run, todo, dump, targetVars, roleVars>>

\* Any other call fails, or the process is killed, at any point.
Die ==
    /\ ~Stopped
    /\ phase' = "dead"
    /\ IF phase = "snapshot" THEN Panic ELSE UNCHANGED loadVars
    /\ UNCHANGED <<run, todo, dump, targetVars, roleVars>>

\* Someone starts the next run: nothing is resumed.
StartRun ==
    /\ Stopped
    /\ run < MaxRuns
    /\ run' = run + 1
    /\ phase' = "dump"
    /\ todo' = {}
    /\ UNCHANGED <<loadVars, dump, targetVars, roleVars>>

Progress ==
    \/ PgDump \/ DropSchema \/ CreateSchema \/ ExtensionsCreated
    \/ \E x \in Extensions : CreateExtension(x)
    \/ PgRestore \/ CreateRole \/ AlterRole \/ GrantImportUser
    \/ \E t \in Tables : FixSequenceOwnership(t) \/ UpdateSequence(t)
    \/ SequencesFixed \/ Snapshot \/ ListSequences \/ SequencesUpdated
    \/ \E u \in AppUsers : GrantUser(u)
    \/ UsersGranted \/ ExecutePostImportSql \/ Validate \/ Rejected

Next ==
    \/ Progress
    \/ PgDumpFails \/ PgRestoreKilled \/ Die
    \/ StartRun
    \/ \E t \in Tables : AlterSource(t) /\ UNCHANGED runVars
    \/ Stopped /\ UNCHANGED vars

\* A started process keeps running, and its calls return; that one fails, that
\* the process is killed or that another is started is not taken for granted.
Spec == Init /\ [][Next]_vars /\ WF_vars(Progress)

----------------------------------------------------------------------------
TypeOK ==
    /\ LoadTypeOK
    /\ phase \in Phases
    /\ run \in 1..MaxRuns
    /\ todo \in SUBSET (Tables \cup AppUsers \cup Extensions \cup {NoName})
    /\ dump \in [run : 0..MaxRuns, whole : BOOLEAN, cols : [Tables -> SUBSET Columns]]
    /\ schemaExists \in BOOLEAN /\ importGrants \in BOOLEAN
    /\ roleExists \in BOOLEAN /\ replica \in BOOLEAN
    /\ owned \in SUBSET Tables
    /\ seqCovers \in [Tables -> SUBSET Parquet]
    /\ granted \in SUBSET AppUsers

\* The target holds the whole result of one snapshot.
Whole == snap = "finished" /\ \A t \in listed : Complete(t)

\* Through crashes at any point, swallowed errors and later runs, no grant
\* stands and no user but the roles the run works as reaches a table while the
\* target is not a whole replica.  A user that is the owner does see it half
\* loaded.
AccessOnlyToWhole == ~Whole => granted = {} /\ Readers \subseteq Workers

\* No crash or rerun ever leaves the rows of a file in a table twice: what a
\* dead run loaded is gone before the next one loads.
NeverDoubled == \A t \in Tables, p \in Parquet : copies[t][p] <= 1

\* Whoever was granted access inserts with ids above those loaded, in every
\* table whose sequence is known to belong to it: the sequences were moved
\* after the last file was loaded and before the first grant.
AdmittedSequencesAhead ==
    granted # {} => \A t \in owned : Held(t) \subseteq seqCovers[t]

\* A run that ends well leaves a whole replica with every user let in, and
\* restore errors it swallowed have cost no row: a listed table the restore
\* lost makes the run fail, unless there was nothing to load into it.
SuccessIsReplica ==
    phase = "done" => /\ Whole
                      /\ granted = AppUsers
                      /\ \A t \in listed : Expected(t) # {} => Exists(targetCols, t)

\* A step that takes the last row of a table away is covered by a dump.
RowsGoOverFreshDump ==
    (\E t \in Tables : Held(t) # {} /\ Held(t)' = {})
       => dump.whole /\ dump.run = run

\* The old replica is given up only with a schema to replace it in hand: the
\* rows of a table disappear only when this run has dumped the source, whole.
DropNeedsFreshDump == [][RowsGoOverFreshDump]_vars

\* Every run ends, whatever fails.
RunEnds == []<>Stopped

Replica == INSTANCE PublishedReplica WITH
               Users <- AppUsers, Workers <- Workers, data <- rowVars,
               whole <- Whole, admitted <- granted, readers <- Readers

\* The program keeps the promise of PublishedReplica: who reaches the tables
\* by owning them is one of the Workers, everybody else waits for a grant.
KeepsPromise == Replica!Spec

\* main: the files are written with session_replication_role set to replica,
\* so no foreign key or trigger of the target is in the way.
LoadsRunAsReplica == phase = "snapshot" => replica
=============================================================================
