--------------------------- MODULE WitcherRunProofs ---------------------------
(***************************************************************************)
(* WitcherRun for every set of tables, users and files and any number of   *)
(* runs: access is only ever granted to a whole replica, only the roles    *)
(* the run works as reach another one, and the program implements          *)
(* PublishedReplica.                                                       *)
(***************************************************************************)
EXTENDS WitcherRun, SnapshotLoadProofs

USE DEF Modes, Stages, Preparing, Rebuilding, Finalizing, Phases

\* Where the load stands in each phase.  A dead or finished run, and the next
\* one until it drops the schema, may be at any point.
LoadFollowsPhase ==
    /\ phase \in Rebuilding => snap = "idle" /\ copies = NoRows /\ torn = {} /\ ~panicked
    /\ phase = "snapshot" => snap # "finished" /\ ~panicked
    /\ phase \in Finalizing => snap = "finished"

\* Grants stand only after the load, and then the sequences that belong to a
\* table are ahead of its rows.
AccessFollowsLoad ==
    /\ granted # {} => snap = "finished"
    /\ phase = "setval" => \A t \in owned \ todo : Held(t) \subseteq seqCovers[t]
    /\ phase \in {"sequences", "setval"} => granted = {}
    /\ phase \in {"grant", "postsql", "validate", "done"} \/ granted # {} =>
          \A t \in owned : Held(t) \subseteq seqCovers[t]
    /\ phase = "grant" => AppUsers \ todo \subseteq granted
    /\ phase \in {"postsql", "validate", "done"} => granted = AppUsers

\* The schema is dropped only over a whole dump of this run.
DumpFollowsPhase ==
    phase = "drop" => dump.whole /\ dump.run = run

IInv == TypeOK /\ LoadInv /\ LoadFollowsPhase /\ AccessFollowsLoad
               /\ DumpFollowsPhase

----------------------------------------------------------------------------
\* The dump file that is not there is well typed.
LEMMA NoDumpType ==
    NoDump \in [run : 0..MaxRuns, whole : BOOLEAN, cols : [Tables -> SUBSET Columns]]
  <1>1. 0 \in 0..MaxRuns
    BY RunAssumption
  <1>2. NoColumns \in [Tables -> SUBSET Columns]
    BY DEF NoColumns
  <1> QED
    BY <1>1, <1>2 DEF NoDump

\* An empty target before the first run.
LEMMA InitIInv ==
    ASSUME Init
    PROVE  IInv
  <1>1. LoadTypeOK
    <2>1. alters \in 0..MaxAlters
      BY LimitsAssumption DEF Init
    <2>2. stage \in [Tables -> Stages] /\ nextFile \in [Tables -> Nat \ {0}]
      BY DEF Init, Unstarted, FirstFiles
    <2>3. seenCols \in [Tables -> SUBSET Columns] /\ targetCols \in [Tables -> SUBSET Columns]
      BY DEF Init, NoColumns
    <2>4. copies \in [Tables -> [Parquet -> Nat]]
      BY DEF Init, NoRows
    <2> QED
      BY <2>1, <2>2, <2>3, <2>4 DEF Init, LoadTypeOK
  <1>2. \A t \in Tables : Passed(t) = {}
    BY <1>1, BeforeFirst DEF Passed, Init, FirstFiles
  <1>3. LoadInv
    BY <1>1, <1>2 DEF Init, LoadInv, FuturePositions, ExactPrefix,
          LoadedFilesFit, Unstarted, FirstFiles, NoRows
  <1>4. TypeOK
    <2>1. seqCovers \in [Tables -> SUBSET Parquet]
      BY DEF Init, NoFiles
    <2>2. run \in 1..MaxRuns
      BY RunAssumption DEF Init
    <2>3. phase \in Phases
      BY DEF Init
    <2> QED
      BY <1>1, <2>1, <2>2, <2>3, NoDumpType DEF Init, TypeOK
  <1> QED
    BY <1>3, <1>4 DEF Init, IInv, LoadFollowsPhase, AccessFollowsLoad,
          DumpFollowsPhase

\* The load is left alone by every step outside it but the drop of the schema
\* and the restore.
LEMMA QuietRun ==
    ASSUME IInv, UNCHANGED loadVars
    PROVE  /\ LoadInv' /\ LoadTypeOK'
           /\ \A t \in Tables : Held(t)' = Held(t)
  <1>1. LoadInv'
    BY StutterInv DEF IInv
  <1> QED
    BY <1>1 DEF LoadInv, Held, loadVars

\* Dropping the schema makes the next load start from nothing.
LEMMA DropSchemaInv ==
    ASSUME IInv, DropSchema
    PROVE  IInv'
  <1>1. LoadTypeOK'
    <2>1. stage' \in [Tables -> Stages] /\ nextFile' \in [Tables -> Nat \ {0}]
      BY DEF DropSchema, Unstarted, FirstFiles
    <2>2. seenCols' \in [Tables -> SUBSET Columns] /\ targetCols' \in [Tables -> SUBSET Columns]
      BY DEF DropSchema, NoColumns
    <2>3. copies' \in [Tables -> [Parquet -> Nat]]
      BY DEF DropSchema, NoRows
    <2> QED
      BY <2>1, <2>2, <2>3 DEF DropSchema, LoadTypeOK, IInv, TypeOK, sourceVars
  <1>2. \A t \in Tables : Passed(t)' = {}
    <2> SUFFICES ASSUME NEW t \in Tables PROVE Passed(t)' = {}
      OBVIOUS
    <2>1. nextFile'[t] = 1
      BY DEF DropSchema, FirstFiles
    <2>2. Files(t)' \in Seq(Parquet)
      BY <1>1, ListingAssumption DEF LoadTypeOK, Files
    <2> QED
      BY <2>1, <2>2 DEF Passed, Before
  <1>3. LoadInv'
    BY <1>1, <1>2 DEF DropSchema, LoadInv, FuturePositions, ExactPrefix,
          LoadedFilesFit, Unstarted, FirstFiles, NoRows
  <1>4. TypeOK'
    BY <1>1 DEF DropSchema, TypeOK, IInv, NoFiles, roleVars
  <1> QED
    BY <1>3, <1>4 DEF DropSchema, IInv, LoadFollowsPhase, AccessFollowsLoad,
          DumpFollowsPhase

\* The restored tables are empty, so whatever the restore lost is not missed
\* by a row.
LEMMA RestoreInv ==
    ASSUME IInv, PgRestore \/ PgRestoreKilled
    PROVE  IInv'
  <1>1. phase = "restore" /\ copies = NoRows
    BY DEF PgRestore, PgRestoreKilled, IInv, LoadFollowsPhase
  <1>2. PICK R, S : Restored(R, S) /\ S \in SUBSET Tables
    BY RunAssumption DEF PgRestore, PgRestoreKilled, Dumped
  <1>3. UNCHANGED <<mode, sourceVars, snap, listed, futureVars, rowVars, panicked,
                    run, todo, importGrants, seqCovers, granted, roleVars>>
    BY DEF PgRestore, PgRestoreKilled
  <1>4. targetCols' \in [Tables -> SUBSET Columns] /\ owned' \in SUBSET Tables
        /\ schemaExists' \in BOOLEAN
    BY <1>2 DEF Restored, IInv, TypeOK, LoadTypeOK, PgRestore, PgRestoreKilled
  <1>5. LoadTypeOK'
    BY <1>3, <1>4 DEF IInv, TypeOK, LoadTypeOK, sourceVars, futureVars, rowVars
  <1>6. LoadInv'
    BY <1>1, <1>3, <1>5 DEF IInv, LoadInv, FuturePositions, ExactPrefix,
          LoadedFilesFit, Passed, Before, Files, Current, Skipped, HasSchemaDiff,
          Writing, NoRows, sourceVars, futureVars, rowVars
  <1>7. dump' \in [run : 0..MaxRuns, whole : BOOLEAN, cols : [Tables -> SUBSET Columns]]
    BY NoDumpType DEF PgRestore, PgRestoreKilled, IInv, TypeOK
  <1>8. TypeOK'
    BY <1>3, <1>4, <1>5, <1>7 DEF IInv, TypeOK, PgRestore, PgRestoreKilled, roleVars
  <1>9. phase' \in {"role", "dead"}
    BY DEF PgRestore, PgRestoreKilled
  <1>10. granted = {}
    BY <1>1 DEF IInv, LoadFollowsPhase, AccessFollowsLoad
  <1> QED
    BY <1>1, <1>3, <1>6, <1>8, <1>9, <1>10 DEF IInv, LoadFollowsPhase,
          AccessFollowsLoad, DumpFollowsPhase, rowVars

\* The load inside the run.
LEMMA SnapshotInv ==
    ASSUME IInv, Snapshot
    PROVE  IInv'
  <1>1. LoadInv' /\ LoadTypeOK'
    BY LoadProgressInv DEF Snapshot, IInv, LoadInv
  <1>2. phase' \in {"dead", "sequences", "snapshot"}
    BY DEF Snapshot
  <1>3. TypeOK'
    BY <1>1, <1>2 DEF Snapshot, TypeOK, IInv, targetVars, roleVars
  <1>4. granted = {}
    BY DEF Snapshot, IInv, LoadFollowsPhase, AccessFollowsLoad
  <1>5. LoadFollowsPhase'
    BY <1>2, <1>1 DEF Snapshot, LoadFollowsPhase, LoadTypeOK
  <1> QED
    BY <1>1, <1>2, <1>3, <1>4, <1>5 DEF Snapshot, IInv, AccessFollowsLoad,
          DumpFollowsPhase, targetVars

\* A death at any point leaves the load as some panic would, and whoever was
\* let in before it stays in front of a whole replica.
LEMMA DieInv ==
    ASSUME IInv, Die
    PROVE  IInv'
  <1>1. CASE phase = "snapshot"
    <2>1. LoadInv' /\ LoadTypeOK'
      BY <1>1, PanicInv DEF Die, IInv, LoadFollowsPhase, LoadInv
    <2>2. TypeOK'
      BY <1>1, <2>1 DEF Die, TypeOK, IInv, targetVars, roleVars
    <2>3. granted = {}
      BY <1>1 DEF IInv, LoadFollowsPhase, AccessFollowsLoad
    <2> QED
      BY <2>1, <2>2, <2>3 DEF Die, IInv, LoadFollowsPhase, AccessFollowsLoad,
            DumpFollowsPhase, targetVars
  <1>2. CASE phase # "snapshot"
    <2>1. LoadInv' /\ LoadTypeOK' /\ \A t \in Tables : Held(t)' = Held(t)
      BY <1>2, QuietRun DEF Die
    <2>2. TypeOK'
      BY <2>1 DEF Die, TypeOK, IInv, targetVars, roleVars
    <2> QED
      BY <1>2, <2>1, <2>2 DEF Die, IInv, LoadFollowsPhase, AccessFollowsLoad,
            DumpFollowsPhase, targetVars, loadVars, TypeOK
  <1> QED
    BY <1>1, <1>2

\* The steps before the load that leave its variables alone.
LEMMA PreparationInv ==
    ASSUME IInv,
           \/ PgDump \/ PgDumpFails \/ CreateSchema \/ ExtensionsCreated
           \/ \E x \in Extensions : CreateExtension(x)
           \/ CreateRole \/ AlterRole \/ GrantImportUser \/ SequencesFixed
           \/ \E t \in Tables : FixSequenceOwnership(t)
           \/ Rejected
    PROVE  IInv'
  <1> USE DEF IInv
  <1>1. UNCHANGED loadVars
    BY DEF PgDump, PgDumpFails, CreateSchema, ExtensionsCreated,
          CreateExtension, CreateRole, AlterRole, GrantImportUser,
          SequencesFixed, FixSequenceOwnership, Rejected
  <1>2. LoadInv' /\ LoadTypeOK' /\ \A t \in Tables : Held(t)' = Held(t)
    BY <1>1, QuietRun
  <1>3. CASE PgDump \/ PgDumpFails
    <2>1. dump' \in [run : 0..MaxRuns, whole : BOOLEAN, cols : [Tables -> SUBSET Columns]]
      <3>1. run \in 0..MaxRuns
        BY RunAssumption DEF TypeOK
      <3>2. NoColumns \in [Tables -> SUBSET Columns]
        BY DEF NoColumns
      <3>3. sourceCols \in [Tables -> SUBSET Columns]
        BY DEF TypeOK, LoadTypeOK
      <3>4. PICK cols \in {NoColumns, sourceCols}, ok \in BOOLEAN :
                dump' = [run |-> run, whole |-> ok, cols |-> cols]
        BY <1>3 DEF PgDump, PgDumpFails
      <3> QED
        BY <3>1, <3>2, <3>3, <3>4
    <2>2. TypeOK'
      BY <1>2, <1>3, <2>1 DEF PgDump, PgDumpFails, TypeOK, targetVars, roleVars
    <2> QED
      BY <1>1, <1>2, <1>3, <2>2 DEF PgDump, PgDumpFails, LoadFollowsPhase,
            AccessFollowsLoad, DumpFollowsPhase, targetVars, loadVars, TypeOK
  <1>4. CASE CreateSchema \/ ExtensionsCreated \/ \E x \in Extensions : CreateExtension(x)
    <2>1. TypeOK'
      BY <1>2, <1>4 DEF CreateSchema, ExtensionsCreated, CreateExtension,
            RequiredExtensions, TypeOK, targetVars, roleVars
    <2> QED
      BY <1>1, <1>2, <1>4, <2>1 DEF CreateSchema, ExtensionsCreated,
            CreateExtension, LoadFollowsPhase, AccessFollowsLoad,
            DumpFollowsPhase, targetVars, loadVars, TypeOK
  <1>5. CASE CreateRole \/ AlterRole \/ GrantImportUser
    <2>1. TypeOK'
      BY <1>2, <1>5, RunAssumption DEF CreateRole, AlterRole, GrantImportUser,
            TypeOK, targetVars, roleVars
    <2> QED
      BY <1>1, <1>2, <1>5, <2>1 DEF CreateRole, AlterRole, GrantImportUser,
            LoadFollowsPhase, AccessFollowsLoad, DumpFollowsPhase, targetVars,
            loadVars, TypeOK
  <1>6. CASE SequencesFixed \/ Rejected \/ \E t \in Tables : FixSequenceOwnership(t)
    <2>1. TypeOK'
      BY <1>2, <1>6 DEF SequencesFixed, Rejected, FixSequenceOwnership, TypeOK,
            targetVars, roleVars
    <2>2. phase \in Rebuilding /\ snap = "idle" /\ granted = {}
      BY <1>6 DEF SequencesFixed, Rejected, FixSequenceOwnership,
            LoadFollowsPhase, AccessFollowsLoad
    <2> QED
      BY <1>1, <1>2, <1>6, <2>1, <2>2 DEF SequencesFixed, Rejected,
            FixSequenceOwnership, LoadFollowsPhase, AccessFollowsLoad,
            DumpFollowsPhase, targetVars, loadVars, TypeOK
  <1> QED
    BY <1>3, <1>4, <1>5, <1>6

\* The steps after the load.
LEMMA FinalizationInv ==
    ASSUME IInv,
           \/ ListSequences \/ SequencesUpdated \/ UsersGranted
           \/ \E t \in Tables : UpdateSequence(t)
           \/ \E u \in AppUsers : GrantUser(u)
           \/ ExecutePostImportSql \/ Validate \/ StartRun
    PROVE  IInv'
  <1> USE DEF IInv
  <1>1. UNCHANGED loadVars
    BY DEF ListSequences, SequencesUpdated, UsersGranted, UpdateSequence,
          GrantUser, ExecutePostImportSql, Validate, StartRun
  <1>2. LoadInv' /\ LoadTypeOK' /\ \A t \in Tables : Held(t)' = Held(t)
    BY <1>1, QuietRun
  <1>3. \A t \in Tables : Held(t) \in SUBSET Parquet
    BY DEF Held
  <1>4. CASE ListSequences \/ SequencesUpdated \/ UsersGranted
    <2>1. TypeOK'
      BY <1>2, <1>4 DEF ListSequences, SequencesUpdated, UsersGranted, TypeOK,
            targetVars, roleVars
    <2> QED
      BY <1>1, <1>2, <1>4, <2>1 DEF ListSequences, SequencesUpdated,
            UsersGranted, LoadFollowsPhase, AccessFollowsLoad,
            DumpFollowsPhase, targetVars, loadVars, TypeOK
  <1>5. CASE \E t \in Tables : UpdateSequence(t)
    <2>1. TypeOK'
      BY <1>2, <1>3, <1>5 DEF UpdateSequence, TypeOK, roleVars
    <2> QED
      BY <1>1, <1>2, <1>5, <2>1 DEF UpdateSequence, LoadFollowsPhase,
            AccessFollowsLoad, DumpFollowsPhase, loadVars, TypeOK
  <1>6. CASE \E u \in AppUsers : GrantUser(u)
    <2>1. TypeOK'
      BY <1>2, <1>6 DEF GrantUser, TypeOK, roleVars
    <2> QED
      BY <1>1, <1>2, <1>6, <2>1 DEF GrantUser, LoadFollowsPhase,
            AccessFollowsLoad, DumpFollowsPhase, loadVars, TypeOK
  <1>7. CASE ExecutePostImportSql \/ Validate \/ StartRun
    <2>1. TypeOK'
      BY <1>2, <1>7, RunAssumption DEF ExecutePostImportSql, Validate, StartRun,
            TypeOK, targetVars, roleVars
    <2> QED
      BY <1>1, <1>2, <1>7, <2>1 DEF ExecutePostImportSql, Validate, StartRun,
            Stopped, LoadFollowsPhase, AccessFollowsLoad, DumpFollowsPhase,
            targetVars, loadVars, TypeOK
  <1> QED
    BY <1>4, <1>5, <1>6, <1>7

----------------------------------------------------------------------------
\* A schema change on the source reaches neither the target nor the dump.
LEMMA SourceInv ==
    ASSUME IInv, NEW t \in Tables, AlterSource(t), UNCHANGED runVars
    PROVE  IInv'
  <1>1. LoadInv' /\ LoadTypeOK'
    BY AlterSourceInv DEF IInv, LoadInv
  <1>2. \A u \in Tables : Held(u)' = Held(u)
    BY DEF AlterSource, Held, rowVars
  <1>3. TypeOK'
    BY <1>1 DEF TypeOK, IInv, runVars, targetVars, roleVars
  <1> QED
    BY <1>1, <1>2, <1>3 DEF AlterSource, IInv, LoadFollowsPhase,
          AccessFollowsLoad, DumpFollowsPhase, runVars, targetVars, rowVars, TypeOK

\* Every step of the system keeps the invariant.
LEMMA StepInv ==
    ASSUME IInv, [Next]_vars
    PROVE  IInv'
  <1>1. CASE Progress
    BY <1>1, PreparationInv, FinalizationInv, DropSchemaInv, RestoreInv,
       SnapshotInv DEF Progress
  <1>2. CASE PgDumpFails \/ PgRestoreKilled \/ Die \/ StartRun
    BY <1>2, PreparationInv, FinalizationInv, RestoreInv, DieInv
  <1>3. CASE \E t \in Tables : AlterSource(t) /\ UNCHANGED runVars
    BY <1>3, SourceInv
  <1>4. CASE UNCHANGED vars
    <2>1. LoadInv' /\ LoadTypeOK' /\ \A t \in Tables : Held(t)' = Held(t)
      BY <1>4, QuietRun DEF vars
    <2>2. TypeOK'
      BY <1>4, <2>1 DEF vars, runVars, targetVars, roleVars, TypeOK, IInv
    <2> QED
      BY <1>4, <2>1, <2>2 DEF vars, runVars, targetVars, loadVars, IInv,
            LoadFollowsPhase, AccessFollowsLoad, DumpFollowsPhase, TypeOK
  <1> QED
    BY <1>1, <1>2, <1>3, <1>4 DEF Next

\* The inductive invariant holds in every history of runs, deaths and schema
\* changes.
THEOREM Invariance == Spec => []IInv
  <1> QED
    BY InitIInv, StepInv, PTL DEF Spec

\* The state of a run is well formed whatever the constants are.
THEOREM TypeCorrect == Spec => []TypeOK
  <1>1. IInv => TypeOK
    BY DEF IInv
  <1> QED
    BY <1>1, Invariance, PTL

\* Without grants only the roles the run works as reach a table.
LEMMA UngrantedReaders ==
    granted = {} => Readers \subseteq Workers
  BY DEF Readers, Workers

\* In any number of runs, each failing or killed anywhere, there is no grant
\* while the target is not a whole replica, and of the application users only
\* those the run itself works as reach a table then: by owning it or by
\* loading it (the order of drop, restore, load and grants in main).
THEOREM AccessOnlyToWholeCorrect == Spec => []AccessOnlyToWhole
  <1>1. IInv => AccessOnlyToWhole
    <2> SUFFICES ASSUME IInv, ~Whole
                 PROVE  granted = {} /\ Readers \subseteq Workers
      BY DEF AccessOnlyToWhole
    <2>1. granted = {}
      BY FinishedIsComplete DEF IInv, AccessFollowsLoad, Whole, CompletedMeansComplete
    <2> QED
      BY <2>1, UngrantedReaders
  <1> QED
    BY <1>1, Invariance, PTL

\* No history of crashes and reruns loads a file twice.
THEOREM NeverDoubledCorrect == Spec => []NeverDoubled
  <1>1. IInv => NeverDoubled
    <2> SUFFICES ASSUME IInv, NEW t \in Tables, NEW p \in Parquet
                 PROVE  copies[t][p] <= 1
      BY DEF NeverDoubled
    <2>1. copies[t][p] \in {0, 1}
      BY DEF IInv, LoadInv, ExactPrefix
    <2> QED
      BY <2>1
  <1> QED
    BY <1>1, Invariance, PTL

\* Users that were granted access find the sequences ahead of the loaded rows.
THEOREM AdmittedSequencesAheadCorrect == Spec => []AdmittedSequencesAhead
  <1>1. IInv => AdmittedSequencesAhead
    BY DEF IInv, AccessFollowsLoad, AdmittedSequencesAhead
  <1> QED
    BY <1>1, Invariance, PTL

\* A successful run is a whole replica, in which a restore error cost no row.
THEOREM SuccessIsReplicaCorrect == Spec => []SuccessIsReplica
  <1>1. IInv => SuccessIsReplica
    <2> SUFFICES ASSUME IInv, phase = "done"
                 PROVE  /\ Whole
                        /\ granted = AppUsers
                        /\ \A t \in listed : Expected(t) # {} => Exists(targetCols, t)
      BY DEF SuccessIsReplica
    <2>1. Whole
      BY FinishedIsComplete DEF IInv, LoadFollowsPhase, Whole, CompletedMeansComplete
    <2>2. granted = AppUsers
      BY DEF IInv, AccessFollowsLoad
    <2>3. ASSUME NEW t \in listed, Expected(t) # {}
          PROVE  Exists(targetCols, t)
      <3>1. t \in Tables
        BY DEF IInv, LoadInv, LoadTypeOK
      <3>2. PICK p \in Expected(t) : p \in Parquet
        BY <2>3, <3>1, FilesType DEF Expected, Before, IInv, LoadInv
      <3>3. copies[t][p] = 1
        BY <2>1, <2>3, <3>2 DEF Whole, Complete
      <3> QED
        BY <3>1, <3>2, <3>3 DEF IInv, LoadInv, LoadedFilesFit
    <2> QED
      BY <2>1, <2>2, <2>3
  <1> QED
    BY <1>1, Invariance, PTL

\* Rows only ever disappear in a run that holds a whole dump of the source.
THEOREM DropNeedsFreshDumpCorrect == Spec => DropNeedsFreshDump
  <1>1. IInv /\ IInv' /\ [Next]_vars => [RowsGoOverFreshDump]_vars
    <2> SUFFICES ASSUME IInv, IInv', [Next]_vars,
                        NEW t \in Tables, Held(t) # {}, Held(t)' = {}
                 PROVE  dump.whole /\ dump.run = run
      BY DEF RowsGoOverFreshDump
    <2>1. CASE DropSchema
      BY <2>1 DEF DropSchema, IInv, DumpFollowsPhase
    <2>2. CASE UNCHANGED copies
      BY <2>2 DEF Held
    <2>3. ASSUME NEW p \in Parquet, copies[t][p] > 0, copies'[t][p] >= copies[t][p]
          PROVE  FALSE
      <3>1. copies[t][p] \in Nat /\ copies'[t][p] \in Nat
        BY <2>3 DEF IInv, LoadInv, LoadTypeOK
      <3> QED
        BY <2>3, <3>1 DEF Held
    <2>4. CASE Panic
      <3>1. PICK p \in Parquet : copies[t][p] > 0
        BY DEF Held
      <3>2. copies'[t][p] \in {copies[t][p], copies[t][p] + 1}
        BY <2>4 DEF Panic, Settle
      <3>3. copies[t][p] \in Nat
        BY DEF IInv, LoadInv, LoadTypeOK
      <3> QED
        BY <2>3, <3>1, <3>2, <3>3
    <2>5. CASE Snapshot
      <3>1. CASE \E u \in Tables : WriteFile(u)
        BY <2>3, <3>1 DEF WriteFile, Held, IInv, LoadInv, LoadTypeOK
      <3>2. CASE Panic \/ UNCHANGED copies
        BY <2>2, <2>4, <3>2
      <3> QED
        BY <2>5, <3>1, <3>2 DEF Snapshot, LoadProgress, FutureStep, ListTables,
              SnapshotCompleted, StartTable, TakeSource, GetTableColumns,
              GetPrimaryKey, NoStartDate, ListParquetFiles, SkipFile, ReadFile,
              SchemaDiff, TakeTarget, RejectedWrite, rowVars
    <2> QED
      BY <2>1, <2>2, <2>4, <2>5 DEF Next, Progress, PgDump, PgDumpFails,
            CreateSchema, ExtensionsCreated, CreateExtension, PgRestore,
            PgRestoreKilled, CreateRole, AlterRole, GrantImportUser,
            FixSequenceOwnership, UpdateSequence, SequencesFixed, ListSequences,
            SequencesUpdated, GrantUser, UsersGranted, ExecutePostImportSql,
            Validate, Rejected, Die, StartRun, AlterSource, vars, loadVars, rowVars
  <1> QED
    BY <1>1, Invariance, PTL DEF Spec, DropNeedsFreshDump

----------------------------------------------------------------------------
\* Steps that leave the load alone change neither the rows nor whether they
\* are a whole replica.
LEMMA SameReplica ==
    ASSUME UNCHANGED <<mode, snap, listed, rowVars>>
    PROVE  UNCHANGED <<rowVars, Whole>>
  BY DEF Whole, Complete, Expected, Before, Files, Skipped, rowVars

\* Who reaches the tables changes only with the grants, the tables and the
\* import role.
LEMMA SameReaders ==
    ASSUME UNCHANGED <<granted, targetCols, roleExists>>
    PROVE  Readers' = Readers
  BY DEF Readers, Exists

\* A grant adds one reader, be it one that was inside as a worker.
LEMMA GrantedReader ==
    ASSUME NEW u \in AppUsers, granted' = granted \cup {u},
           UNCHANGED <<targetCols, roleExists>>
    PROVE  Readers' = Readers \cup {u}
  BY DEF Readers, Exists

\* Every step is a step of PublishedReplica or does not show there: the drop is
\* a Wipe that takes the owner's access too, since there is no table left to
\* own; restore, roles and load are Rebuild, with none but workers inside.
LEMMA ReplicaStep ==
    ASSUME IInv, [Next]_vars
    PROVE  [Replica!Next]_<<rowVars, Whole, granted, Readers>>
  <1> USE DEF Replica!Next, Replica!Wipe, Replica!Rebuild, Replica!Admit
  <1>1. CASE DropSchema
    <2>1. Whole' = FALSE
      BY <1>1 DEF DropSchema, Whole
    <2>2. granted' = {} /\ Readers' = {}
      BY <1>1 DEF DropSchema, Readers, Exists, NoColumns
    <2> QED
      BY <2>1, <2>2
  <1>2. CASE \E u \in AppUsers : GrantUser(u)
    <2>1. PICK u \in AppUsers : GrantUser(u)
      BY <1>2
    <2>2. Whole
      BY <2>1, FinishedIsComplete DEF GrantUser, IInv, LoadFollowsPhase, Whole,
            CompletedMeansComplete
    <2>3. UNCHANGED <<rowVars, Whole>>
      BY <2>1, SameReplica DEF GrantUser, loadVars, rowVars
    <2>4. Readers' = Readers \cup {u}
      BY <2>1, GrantedReader DEF GrantUser, loadVars, roleVars
    <2>5. granted' = granted \cup {u}
      BY <2>1 DEF GrantUser
    <2> QED
      BY <2>2, <2>3, <2>4, <2>5
  <1>3. CASE UNCHANGED <<mode, snap, listed, rowVars, granted, targetCols, roleExists>>
    BY <1>3, SameReplica, SameReaders
  <1>4. CASE phase \in Rebuilding \cup {"snapshot"} /\ granted' = granted
    <2>1. granted = {} /\ granted' = {}
      BY <1>4 DEF IInv, LoadFollowsPhase, AccessFollowsLoad
    <2>2. Readers \subseteq Workers
      BY <2>1, UngrantedReaders
    <2>3. Readers' \subseteq Workers
      BY <2>1 DEF Readers, Workers
    <2> QED
      BY <2>1, <2>2, <2>3
  <1> QED
    BY <1>1, <1>2, <1>3, <1>4 DEF Next, Progress, PgDump, PgDumpFails,
          CreateSchema, ExtensionsCreated, CreateExtension, PgRestore,
          PgRestoreKilled, CreateRole, AlterRole, GrantImportUser,
          FixSequenceOwnership, UpdateSequence, SequencesFixed, Snapshot,
          ListSequences, SequencesUpdated, UsersGranted, ExecutePostImportSql,
          Validate, Rejected, Die, StartRun, AlterSource, vars, runVars,
          roleVars, targetVars, loadVars, rowVars

\* The program implements PublishedReplica for any users, the owner of the
\* tables and the loading role among them or not: everybody else reaches only
\* a whole replica, and it does not change under whoever was let in.
THEOREM KeepsPromiseCorrect == Spec => KeepsPromise
  <1>1. Init => Replica!Init
    BY DEF Init, Replica!Init, Whole, Readers, Exists, NoColumns
  <1> QED
    BY <1>1, ReplicaStep, Invariance, PTL DEF Spec, KeepsPromise, Replica!Spec
=============================================================================
