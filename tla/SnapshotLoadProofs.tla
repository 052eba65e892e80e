-------------------------- MODULE SnapshotLoadProofs --------------------------
(***************************************************************************)
(* SnapshotLoad for every set of tables, every listing and every limit:    *)
(* the inductive invariant LoadInv and the safety properties it implies.      *)
(***************************************************************************)
EXTENDS SnapshotLoad, TLAPS

USE DEF Modes, Stages

\* A listing is a sequence of files that names none of them twice.
LEMMA FilesType ==
    ASSUME LoadTypeOK, NEW t \in Tables
    PROVE  /\ Files(t) \in Seq(Parquet)
           /\ Len(Files(t)) \in Nat
           /\ \A i \in 1..Len(Files(t)) : Files(t)[i] \in Parquet
           /\ \A i, j \in 1..Len(Files(t)) :
                 Files(t)[i] = Files(t)[j] => i = j
  BY ListingAssumption DEF LoadTypeOK, Files

\* Before the first file there is none.
LEMMA BeforeFirst ==
    ASSUME LoadTypeOK, NEW t \in Tables
    PROVE  Before(t, 1) = {}
  BY FilesType DEF Before

\* Moving past file i adds that file, unless it is skipped, and it is new.
LEMMA BeforeNext ==
    ASSUME LoadTypeOK, NEW t \in Tables, NEW i \in 1..Len(Files(t))
    PROVE  /\ Files(t)[i] \notin Before(t, i)
           /\ Skipped(t, Files(t)[i]) => Before(t, i + 1) = Before(t, i)
           /\ ~Skipped(t, Files(t)[i]) =>
                 Before(t, i + 1) = Before(t, i) \cup {Files(t)[i]}
  <1> DEFINE L == Len(Files(t))
             P(k) == {j \in 1..L : j < k /\ ~Skipped(t, Files(t)[j])}
  <1>1. L \in Nat /\ i \in Nat /\ 1 <= i /\ i <= L
    BY FilesType
  <1>2. i \notin P(i)
    BY <1>1
  <1>3. \A k : Before(t, k) = {Files(t)[j] : j \in P(k)}
    BY DEF Before
  <1>4. Files(t)[i] \notin Before(t, i)
    BY <1>1, <1>2, <1>3, FilesType
  <1>5. ASSUME Skipped(t, Files(t)[i]) PROVE P(i + 1) = P(i)
    BY <1>1, <1>5
  <1>6. ASSUME ~Skipped(t, Files(t)[i]) PROVE P(i + 1) = P(i) \cup {i}
    BY <1>1, <1>6
  <1> HIDE DEF P
  <1>7. ASSUME ~Skipped(t, Files(t)[i])
        PROVE  Before(t, i + 1) = Before(t, i) \cup {Files(t)[i]}
    BY <1>3, <1>6, <1>7
  <1>8. ASSUME Skipped(t, Files(t)[i])
        PROVE  Before(t, i + 1) = Before(t, i)
    BY <1>3, <1>5, <1>8
  <1> QED
    BY <1>4, <1>7, <1>8

----------------------------------------------------------------------------
\* Steps that leave positions and rows alone keep every table at its prefix.
LEMMA QuietPrefix ==
    ASSUME ExactPrefix, ~panicked,
           UNCHANGED <<mode, nextFile, rowVars, panicked>>
    PROVE  ExactPrefix'
  BY DEF ExactPrefix, Passed, Before, Files, Skipped, rowVars

\* A panic in any future keeps the invariant: only the files in flight may
\* have been written or torn.
LEMMA PanicInv ==
    ASSUME LoadInv, ~panicked, Panic
    PROVE  LoadInv'
  <1> USE DEF LoadInv
  <1>1. PICK outcome \in [Writing -> {"none", "part", "all"}] :
          /\ \A t \in Writing : outcome[t] # "none" => Accepts(t)
          /\ copies' = [t \in Tables |-> [p \in Parquet |->
                IF t \in Writing /\ p = Current(t) /\ outcome[t] = "all"
                THEN copies[t][p] + 1 ELSE copies[t][p]]]
          /\ torn' = torn \cup {t \in Writing : outcome[t] = "part"}
    BY DEF Panic, Settle
  <1>2. Writing \in SUBSET Tables
    BY DEF Writing, LoadTypeOK
  <1>3. LoadTypeOK'
    BY <1>1, <1>2 DEF LoadTypeOK, Panic, sourceVars, futureVars
  <1>4. FuturePositions'
    <2>1. snap = "finished" => Writing = {}
      BY DEF FuturePositions, Writing, LoadTypeOK
    <2> QED
      BY <1>1, <2>1 DEF FuturePositions, Panic, sourceVars, futureVars, Files,
            Current, Skipped, HasSchemaDiff
  <1>5. ExactPrefix'
    <2> SUFFICES ASSUME NEW t \in Tables, NEW p \in Parquet
                 PROVE  \/ copies'[t][p] = IF p \in Passed(t) THEN 1 ELSE 0
                        \/ /\ t \in Writing /\ p = Current(t)
                           /\ copies'[t][p] = 1
      BY DEF Panic, ExactPrefix, Passed, Before, Files, Skipped, Writing,
             Current, futureVars
    <2>1. copies[t][p] = IF p \in Passed(t) THEN 1 ELSE 0
      BY DEF ExactPrefix
    <2>2. CASE t \in Writing /\ p = Current(t) /\ outcome[t] = "all"
      <3>1. nextFile[t] \in 1..Len(Files(t))
        BY <2>2, FilesType DEF Writing, FuturePositions, LoadTypeOK
      <3>2. p \notin Passed(t)
        BY <2>2, <3>1, BeforeNext DEF Passed, Current
      <3> QED
        BY <1>1, <2>1, <2>2, <3>2
    <2>3. CASE ~(t \in Writing /\ p = Current(t) /\ outcome[t] = "all")
      BY <1>1, <2>1, <2>3
    <2> QED
      BY <2>2, <2>3
  <1>6. LoadedFilesFit'
    <2> SUFFICES ASSUME NEW t \in Tables, NEW p \in Parquet, copies'[t][p] > 0
                 PROVE  /\ Exists(targetCols, t)
                        /\ FileCols[p] \subseteq targetCols[t]
                        /\ p \in LoadFiles => FileCols[p] \subseteq seenCols[t]
      BY DEF Panic, LoadedFilesFit, futureVars, Exists
    <2>2. CASE t \in Writing /\ p = Current(t) /\ outcome[t] = "all"
      BY <1>1, <2>2 DEF Accepts, Writing, FuturePositions, HasSchemaDiff
    <2>3. CASE ~(t \in Writing /\ p = Current(t) /\ outcome[t] = "all")
      BY <1>1, <2>3 DEF LoadedFilesFit
    <2> QED
      BY <2>2, <2>3
  <1> QED
    BY <1>3, <1>4, <1>5, <1>6

\* A future that moves past the file it is at, having written it or skipped
\* it, stays inside its listing and its table at its prefix.
LEMMA AdvanceInv ==
    ASSUME LoadInv, NEW t \in Tables, Running,
           stage[t] \in {"read", "write"},
           AtFile(t, nextFile[t] + 1),
           UNCHANGED <<mode, listed, snap, torn, srcConn, seenCols, panicked>>,
           tgtConn' = tgtConn \ {t},
           IF Skipped(t, Current(t)) THEN copies' = copies
           ELSE copies' = [copies EXCEPT ![t][Current(t)] = @ + 1]
    PROVE  FuturePositions' /\ ExactPrefix'
           /\ nextFile' \in [Tables -> Nat \ {0}] /\ stage' \in [Tables -> Stages]
           /\ copies' \in [Tables -> [Parquet -> Nat]]
  <1> USE DEF LoadInv
  <1>1. nextFile[t] \in 1..Len(Files(t)) /\ Current(t) \in Parquet
    BY FilesType DEF FuturePositions, LoadTypeOK, Current
  <1>2. \A u \in Tables : \A i : Files(u)' = Files(u) /\ Before(u, i)' = Before(u, i)
    BY DEF Before, Files, Skipped
  <1>3. Len(Files(t)) \in Nat
    BY FilesType
  <1>4. FuturePositions'
    <2>1. /\ nextFile'[t] = nextFile[t] + 1
          /\ stage'[t] = IF nextFile[t] + 1 > Len(Files(t)) THEN "done" ELSE "read"
          /\ \A u \in Tables \ {t} : nextFile'[u] = nextFile[u] /\ stage'[u] = stage[u]
      BY DEF AtFile, LoadTypeOK
    <2>2. t \in listed /\ t \notin srcConn /\ snap = "load"
      BY DEF FuturePositions, Running
    <2> SUFFICES ASSUME NEW u \in Tables
                 PROVE  /\ stage'[u] # "waiting" => u \in listed'
                        /\ stage'[u] \in {"waiting", "columns", "key", "list"} => nextFile'[u] = 1
                        /\ stage'[u] \in {"read", "write"} => nextFile'[u] <= Len(Files(u)')
                        /\ stage'[u] = "write" => ~Skipped(u, Current(u)') /\ ~HasSchemaDiff(u)'
                        /\ stage'[u] = "done" => nextFile'[u] = Len(Files(u)') + 1
                        /\ u \in srcConn' => stage'[u] \in {"columns", "key"}
                        /\ u \in tgtConn' => stage'[u] = "write"
      BY <2>2 DEF FuturePositions, Skipped
    <2>3. CASE u = t
      BY <2>1, <2>2, <2>3, <1>1, <1>2, <1>3
    <2>4. CASE u # t
      BY <2>1, <2>4, <1>2 DEF FuturePositions, Current, HasSchemaDiff, Skipped
    <2> QED
      BY <2>3, <2>4
  <1>5. ExactPrefix'
    <2> SUFFICES ASSUME NEW u \in Tables, NEW p \in Parquet
                 PROVE  copies'[u][p] = IF p \in Before(u, nextFile'[u]) THEN 1 ELSE 0
      BY <1>2 DEF ExactPrefix, Passed, Running
    <2>1. copies[u][p] = IF p \in Before(u, nextFile[u]) THEN 1 ELSE 0
      BY DEF ExactPrefix, Passed, Running
    <2>2. CASE u # t
      BY <2>1, <2>2, <1>1 DEF AtFile, LoadTypeOK
    <2>3. CASE u = t
      <3>1. nextFile'[t] = nextFile[t] + 1
        BY DEF AtFile, LoadTypeOK
      <3>2. CASE Skipped(t, Current(t))
        BY <2>1, <2>3, <3>1, <3>2, <1>1, BeforeNext DEF Current
      <3>3. CASE ~Skipped(t, Current(t))
        <4>1. copies' = [copies EXCEPT ![t][Current(t)] = @ + 1]
          BY <3>3
        <4>2. copies'[t][p] = IF p = Current(t) THEN copies[t][p] + 1
                              ELSE copies[t][p]
          BY <4>1, <1>1 DEF LoadTypeOK
        <4> QED
          BY <2>1, <2>3, <3>1, <3>3, <4>2, <1>1, BeforeNext DEF Current
      <3> QED
        BY <3>2, <3>3
    <2> QED
      BY <2>2, <2>3
  <1>6. nextFile' \in [Tables -> Nat \ {0}] /\ stage' \in [Tables -> Stages]
    BY <1>1 DEF AtFile, LoadTypeOK
  <1>7. copies' \in [Tables -> [Parquet -> Nat]]
    <2>1. CASE Skipped(t, Current(t))
      BY <2>1 DEF LoadTypeOK
    <2>2. CASE ~Skipped(t, Current(t))
      <3> DEFINE row == [copies[t] EXCEPT ![Current(t)] = @ + 1]
      <3>1. row \in [Parquet -> Nat]
        BY <1>1 DEF LoadTypeOK
      <3>2. copies' = [copies EXCEPT ![t] = row]
        BY <2>2, <1>1 DEF LoadTypeOK
      <3> HIDE DEF row
      <3> QED
        BY <3>1, <3>2 DEF LoadTypeOK
    <2> QED
      BY <2>1, <2>2
  <1> QED
    BY <1>4, <1>5, <1>6, <1>7

----------------------------------------------------------------------------
\* Every step of a future keeps the invariant.
LEMMA FutureStepInv ==
    ASSUME LoadInv, NEW t \in Tables, FutureStep(t)
    PROVE  LoadInv'
  <1> USE DEF LoadInv
  <1> DEFINE Quiet == /\ UNCHANGED <<mode, nextFile, rowVars, panicked>>
                      /\ ~panicked
  <1>1. CASE StartTable(t)
    <2>1. LoadTypeOK' /\ FuturePositions'
      BY <1>1 DEF StartTable, Running, LoadTypeOK, FuturePositions, sourceVars,
            rowVars, Files, Current, Skipped, HasSchemaDiff
    <2> QED
      BY <1>1, <2>1, QuietPrefix DEF StartTable, Running, LoadedFilesFit, Exists, rowVars
  <1>2. CASE TakeSource(t)
    <2>1. LoadTypeOK' /\ FuturePositions'
      BY <1>2 DEF TakeSource, Running, LoadTypeOK, FuturePositions, sourceVars,
            rowVars, Files, Current, Skipped, HasSchemaDiff
    <2> QED
      BY <1>2, <2>1, QuietPrefix DEF TakeSource, Running, LoadedFilesFit, Exists, rowVars
  <1>3. CASE GetTableColumns(t)
    <2>1. LoadTypeOK' /\ FuturePositions'
      BY <1>3 DEF GetTableColumns, Running, LoadTypeOK, FuturePositions, sourceVars,
            rowVars, Files, Current, Skipped, HasSchemaDiff
    <2>2. \A p \in Parquet : copies[t][p] = 0
      BY <1>3, BeforeFirst DEF GetTableColumns, Running, FuturePositions,
            ExactPrefix, Passed
    <2>3. LoadedFilesFit'
      BY <1>3, <2>2 DEF GetTableColumns, LoadedFilesFit, Exists, LoadTypeOK,
            rowVars
    <2> QED
      BY <1>3, <2>1, <2>3, QuietPrefix DEF GetTableColumns, Running, rowVars
  <1>4. CASE GetPrimaryKey(t)
    <2>1. LoadTypeOK' /\ FuturePositions'
      BY <1>4 DEF GetPrimaryKey, Running, LoadTypeOK, FuturePositions, sourceVars,
            rowVars, Files, Current, Skipped, HasSchemaDiff
    <2> QED
      BY <1>4, <2>1, QuietPrefix DEF GetPrimaryKey, Running, LoadedFilesFit, Exists, rowVars
  <1>5. CASE NoStartDate(t)
    BY <1>5, PanicInv DEF NoStartDate, Running
  <1>6. CASE ListParquetFiles(t)
    <2>1. nextFile[t] = 1 /\ nextFile' = nextFile
      BY <1>6 DEF ListParquetFiles, AtFile, FuturePositions, LoadTypeOK
    <2>2. Len(Files(t)) \in Nat
      BY FilesType
    <2>3. LoadTypeOK' /\ FuturePositions'
      BY <1>6, <2>1, <2>2 DEF ListParquetFiles, AtFile, Running, LoadTypeOK,
            FuturePositions, sourceVars, rowVars, Files, Current, Skipped,
            HasSchemaDiff
    <2> QED
      BY <1>6, <2>1, <2>3, QuietPrefix DEF ListParquetFiles, Running,
            LoadedFilesFit, Exists, Exists, rowVars
  <1>7. CASE SkipFile(t)
    <2>1. tgtConn \ {t} = tgtConn
      BY <1>7 DEF SkipFile, FuturePositions
    <2>2. /\ FuturePositions' /\ ExactPrefix'
          /\ nextFile' \in [Tables -> Nat \ {0}] /\ stage' \in [Tables -> Stages]
          /\ copies' \in [Tables -> [Parquet -> Nat]]
      BY <1>7, <2>1, AdvanceInv DEF SkipFile, rowVars
    <2> QED
      BY <1>7, <2>2 DEF SkipFile, LoadTypeOK, LoadedFilesFit, Exists, rowVars, sourceVars
  <1>8. CASE ReadFile(t)
    <2>1. LoadTypeOK' /\ FuturePositions'
      BY <1>8 DEF ReadFile, Running, LoadTypeOK, FuturePositions, sourceVars,
            rowVars, Files, Current, Skipped, HasSchemaDiff
    <2> QED
      BY <1>8, <2>1, QuietPrefix DEF ReadFile, Running, LoadedFilesFit, Exists, rowVars
  <1>9. CASE SchemaDiff(t)
    BY <1>9, PanicInv DEF SchemaDiff, Running
  <1>10. CASE TakeTarget(t)
    <2>1. LoadTypeOK' /\ FuturePositions'
      BY <1>10 DEF TakeTarget, Running, LoadTypeOK, FuturePositions, sourceVars,
            rowVars, Files, Current, Skipped, HasSchemaDiff
    <2> QED
      BY <1>10, <2>1, QuietPrefix DEF TakeTarget, Running, LoadedFilesFit, Exists, rowVars
  <1>11. CASE WriteFile(t)
    <2>1. stage[t] = "write" /\ ~Skipped(t, Current(t)) /\ ~HasSchemaDiff(t)
      BY <1>11 DEF WriteFile, FuturePositions
    <2>2. /\ FuturePositions' /\ ExactPrefix'
          /\ nextFile' \in [Tables -> Nat \ {0}] /\ stage' \in [Tables -> Stages]
          /\ copies' \in [Tables -> [Parquet -> Nat]]
      BY <1>11, <2>1, AdvanceInv DEF WriteFile
    <2>3. LoadedFilesFit'
      BY <1>11, <2>1 DEF WriteFile, Accepts, HasSchemaDiff, LoadedFilesFit,
            Exists, LoadTypeOK
    <2> QED
      BY <1>11, <2>2, <2>3 DEF WriteFile, LoadTypeOK, sourceVars
  <1>12. CASE RejectedWrite(t)
    BY <1>12, PanicInv DEF RejectedWrite, Running
  <1> QED
    BY <1>1, <1>2, <1>3, <1>4, <1>5, <1>6, <1>7, <1>8, <1>9, <1>10, <1>11,
       <1>12 DEF FutureStep

\* Every step of the process keeps the invariant.
LEMMA LoadProgressInv ==
    ASSUME LoadInv, LoadProgress
    PROVE  LoadInv'
  <1> USE DEF LoadInv
  <1>1. CASE ListTables
    <2>1. LoadTypeOK' /\ FuturePositions'
      BY <1>1, TablesAssumption DEF ListTables, LoadTypeOK, FuturePositions,
            sourceVars, futureVars, rowVars
    <2> QED
      BY <1>1, <2>1, QuietPrefix DEF ListTables, LoadedFilesFit, Exists, rowVars, futureVars
  <1>2. CASE SnapshotCompleted
    <2>1. LoadTypeOK' /\ FuturePositions'
      BY <1>2 DEF SnapshotCompleted, Running, LoadTypeOK, FuturePositions,
            sourceVars, futureVars, rowVars, ExactPrefix, Files, Current,
            Skipped, HasSchemaDiff
    <2> QED
      BY <1>2, <2>1, QuietPrefix DEF SnapshotCompleted, Running, LoadedFilesFit,
            rowVars, futureVars
  <1>3. CASE \E t \in Tables : FutureStep(t)
    BY <1>3, FutureStepInv
  <1> QED
    BY <1>1, <1>2, <1>3 DEF LoadProgress

\* So does a failing call.
LEMMA LoadFailsInv ==
    ASSUME LoadInv, LoadFails
    PROVE  LoadInv'
  BY PanicInv DEF LoadFails, ListTablesFails, CallFails, Running

\* Schema changes on the source touch nothing the invariant speaks of.
LEMMA AlterSourceInv ==
    ASSUME LoadInv, NEW t \in Tables, AlterSource(t)
    PROVE  LoadInv'
  <1> USE DEF LoadInv
  <1>1. LoadTypeOK'
    BY LimitsAssumption DEF AlterSource, LoadTypeOK, futureVars, rowVars
  <1> QED
    BY <1>1 DEF AlterSource, FuturePositions, ExactPrefix, LoadedFilesFit, Exists,
          Passed, Before, Files, Current, Skipped, HasSchemaDiff, Writing,
          futureVars, rowVars

\* Nor does a step that leaves the load alone.
LEMMA StutterInv ==
    ASSUME LoadInv, UNCHANGED loadVars
    PROVE  LoadInv'
  <1>1. LoadTypeOK'
    BY DEF LoadInv, LoadTypeOK, loadVars
  <1>2. FuturePositions'
    BY DEF LoadInv, FuturePositions, Files, Current, Skipped, HasSchemaDiff, loadVars
  <1>3. ExactPrefix'
    BY DEF LoadInv, ExactPrefix, Passed, Before, Files, Current, Skipped, Writing,
          loadVars
  <1>4. LoadedFilesFit'
    BY DEF LoadInv, LoadedFilesFit, Exists, loadVars
  <1> QED
    BY <1>1, <1>2, <1>3, <1>4 DEF LoadInv

\* A fresh load over empty tables satisfies the invariant.
LEMMA InitInv ==
    ASSUME LoadInit
    PROVE  LoadInv
  <1>1. LoadTypeOK
    <2>1. copies \in [Tables -> [Parquet -> Nat]]
      BY DEF LoadInit, NoColumns, NoRows
    <2>2. targetCols \in [Tables -> SUBSET Columns]
      BY DEF LoadInit, NoColumns, NoRows
    <2>3. alters \in 0..MaxAlters
      BY LimitsAssumption DEF LoadInit, NoColumns, NoRows
    <2>4. stage \in [Tables -> Stages]
      BY DEF LoadInit, Unstarted, NoColumns, NoRows, FirstFiles
    <2>5. seenCols \in [Tables -> SUBSET Columns]
      BY DEF LoadInit, Unstarted, NoColumns, NoRows, FirstFiles
    <2>6. nextFile \in [Tables -> Nat \ {0}]
      BY DEF LoadInit, Unstarted, NoColumns, NoRows, FirstFiles
    <2> QED
      BY <2>1, <2>2, <2>3, <2>4, <2>5, <2>6 DEF LoadInit, Unstarted, NoColumns, NoRows, FirstFiles, LoadTypeOK
  <1>2. \A t \in Tables : Passed(t) = {}
    BY <1>1, BeforeFirst DEF Passed, LoadInit, FirstFiles
  <1> QED
    BY <1>1, <1>2, FilesAssumption DEF LoadInit, Unstarted, NoColumns, NoRows, FirstFiles, LoadInv, FuturePositions,
          ExactPrefix, LoadedFilesFit

\* The inductive invariant holds in every reachable state of the load.
THEOREM LoadInvariance == LoadSpec => []LoadInv
  <1>1. LoadInit => LoadInv
    BY InitInv
  <1>2. LoadInv /\ [LoadNext]_loadVars => LoadInv'
    BY LoadProgressInv, LoadFailsInv, AlterSourceInv, StutterInv DEF LoadNext
  <1> QED
    BY <1>1, <1>2, PTL DEF LoadSpec

\* The state of the load is well formed whatever the constants are.
THEOREM LoadTypeCorrect == LoadSpec => []LoadTypeOK
  <1>1. LoadInv => LoadTypeOK
    BY DEF LoadInv
  <1> QED
    BY <1>1, LoadInvariance, PTL

\* No interleaving of the futures, no failing call and no schema change makes
\* a table differ from the prefix of files its future passed (the loop over
\* parquet_files and its writes).
THEOREM ExactPrefixCorrect == LoadSpec => []ExactPrefix
  <1>1. LoadInv => ExactPrefix
    BY DEF LoadInv
  <1> QED
    BY <1>1, LoadInvariance, PTL

\* Under the invariant the end of the load means that it is complete.
LEMMA FinishedIsComplete ==
    ASSUME LoadInv
    PROVE  CompletedMeansComplete
  <1> SUFFICES ASSUME snap = "finished", NEW t \in listed
               PROVE  Complete(t)
    BY DEF CompletedMeansComplete
  <1>1. t \in Tables /\ stage[t] = "done"
    BY DEF LoadInv, LoadTypeOK, FuturePositions
  <1>2. t \notin torn /\ nextFile[t] = Len(Files(t)) + 1
    BY <1>1 DEF LoadInv, FuturePositions
  <1> QED
    BY <1>1, <1>2 DEF LoadInv, ExactPrefix, Complete, Passed, Expected, Writing

\* When snapshot returns, every listed table holds each file it should, once
\* and whole.
THEOREM CompletedMeansCompleteCorrect == LoadSpec => []CompletedMeansComplete
  <1>1. LoadInv => CompletedMeansComplete
    BY FinishedIsComplete
  <1> QED
    BY <1>1, LoadInvariance, PTL

\* Loaded files passed the schema check and fit the target table.
THEOREM LoadedFilesFitCorrect == LoadSpec => []LoadedFilesFit
  <1>1. LoadInv => LoadedFilesFit
    BY DEF LoadInv
  <1> QED
    BY <1>1, LoadInvariance, PTL
=============================================================================
