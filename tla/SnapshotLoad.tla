---------------------------- MODULE SnapshotLoad ----------------------------
(***************************************************************************)
(* CDCOperator::snapshot: the concurrent load of anonymized Parquet files  *)
(* into the target schema.                                                 *)
(*                                                                         *)
(* The tables of the source schema are listed once.  Each listed table     *)
(* becomes a future that asks the source for its columns and its primary   *)
(* key, asks S3 for its Parquet files and then, file by file, reads (and   *)
(* anonymizes) it and writes it to the target.  buffer_unordered polls at  *)
(* most NumBuffers futures at a time inside one task, so a panic in any of *)
(* them ends the process; what the database did with the statements then   *)
(* in flight is not known.  Source and target are reached through bounded  *)
(* connection pools, and the source schema may be altered at any time.     *)
(***************************************************************************)
EXTENDS Integers, FiniteSets, Sequences

CONSTANTS
    Tables,          \* tables of the schema
    Included,        \* tables the included/excluded lists select
    Columns,         \* column names; a table with no column does not exist
    Parquet,         \* Parquet files in the bucket
    Listing,         \* Listing[mode][t]: the files S3 lists for t, in order
    LoadFiles,       \* full-load files; the others are CDC files
    FirstLoad,       \* files whose key contains LOAD00000001
    FileCols,        \* the columns of a file, without the two DMS adds
    Reduced,         \* tables cut to keep_num_of_records rows
    HasStartDate,    \* whether the payload carries a start_date; main never sets one
    NumBuffers,      \* NUM_OF_BUFFERS
    SourcePoolSize,  \* connections in the source pool
    TargetPoolSize,  \* connections in the target pool
    MaxAlters        \* bound: schema changes made on the source

Modes == {"FullLoadOnly", "AbsolutePath", "DateAware"}

ASSUME TablesAssumption == IsFiniteSet(Tables) /\ Included \subseteq Tables
ASSUME FilesAssumption ==
    /\ FirstLoad \subseteq LoadFiles /\ LoadFiles \subseteq Parquet
    /\ FileCols \in [Parquet -> SUBSET Columns]
    /\ Reduced \subseteq Tables
    /\ HasStartDate \in BOOLEAN
\* A listing names a file once, and a full-load listing only load files.
ASSUME ListingAssumption ==
    /\ Listing \in [Modes -> [Tables -> Seq(Parquet)]]
    /\ \A m \in Modes, t \in Tables :
          \A i, j \in 1..Len(Listing[m][t]) :
             Listing[m][t][i] = Listing[m][t][j] => i = j
    /\ \A t \in Tables : \A i \in 1..Len(Listing["FullLoadOnly"][t]) :
          Listing["FullLoadOnly"][t][i] \in LoadFiles
\* With NUM_OF_BUFFERS=0 buffer_unordered never polls a future, and with an
\* empty pool no connection is ever handed out.
ASSUME LimitsAssumption ==
    /\ NumBuffers \in Nat \ {0}
    /\ SourcePoolSize \in Nat \ {0}
    /\ TargetPoolSize \in Nat \ {0}
    /\ MaxAlters \in Nat

VARIABLES
    mode,        \* OperationMode of the payload
    sourceCols,  \* columns of each table of the source, now
    alters,      \* schema changes made so far
    targetCols,  \* columns of each table of the target, {} where there is none
    snap,        \* "idle", "load" while the stream is polled, "finished"
    listed,      \* table_list
    stage,       \* where the future of each table stands
    seenCols,    \* source_table_columns of each future
    nextFile,    \* index in parquet_files of the file it is at
    srcConn,     \* tables whose future holds a source connection
    tgtConn,     \* tables whose future holds a target connection
    copies,      \* copies[t][p]: how often all rows of p were written to t
    torn,        \* tables holding a part of the rows of a file
    panicked     \* whether the process is dead

sourceVars == <<sourceCols, alters>>
futureVars == <<stage, seenCols, nextFile, srcConn, tgtConn>>
rowVars    == <<copies, torn>>
loadVars   == <<mode, sourceCols, alters, targetCols, snap, listed, stage,
                seenCols, nextFile, srcConn, tgtConn, copies, torn, panicked>>

Stages == {"waiting", "columns", "key", "list", "read", "write", "done"}

Exists(cols, t) == cols[t] # {}
\* In AbsolutePath the request names no table: every table is given the same
\* files.  The listings of that mode are left as free as those of the others.
Files(t)        == Listing[mode][t]
Current(t)      == Files(t)[nextFile[t]]

\* create_dataframe_from_parquet_file answers None: every file that is not
\* the first load file of a table with a row limit.
Skipped(t, p) == t \in Reduced /\ p \notin FirstLoad

Active   == {t \in listed : stage[t] \notin {"waiting", "done"}}
Writing  == {t \in tgtConn : stage[t] = "write"}
Running  == snap = "load" /\ ~panicked

\* The target accepts only columns it has.
Accepts(t) == Exists(targetCols, t) /\ FileCols[Current(t)] \subseteq targetCols[t]

(***************************************************************************)
(* The process dies.  Each statement in flight may have done nothing, a    *)
(* part of its rows or all of them, if the target accepts it at all.       *)
(***************************************************************************)
Settle ==
    \E outcome \in [Writing -> {"none", "part", "all"}] :
       /\ \A t \in Writing : outcome[t] # "none" => Accepts(t)
       /\ copies' = [t \in Tables |-> [p \in Parquet |->
             IF t \in Writing /\ p = Current(t) /\ outcome[t] = "all"
             THEN copies[t][p] + 1 ELSE copies[t][p]]]
       /\ torn' = torn \cup {t \in Writing : outcome[t] = "part"}

Panic ==
    /\ panicked' = TRUE
    /\ Settle
    /\ UNCHANGED <<mode, sourceVars, targetCols, snap, listed, futureVars>>

Unstarted == [t \in Tables |-> "waiting"]
NoColumns == [t \in Tables |-> {}]
NoRows    == [t \in Tables |-> [p \in Parquet |-> 0]]

\* MUTANT of FirstFiles: files counted from 0.
FirstFilesFromZero == [t \in Tables |-> 0]

FirstFiles == [t \in Tables |-> 1]

\* The target tables were just restored from a dump, and are empty.
LoadInit ==
    /\ mode \in Modes
    /\ sourceCols \in [Tables -> SUBSET Columns]
    /\ alters = 0
    /\ targetCols \in {sourceCols, NoColumns}
    /\ snap = "idle" /\ listed = {}
    /\ stage = Unstarted /\ seenCols = NoColumns /\ nextFile = FirstFiles
    /\ srcConn = {} /\ tgtConn = {}
    /\ copies = NoRows /\ torn = {}
    /\ panicked = FALSE

----------------------------------------------------------------------------
\* Someone alters, creates or drops a table of the source.
AlterSource(t) ==
    /\ alters < MaxAlters
    /\ alters' = alters + 1
    /\ \E cols \in SUBSET Columns \ {sourceCols[t]} :
          sourceCols' = [sourceCols EXCEPT ![t] = cols]
    /\ UNCHANGED <<mode, targetCols, snap, listed, futureVars, rowVars, panicked>>

\* get_tables_in_schema, one query on the source.
ListTables ==
    /\ snap = "idle" /\ ~panicked
    /\ listed' = {t \in Included : Exists(sourceCols, t)}
    /\ snap' = "load"
    /\ UNCHANGED <<mode, sourceVars, targetCols, futureVars, rowVars, panicked>>

ListTablesFails == snap = "idle" /\ ~panicked /\ Panic

\* buffer_unordered takes the next future when fewer than NumBuffers run.
StartTable(t) ==
    /\ Running
    /\ t \in listed /\ stage[t] = "waiting"
    /\ Cardinality(Active) < NumBuffers
    /\ stage' = [stage EXCEPT ![t] = "columns"]
    /\ UNCHANGED <<mode, sourceVars, targetCols, snap, listed, seenCols,
                   nextFile, srcConn, tgtConn, rowVars, panicked>>

\* The source pool hands out a connection, once one is free.
TakeSource(t) ==
    /\ Running
    /\ stage[t] \in {"columns", "key"} /\ t \notin srcConn
    /\ Cardinality(srcConn) < SourcePoolSize
    /\ srcConn' = srcConn \cup {t}
    /\ UNCHANGED <<mode, sourceVars, targetCols, snap, listed, stage, seenCols,
                   nextFile, tgtConn, rowVars, panicked>>

GetTableColumns(t) ==
    /\ Running
    /\ stage[t] = "columns" /\ t \in srcConn
    /\ seenCols' = [seenCols EXCEPT ![t] = sourceCols[t]]
    /\ stage' = [stage EXCEPT ![t] = "key"]
    /\ srcConn' = srcConn \ {t}
    /\ UNCHANGED <<mode, sourceVars, targetCols, snap, listed, nextFile,
                   tgtConn, rowVars, panicked>>

\* MUTANT of GetPrimaryKey: the connection is kept for the whole future.
GetPrimaryKeyKeepingConnection(t) ==
    /\ Running
    /\ stage[t] = "key" /\ t \in srcConn
    /\ stage' = [stage EXCEPT ![t] = "list"]
    /\ UNCHANGED <<mode, sourceVars, targetCols, snap, listed, seenCols,
                   nextFile, srcConn, tgtConn, rowVars, panicked>>

GetPrimaryKey(t) ==
    /\ Running
    /\ stage[t] = "key" /\ t \in srcConn
    /\ stage' = [stage EXCEPT ![t] = "list"]
    /\ srcConn' = srcConn \ {t}
    /\ UNCHANGED <<mode, sourceVars, targetCols, snap, listed, seenCols,
                   nextFile, tgtConn, rowVars, panicked>>

\* DateAware listings need a start_date: the future panics without one.
NoStartDate(t) ==
    /\ Running
    /\ stage[t] = "list"
    /\ mode = "DateAware" /\ ~HasStartDate
    /\ Panic

\* MUTANT of AtFile: the last file of the listing is left out.
AtFileBeforeLast(t, i) ==
    /\ nextFile' = [nextFile EXCEPT ![t] = i]
    /\ stage' = [stage EXCEPT ![t] = IF i >= Len(Files(t)) THEN "done" ELSE "read"]

\* The future is at file i: reads it, or ends after the last one.
AtFile(t, i) ==
    /\ nextFile' = [nextFile EXCEPT ![t] = i]
    /\ stage' = [stage EXCEPT ![t] = IF i > Len(Files(t)) THEN "done" ELSE "read"]

ListParquetFiles(t) ==
    /\ Running
    /\ stage[t] = "list"
    /\ mode = "DateAware" => HasStartDate
    /\ AtFile(t, 1)
    /\ UNCHANGED <<mode, sourceVars, targetCols, snap, listed, seenCols,
                   srcConn, tgtConn, rowVars, panicked>>

SkipFile(t) ==
    /\ Running
    /\ stage[t] = "read"
    /\ Skipped(t, Current(t))
    /\ AtFile(t, nextFile[t] + 1)
    /\ UNCHANGED <<mode, sourceVars, targetCols, snap, listed, seenCols,
                   srcConn, tgtConn, rowVars, panicked>>

\* MUTANT of HasSchemaDiff: any in place of all.
HasSchemaDiffIfDisjoint(t) ==
    Current(t) \in LoadFiles /\ FileCols[Current(t)] \cap seenCols[t] = {}

\* has_schema_diff: a load file has a column the source table lacked.
HasSchemaDiff(t) ==
    Current(t) \in LoadFiles /\ ~(FileCols[Current(t)] \subseteq seenCols[t])

\* MUTANT of ReadFile: the row limit does not make files other than the
\* first be skipped.
ReadFileIgnoringLimit(t) ==
    /\ Running
    /\ stage[t] = "read"
    /\ ~HasSchemaDiff(t)
    /\ stage' = [stage EXCEPT ![t] = "write"]
    /\ UNCHANGED <<mode, sourceVars, targetCols, snap, listed, seenCols,
                   nextFile, srcConn, tgtConn, rowVars, panicked>>

\* The anonymized dataframe is in memory; the schema check follows at once.
ReadFile(t) ==
    /\ Running
    /\ stage[t] = "read"
    /\ ~Skipped(t, Current(t))
    /\ ~HasSchemaDiff(t)
    /\ stage' = [stage EXCEPT ![t] = "write"]
    /\ UNCHANGED <<mode, sourceVars, targetCols, snap, listed, seenCols,
                   nextFile, srcConn, tgtConn, rowVars, panicked>>

SchemaDiff(t) ==
    /\ Running
    /\ stage[t] = "read"
    /\ ~Skipped(t, Current(t))
    /\ HasSchemaDiff(t)
    /\ Panic

\* The target pool hands out a connection, once one is free.
TakeTarget(t) ==
    /\ Running
    /\ stage[t] = "write" /\ t \notin tgtConn
    /\ Cardinality(tgtConn) < TargetPoolSize
    /\ tgtConn' = tgtConn \cup {t}
    /\ UNCHANGED <<mode, sourceVars, targetCols, snap, listed, stage, seenCols,
                   nextFile, srcConn, rowVars, panicked>>

\* The insert of a load file or the upsert of a CDC file succeeds.
WriteFile(t) ==
    /\ Running
    /\ stage[t] = "write" /\ t \in tgtConn
    /\ Accepts(t)
    /\ copies' = [copies EXCEPT ![t][Current(t)] = @ + 1]
    /\ tgtConn' = tgtConn \ {t}
    /\ AtFile(t, nextFile[t] + 1)
    /\ UNCHANGED <<mode, sourceVars, targetCols, snap, listed, seenCols,
                   srcConn, torn, panicked>>

\* The target refuses the file.
RejectedWrite(t) ==
    /\ Running
    /\ stage[t] = "write" /\ t \in tgtConn
    /\ ~Accepts(t)
    /\ Panic

\* Any call to a database or to S3 may fail, opening a connection too, and
\* every failure is a panic.  Waiting for a busy pool has no time limit.
CallFails(t) ==
    /\ Running
    /\ t \in listed
    /\ \/ /\ stage[t] \in {"columns", "key"}
          /\ t \in srcConn \/ Cardinality(srcConn) < SourcePoolSize
       \/ stage[t] \in {"list", "read"}
       \/ /\ stage[t] = "write"
          /\ t \in tgtConn \/ Cardinality(tgtConn) < TargetPoolSize
    /\ Panic

\* The stream is exhausted.
SnapshotCompleted ==
    /\ Running
    /\ \A t \in listed : stage[t] = "done"
    /\ snap' = "finished"
    /\ UNCHANGED <<mode, sourceVars, targetCols, listed, futureVars, rowVars,
                   panicked>>

----------------------------------------------------------------------------
\* One step of the future of a table.
FutureStep(t) ==
    \/ StartTable(t) \/ TakeSource(t) \/ GetTableColumns(t) \/ GetPrimaryKey(t)
    \/ NoStartDate(t) \/ ListParquetFiles(t) \/ SkipFile(t) \/ ReadFile(t)
    \/ SchemaDiff(t) \/ TakeTarget(t) \/ WriteFile(t) \/ RejectedWrite(t)

\* One step of the process when nothing outside it fails.
LoadProgress ==
    \/ ListTables \/ SnapshotCompleted
    \/ \E t \in Tables : FutureStep(t)

LoadFails == ListTablesFails \/ \E t \in Tables : CallFails(t)

\* The snapshot is over; the terminal states are not deadlocks.
Over == panicked \/ snap = "finished"

LoadNext ==
    \/ LoadProgress
    \/ LoadFails
    \/ \E t \in Tables : AlterSource(t)
    \/ Over /\ UNCHANGED loadVars

\* The runtime polls the task while one of its futures can make progress, and
\* calls return; that a call fails is never taken for granted.
LoadSpec == LoadInit /\ [][LoadNext]_loadVars /\ WF_loadVars(LoadProgress)

----------------------------------------------------------------------------
LoadTypeOK ==
    /\ mode \in Modes
    /\ sourceCols \in [Tables -> SUBSET Columns]
    /\ alters \in 0..MaxAlters
    /\ targetCols \in [Tables -> SUBSET Columns]
    /\ snap \in {"idle", "load", "finished"}
    /\ listed \in SUBSET Tables
    /\ stage \in [Tables -> Stages]
    /\ seenCols \in [Tables -> SUBSET Columns]
    /\ nextFile \in [Tables -> Nat \ {0}]
    /\ srcConn \in SUBSET Tables
    /\ tgtConn \in SUBSET Tables
    /\ copies \in [Tables -> [Parquet -> Nat]]
    /\ torn \in SUBSET Tables
    /\ panicked \in BOOLEAN

\* The files of t that come before index i and are not skipped.
Before(t, i) == {Files(t)[j] : j \in {k \in 1..Len(Files(t)) :
                    k < i /\ ~Skipped(t, Files(t)[k])}}

Passed(t)   == Before(t, nextFile[t])          \* those its future wrote
Expected(t) == Before(t, Len(Files(t)) + 1)    \* those a full load holds

\* While the process lives each table holds the files its future passed, in
\* listing order, each exactly once and in full: no interleaving of futures
\* loses, repeats or tears a file, whatever the pools and NUM_OF_BUFFERS.
\* After a panic only the file a future was writing may differ from that.
ExactPrefix ==
    \A t \in Tables :
       /\ ~panicked => t \notin torn
       /\ \A p \in Parquet :
             \/ copies[t][p] = IF p \in Passed(t) THEN 1 ELSE 0
             \/ /\ panicked /\ t \in Writing /\ p = Current(t)
                /\ copies[t][p] = 1

\* Complete(t): t holds exactly the files of a full load, each once.
Complete(t) ==
    /\ t \notin torn
    /\ \A p \in Parquet : copies[t][p] = IF p \in Expected(t) THEN 1 ELSE 0

\* A snapshot that reports its end has loaded every listed table completely,
\* although each file is written by a future that may panic, be skipped or
\* wait for a pool.
CompletedMeansComplete == snap = "finished" => \A t \in listed : Complete(t)

\* What is loaded was checked: under any schema change on the source, a file
\* is in the target only if its table is there with every column of the file,
\* and a load file only if each of them was a column of the source when its
\* future asked.
LoadedFilesFit ==
    \A t \in Tables, p \in Parquet :
       copies[t][p] > 0 => /\ Exists(targetCols, t)
                           /\ FileCols[p] \subseteq targetCols[t]
                           /\ p \in LoadFiles => FileCols[p] \subseteq seenCols[t]

\* The inductive invariant: where each future stands in its listing, and
\* that it keeps a connection only while it uses it.
FuturePositions ==
    /\ snap = "idle" => \A t \in Tables : stage[t] = "waiting"
    /\ snap = "finished" => \A t \in listed : stage[t] = "done"
    /\ \A t \in Tables :
          /\ stage[t] # "waiting" => t \in listed
          /\ stage[t] \in {"waiting", "columns", "key", "list"} => nextFile[t] = 1
          /\ stage[t] \in {"read", "write"} => nextFile[t] <= Len(Files(t))
          /\ stage[t] = "write" => ~Skipped(t, Current(t)) /\ ~HasSchemaDiff(t)
          /\ stage[t] = "done" => nextFile[t] = Len(Files(t)) + 1
          /\ t \in srcConn => stage[t] \in {"columns", "key"}
          /\ t \in tgtConn => stage[t] = "write"
          /\ snap = "finished" => t \notin torn

LoadInv == LoadTypeOK /\ FuturePositions /\ ExactPrefix /\ LoadedFilesFit

\* Every snapshot ends, in a panic or with the stream exhausted, with pools
\* smaller than the number of futures polled at a time.
SnapshotEnds == <>Over

\* What the command line says of its modes, DateAware among them: each is a
\* mode to load Parquet files in.  No future dies at its listing because of
\* the mode, with the target schema already dropped.
EveryModeLoads == [][\A t \in Tables : ~NoStartDate(t)]_loadVars

\* What the comment at the guard of the row limit says: the files that are not
\* loaded are load files, so that a snapshot loads every CDC file it listed.
OnlyLoadFilesSkipped ==
    snap = "finished" =>
       \A t \in listed : \A i \in 1..Len(Files(t)) :
          Files(t)[i] \notin LoadFiles => copies[t][Files(t)[i]] = 1
=============================================================================
