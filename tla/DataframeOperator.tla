-------------------------- MODULE DataframeOperator --------------------------
(***************************************************************************)
(* AnonymizationDataFrameOperator: create_dataframe_from_parquet_file,     *)
(* called by the futures of CDCOperator::snapshot, one file of a table     *)
(* after the other, the tables interleaved.  A call reads the              *)
(* configuration, downloads the file, anonymizes it in memory (module      *)
(* Anonymization) and, if asked to, leaves a copy in the anonymized bucket *)
(* before it returns the dataframe for the target database.  Any error or  *)
(* panic ends the process.                                                 *)
(***************************************************************************)
EXTENDS Anonymization, FiniteSets

CONSTANTS
    Tables,     \* the tables of the schema
    FilesOf,    \* FilesOf[t]: the files of t, in the order its future takes
    FirstLoad,  \* files whose key contains LOAD00000001
    Source,     \* Source[p]: the dataframe in file p
    Configs,    \* Configs[t]: what the configuration file may say of t
    OldObject   \* what an earlier run left in the anonymized bucket

NoFrame    == <<>>
Parquet    == DOMAIN Source
Table(p)   == CHOOSE t \in Tables : p \in Range(FilesOf[t])

\* Every file belongs to one table and comes once in it, and DMS names one file
\* of a table LOAD00000001.
ASSUME FilesOfAssumption ==
    /\ \A p \in Parquet : \E t \in Tables : p \in Range(FilesOf[t])
    /\ \A t, u \in Tables : \A i \in DOMAIN FilesOf[t] : \A j \in DOMAIN FilesOf[u] :
          FilesOf[t][i] = FilesOf[u][j] => t = u /\ i = j
    /\ \A t \in Tables : FilesOf[t] \in Seq(Parquet)
    /\ FirstLoad \subseteq Parquet
    /\ \A t \in Tables : \A p, q \in Range(FilesOf[t]) \cap FirstLoad : p = q

\* The cells of a file fill its columns.
ASSUME SourceAssumption ==
    \A p \in Parquet : Source[p] \in Frames(Columns(Source[p]), Originals)

\* What serde makes of a configuration: a Single table has no transformators.
ASSUME ConfigsAssumption ==
    \A t \in Tables : \A c \in Configs[t] :
       /\ Transformators(c) \in Seq(Range(Transformators(c)))
       /\ c.keep # NoLimit => c.keep \in Nat

AnyConfig == (UNION {Configs[t] : t \in Tables}) \cup {NoTable}

VARIABLES
    configured,  \* configured[t]: what the configuration file says of t
    reduction,   \* RECORD_REDUCTION_ENABLED
    upload,      \* UPLOAD_ANONYMIZED_FILES
    stage,       \* where the call for each file stands
    config,      \* config[p]: what the call for p has read of it
    frame,       \* frame[p]: the anonymized dataframe
    object,      \* object[p]: the object of p in the anonymized bucket
    dead         \* whether the process is

vars == <<configured, reduction, upload, stage, config, frame, object, dead>>

Stages == {"idle", "download", "copy", "upload", "returned", "skipped"}

Over(p)   == stage[p] \in {"returned", "skipped"}
AllOver   == \A p \in Parquet : Over(p)

\* It is the turn of p: the calls for the files before it have returned.
Due(p) ==
    /\ ~dead /\ stage[p] = "idle"
    /\ LET f == FilesOf[Table(p)]
       IN  \A i, j \in DOMAIN f : f[j] = p /\ i < j => Over(f[i])

Init ==
    /\ configured \in [Tables -> AnyConfig]
    /\ \A t \in Tables : configured[t] \in Configs[t] \cup {NoTable}
    /\ reduction \in BOOLEAN
    /\ upload \in BOOLEAN
    /\ stage = [p \in Parquet |-> "idle"]
    /\ config = [p \in Parquet |-> NoTable]
    /\ frame = [p \in Parquet |-> NoFrame]
    /\ object = [p \in Parquet |-> OldObject]
    /\ dead = FALSE

----------------------------------------------------------------------------
\* load_config_for takes every error of reading the file for "no file".
ReadConfig(p) == {configured[Table(p)], NoTable}

\* MUTANT of Skips: the row limit leaves the other files alone.
SkipsNothing(p, c) == FALSE

\* The guard before the download.
Skips(p, c) ==
    /\ c # NoTable /\ c.keep # NoLimit
    /\ reduction /\ p \notin FirstLoad

\* MUTANT of Skip: a dataframe is promised, and there is none.
SkipReturning(p) ==
    /\ Due(p)
    /\ \E c \in ReadConfig(p) :
          /\ Skips(p, c)
          /\ config' = [config EXCEPT ![p] = c]
    /\ stage' = [stage EXCEPT ![p] = "returned"]
    /\ UNCHANGED <<configured, reduction, upload, frame, object, dead>>

Skip(p) ==
    /\ Due(p)
    /\ \E c \in ReadConfig(p) :
          /\ Skips(p, c)
          /\ config' = [config EXCEPT ![p] = c]
    /\ stage' = [stage EXCEPT ![p] = "skipped"]
    /\ UNCHANGED <<configured, reduction, upload, frame, object, dead>>

Request(p) ==
    /\ Due(p)
    /\ \E c \in ReadConfig(p) :
          /\ ~Skips(p, c)
          /\ config' = [config EXCEPT ![p] = c]
    /\ stage' = [stage EXCEPT ![p] = "download"]
    /\ UNCHANGED <<configured, reduction, upload, frame, object, dead>>

\* The rows that are read: all, or the first of the first load file.
Read(p, c) ==
    IF reduction /\ c # NoTable /\ p \in FirstLoad /\ c.keep # NoLimit
    THEN Sliced(Source[p], c.keep) ELSE Source[p]

\* The dataframe before it is filtered.
Sane(p, c) == IF c # NoTable /\ c.sanitize THEN Sanitized(Read(p, c)) ELSE Read(p, c)

\* MUTANT of Outcome: the filter looks at the anonymized values.
OutcomeFilteredLast(p, c) ==
    IF c = NoTable THEN [frame |-> Sane(p, c), rng |-> <<>>, panic |-> FALSE]
    ELSE LET all == Anonymized(Sane(p, c), c)
         IN  IF all.panic \/ FilterFails(Sane(p, c), c.filter)
             THEN [all EXCEPT !.panic = TRUE]
             ELSE [all EXCEPT !.frame = Filtered(@, c.filter)]

\* What the call makes of the file, without giving way in between.
Outcome(p, c) ==
    IF c = NoTable THEN [frame |-> Sane(p, c), rng |-> <<>>, panic |-> FALSE]
    ELSE IF FilterFails(Sane(p, c), c.filter)
    THEN [frame |-> Sane(p, c), rng |-> <<>>, panic |-> TRUE]
    ELSE Anonymized(Filtered(Sane(p, c), c.filter), c)

\* The file arrives and is anonymized.  When the dataframe cannot be written
\* as Parquet the upload is given up, and the dataframe returned all the same.
Download(p) ==
    /\ ~dead /\ stage[p] = "download"
    /\ LET out == Outcome(p, config[p])
       IN  /\ ~out.panic
           /\ frame' = [frame EXCEPT ![p] = out.frame]
    /\ stage' \in {[stage EXCEPT ![p] = s] :
                     s \in IF ~upload THEN {"returned"}
                           ELSE IF config[p] = NoTable THEN {"copy"}
                           ELSE {"upload", "returned"}}
    /\ UNCHANGED <<configured, reduction, upload, config, object, dead>>

\* A filter error, or a panic in a transformator.
Fail(p) ==
    /\ ~dead /\ stage[p] = "download"
    /\ Outcome(p, config[p]).panic
    /\ dead' = TRUE
    /\ UNCHANGED <<configured, reduction, upload, stage, config, frame, object>>

\* copy_parquet_file_to_anonymized_bucket: the file as it is.  An error of
\* the copy is dropped.
Copy(p) ==
    /\ ~dead /\ stage[p] = "copy"
    /\ object' \in {object, [object EXCEPT ![p] = Source[p]]}
    /\ stage' = [stage EXCEPT ![p] = "returned"]
    /\ UNCHANGED <<configured, reduction, upload, config, frame, dead>>

\* MUTANT of Upload: what is uploaded is the frame as read.
UploadAsRead(p) ==
    /\ ~dead /\ stage[p] = "upload"
    /\ object' = [object EXCEPT ![p] = Sane(p, config[p])]
    /\ stage' = [stage EXCEPT ![p] = "returned"]
    /\ UNCHANGED <<configured, reduction, upload, config, frame, dead>>

Upload(p) ==
    /\ ~dead /\ stage[p] = "upload"
    /\ object' = [object EXCEPT ![p] = frame[p]]
    /\ stage' = [stage EXCEPT ![p] = "returned"]
    /\ UNCHANGED <<configured, reduction, upload, config, frame, dead>>

----------------------------------------------------------------------------
\* What may be in the bucket when the process dies: a request in flight has
\* been served or not.
InFlight ==
    {[p \in Parquet |-> IF p \in S THEN IF stage[p] = "copy" THEN Source[p] ELSE frame[p]
                        ELSE object[p]] :
        S \in SUBSET {p \in Parquet : stage[p] \in {"copy", "upload"}}}

\* A download or an upload fails, another future panics, or a kill.
Die ==
    /\ ~dead /\ ~AllOver
    /\ dead' = TRUE
    /\ object' \in InFlight
    /\ UNCHANGED <<configured, reduction, upload, stage, config, frame>>

Progress ==
    \E p \in Parquet : Skip(p) \/ Request(p) \/ Download(p) \/ Fail(p) \/ Copy(p) \/ Upload(p)

Next ==
    \/ Progress
    \/ Die
    \/ dead /\ UNCHANGED vars
    \/ AllOver /\ UNCHANGED vars

Spec == Init /\ [][Next]_vars

----------------------------------------------------------------------------
\* The shape of the state, for dataframes whose columns are those of the file.
TypeOK ==
    /\ configured \in [Tables -> AnyConfig]
    /\ reduction \in BOOLEAN /\ upload \in BOOLEAN /\ dead \in BOOLEAN
    /\ stage \in [Parquet -> Stages]
    /\ config \in [Parquet -> AnyConfig]
    /\ \A p \in Parquet :
          /\ frame[p] # NoFrame <=> stage[p] \in {"copy", "upload", "returned"}
          /\ frame[p] # NoFrame =>
                /\ frame[p].types \in [Columns(Source[p]) -> CellTypes]
                /\ Len(frame[p].rows) <= Len(Source[p].rows)

\* The dataframes that have left the operator: for the target database, and
\* for the anonymized bucket.
Released(p) ==
    (IF stage[p] = "returned" THEN {frame[p]} ELSE {})
       \cup (IF object[p] # OldObject THEN {object[p]} ELSE {})

\* Cells of a file that x may leave as they are.
Spared(x) ==
    CASE x.kind \in {"name", "md5"} -> IF x.retain THEN {Null, Blank} ELSE {}
      [] x.kind = "nullify"         -> {Null}
      [] x.kind = "multiEmail"      -> Short \cup {Null}
      [] OTHER                      -> {}

\* No original leaves the operator in a column the configuration it has read
\* names, however many transformators the table has and whichever of them
\* apply, not to the target and not to the anonymized bucket, even when the
\* process dies; but for what that kind of transformator spares, phone numbers
\* without digits or of one character, and the null a later transformator of
\* the column puts there.
NothingRaw ==
    \A p \in Parquet : \A f \in Released(p) :
       config[p] # NoTable =>
          \A k \in DOMAIN Transformators(config[p]) :
             LET s == Transformators(config[p])
                 x == s[k]
             IN  x.column \in Columns(f) =>
                    \A v \in Range(Column(Source[p], x.column)),
                       w \in Range(Column(f, x.column)) :
                       v = w => \/ v \in Spared(x)
                                \/ x.kind = "phone" /\ v \notin Digits
                                \/ v = Null /\ \E j \in DOMAIN s :
                                      j > k /\ s[j].column = x.column /\ s[j].kind = "nullify"

Drawing == {"phone", "multiEmail", "idEmail"}

\* The fakes of c that are left of a seeded faker no transformator before draws
\* for: the faker is the last one on its column.
Undrawn(c, k) ==
    LET s == Transformators(c)
    IN  /\ s[k].kind = "name"
        /\ \A j \in DOMAIN s : j < k => s[j].kind \notin Drawing
        /\ \A j \in DOMAIN s : j > k => s[j].column # s[k].column

\* Joins survive anonymization: two equal originals get the same fake in every
\* row, file and table, whatever comes before them and in whichever order the
\* futures run, where no transformator that draws stands before the faker and
\* no other transformator works on the fakes.
SameValueSameFake ==
    \A p, q \in Parquet : \A f \in Released(p), g \in Released(q) :
       config[p] # NoTable /\ config[q] # NoTable =>
          \A k \in DOMAIN Transformators(config[p]), l \in DOMAIN Transformators(config[q]) :
             Undrawn(config[p], k) /\ Undrawn(config[q], l) =>
                \A a \in Range(Column(f, Transformators(config[p])[k].column)),
                   b \in Range(Column(g, Transformators(config[q])[l].column)) :
                   /\ a \notin {Null, Blank, Fresh} /\ b \notin {Null, Blank, Fresh}
                   /\ a[3] = b[3]
                   => a = b

\* The anonymized bucket tells the truth: an object this run has put there is
\* the dataframe the target got, or would have got.
ObjectIsFrame == \A p \in Parquet : object[p] # OldObject => object[p] = frame[p]

\* Filters decide on what the source says, not on fakes: a row of the file,
\* within the row limit, is in what leaves exactly if it passes the filter.
\* Rows are told apart by a column that is not anonymized.
FilterSeesSource ==
    \A p \in Parquet : \A f \in Released(p) :
       config[p] # NoTable =>
          \A c \in Columns(f) :
             (\A k \in DOMAIN Transformators(config[p]) :
                 Transformators(config[p])[k].column # c)
             => \A v \in Range(Column(Sane(p, config[p]), c)) :
                   v \in Range(Column(f, c)) <=>
                      \E row \in Range(Sane(p, config[p]).rows) :
                         row[c] = v /\ Keeps(config[p].filter, row)

\* The rows of the dataframes of the files S.
Rows(S) == FoldSet(LAMBDA p, n : Len(frame[p].rows) + n, 0, S)

\* A limited table never gets more rows than its limit, over all its files,
\* if the calls for them read the same configuration.
RowLimit ==
    \A t \in Tables :
       reduction /\ configured[t] # NoTable /\ configured[t].keep # NoLimit =>
          Rows({p \in Range(FilesOf[t]) : stage[p] = "returned" /\ config[p] # NoTable})
             <= configured[t].keep

\* docs/ANONYMIZATION_CONFIG.md: anonymization is skipped if the configuration
\* file is not found.
SkippedOnlyWithoutFile ==
    \A p \in Parquet :
       stage[p] = "returned" /\ configured[Table(p)] # NoTable => config[p] # NoTable
=============================================================================
