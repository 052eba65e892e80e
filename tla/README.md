# rustic-witcher in TLA+

A TLA+ model of rustic-witcher, the program that rebuilds an anonymized
replica of a PostgreSQL schema: it dumps the schema of the source, drops and
restores it in the target, loads the Parquet files that AWS DMS left in S3
after anonymizing them in memory, moves the sequences and lets the application
users in. With it come mongo-buddy, which carries a MongoDB database over S3, and
the generator of anonymization configurations. TLC checks the modules on small
instances; TLAPS proves the most important properties for every value of their
constants.

## The system

| Part | State it keeps | Operations | Talks to |
|---|---|---|---|
| `main` | the command line and environment; nothing survives a run but the databases, S3 and `pg_dump.sql` | prepare, snapshot, finalize, validate, in this order | all others |
| `TargetDbPreparator` | the dump file, the target schema, the import role | `pg_dump_schema`, `drop_schema`, `pg_restore_schema`, `create_data_import_user`, `fix_sequences_ownership` | source and target database, shell |
| `CDCOperator::snapshot` | one future per table: its columns, its listing, its position | list tables, get columns and key, list files, per file read, check, insert or upsert | both pools, S3, the dataframe operator |
| `AnonymizationDataFrameOperator` | nothing between calls; the anonymized bucket | `create_dataframe_from_parquet_file` and its uploads | configuration, S3, transformators |
| configuration, transformators, fakers | the configuration file; one seeded generator per call | choose and apply transformators | |
| `TargetDBFinalizer` | sequences, privileges | `update_sequence_values`, grants, post-import SQL | target database |
| `ResultValidator` | nothing | run the configured queries | target database |
| `ShellCommandExecutor` | a child and its two pipes | `execute_cmd` | `pg_dump`, `pg_restore`, mongo tools, `tar` |
| mongo-buddy | `/tmp/mongo-dump`, an archive, an S3 object | export, import, multipart upload | shell, S3 |
| configuration generator | the configuration file | one interactive edit | |

What is hard in it: the table futures run concurrently in one task over pools
that may be smaller than their number; a panic in any of them ends the process
with statements of the others in flight; several errors are swallowed
(`pg_restore`, `CREATE ROLE`, `ALTER ROLE`, copies in S3, reading the
configuration) and everything else is a panic; nothing is transactional over
more than a statement, so a run that dies leaves the target as it is and the
next one starts from the top. Nothing is resumed and nothing is retried.

What makes each part correct:

- run: grants stand over a whole replica only, and but for the roles the run
  itself works as nobody reaches another one; no history of deaths and reruns
  doubles rows, the old replica is only given up with a schema for the new one in
  hand, sequences are ahead of the rows before users are let in;
- snapshot: every interleaving loads every file exactly once, in order, and
  nothing that was not checked; it ends, whatever the size of the pools;
- anonymization: no original leaves in a configured column, to the target or
  to the bucket; equal originals get equal fakes, so joins survive; filters
  and limits act on what the source says;
- shell: both pipes are drained, the result tells whether the command did it;
- end of a run: nobody draws an id that is taken, every user reaches every table
  of the owner whenever it is created, a validated run leaves no bad row;
- mongo-buddy: an archive holds what it was asked to in its latest version and,
  on a disk on which no export died, nothing it was asked to leave out; the object
  is the whole archive, and an import that ends well brings all of it, whatever
  died before;
- configuration generator: an edit adds a rule to one table and loses none, and
  what was written is read as it was edited.

## Modules

| Module | Models | Runs |
|---|---|---|
| `SnapshotLoad` | `CDCOperator::snapshot`, the pools, the source schema | `snapshot_load`, `every_mode_loads`, `only_load_skipped` |
| `WitcherRun` (extends `SnapshotLoad`) | `main`, preparator, finalizer: whole runs, deaths, reruns | `witcher_run`, `loads_as_replica` |
| `PublishedReplica` | what the application users are promised | implemented by `WitcherRun` (`KeepsPromise`) |
| `Selection` | filters of iterators and dataframes: the elements at some positions | through the three modules that filter |
| `Anonymization` (extends `Selection`) | dataframes, limit, sanitization, filters, transformators | through `DataframeOperator` |
| `DataframeOperator` (extends `Anonymization`) | `create_dataframe_from_parquet_file`, the anonymized bucket | `dataframe_operator`, `skipped_without_file` |
| `ShellCommand` (extends `Selection`) | `ShellCommandExecutor::execute_cmd`, the child and its pipes | `shell_command` |
| `Finalization` | `finalize_snapshot` and `ResultValidator` statement by statement, among the owner and the users | `finalization` |
| `MultipartUpload` | `upload_to_s3`: single and multipart upload, S3's side | through `MongoBuddy` |
| `MongoBuddy` (extends `MultipartUpload`) | exporter and importer: files on disk, deaths, restarts | `mongo_buddy` |
| `ConfigGenerator` (extends `Selection`) | `rustic-config-generator-cli`, the file, and how it is read | `config_generator`, `edit_appends` |
| `SnapshotLoadProofs`, `WitcherRunProofs`, `DataframeOperatorProofs`, `ShellCommandProofs`, `FinalizationProofs`, `MongoBuddyProofs` (with `MultipartUpload`), `ConfigGeneratorProofs` | the theorems and their proofs | |
| `SelectionProofs` | the lemmas on filters and on induction the others share | |
| `MC...` | constants for TLC | |

`PROJECT.json` maps each definition to the lines it stands for. A definition
that begins with the comment `MUTANT of X` is a plausible bug in the code
behind `X`: put in the place of `X`, it violates the property it is listed
with, which shows that the property looks at the code.

### SnapshotLoad

One action per await point of a table's future: `StartTable` (the stream takes
the next future), `TakeSource`, `GetTableColumns`, `TakeSource`,
`GetPrimaryKey`, `ListParquetFiles`, then for each file `SkipFile` or
`ReadFile` (the call of the dataframe operator and the schema check after it,
which do not give way in between), `TakeTarget`, `WriteFile`. `stage[t]` says
where the future of `t` stands, `nextFile[t]` at which file. Everything that
can fail is a `Panic` (`NoStartDate`, `SchemaDiff`, `RejectedWrite`,
`CallFails`). A panic ends the process and settles the statements in flight:
each did nothing, part of its rows or all of them. They settle at once because
nothing looks at the tables before `DROP SCHEMA` of the next run, which waits
for their locks. `copies[t][p]` counts how often the rows of file `p` were
written to `t`, `torn` are the tables with a part of a file. `AlterSource` is
somebody else who changes the source schema.

### WitcherRun

`phase` is the statement `main` is at, `run` the number of the run. `Snapshot`
is a step of `SnapshotLoad` inside the phase of that name; a panic there ends
the run. `Die` is a failing call or a kill at any point, `Rejected` a statement
that cannot succeed, and `StartRun` the next run over what the last one left:
`dump` (the file), `schemaExists`, `roleExists`, `replica`, `owned` (sequences
in `pg_depend`), `seqCovers` (what `SETVAL` saw), `granted`. `DropSchema` takes
tables, rows, sequences and privileges at once, as `DROP SCHEMA .. CASCADE`
does. `PgRestore` swallows its errors: any part of the schema may come back.
`CreateRole` and `AlterRole` swallow theirs.

Access is more than grants. `pg_restore --no-owner` makes the role of
`TARGET_POSTGRES_URL` the owner of the tables, and `main` takes this role for
`app_owner`, which the finalizer expects among the application users; the
role of `SUPERUSER_URL` has all privileges from its preparation on. `Readers` are
the users that reach the tables in either way: `granted`, and of `Workers`
(`AppOwner`, `ImportRole`) those that are users, from the restore on. Such a user
sees the tables half loaded. `AccessOnlyToWhole` says that nobody else does, and
`PublishedReplica` keeps apart who was let in (`admitted`, for `granted`) and who
reaches the data (`readers`).

### Anonymization and DataframeOperator

A dataframe is its column types and its rows; a cell is an original
(`<<"source", v>>`, one of `Originals`) or tells its origin
(`<<"name", r, v>>`: the fake the generator in state `r` makes of
`v`), so that a property can speak of where a value comes from and not of how
it reads. `Null`, `Short`, `Digits`, `WideEnds` and `NulBytes` are the cells the code
tells apart (`StringsAssumption`): the first and the last are originals, the
others may be fakes too, since a phone or multi-email transformator looks into
whatever its column holds by then. The state of the shared generator is
the history of the draws made from it: the fakers work on a clone of it seeded
with the value, phone, multi-email and id-email advance it. `Fails` lists when a
transformator panics; `Run(start, chain)[n]` is what the first `n` of a chain
have made of a frame. Which rows a filter keeps, which transformators apply and
which cells draw is each `Selected`, a sequence and the positions kept.
`DataframeOperator` interleaves the calls for the files of several tables, one
file of a table after the other: `Skip` or `Request` (configuration and guard),
`Download` (all that happens in memory) or `Fail`, then `Upload`, `Copy` or
nothing. `Die` ends the process with requests in flight served or not.

The properties hold for every configuration, those that transform a column
twice among them, and say what the code does about these. `NothingRaw` has three
exceptions: what the kind of transformator is made to spare, phone numbers without
digits or of one character, and the null of an original that was null and that a later `nullify` of
the same column puts back. `SameValueSameFake` is about fakers with no drawing
transformator before them and no other one behind them on their column
(`Undrawn`): a phone before a name would make the seed depend on the file.
`RowLimit` adds up the rows of all files of a table (`Rows`); it needs the calls
to have read the same configuration, because one that could not read it loads its
file unlimited.

### ShellCommand

`wrote[s]` is all the child ever wrote to a stream and `read[s]` how much of it
the executor has read, so that the pipe is what lies between, at most
`PipeCapacity` lines (the pipe and the reader's buffer). A line is what the
code asks of it: with "error", with "warning", neither, or not UTF-8, which is
a panic. The child does one thing at a time: it begins a write and stays in it
while the pipe is full, closes a stream, or exits. `at` is the place of
`execute_cmd`: the `select!` loop, the drain of stderr, the wait, the answer.
After an answer or a panic the read ends are gone and the next write of a child
that still runs ends it (`BrokenPipe`). `WitcherRun` uses only the answer:
`PgDump` goes on after an `Ok`, which by `OkMeansDone` stands for a `pg_dump`
that succeeded.

### Finalization

`at` is the part of `finalize_snapshot` or `validate` that runs. `SetVal` is one
`SETVAL`, disabled for a value below 1, which PostgreSQL refuses: that run ends
in `Panics`. `Grant` is one grant statement: `statement` counts through the nine
statements of each user in the order `flat_map` gives them, and `Granted`,
`CreatorOfDefaults` and `Grantees` say what PostgreSQL makes of "on all tables"
and of default privileges. `OwnerCreates` and `UserInserts` are applications at
work meanwhile; the run itself is the role of `SUPERUSER_URL`, so that a table a
post-import query creates falls under nobody's default privileges but the
owner's. Rows are their ids, since `MAX(id)`, the sequence and (through a set of
good rows) the validations ask nothing else of them.

`UsersReachAll` has an exception that is the code's: a table created after the
grant on all tables and before the default privileges of the same user is out of
that user's reach for good. `SequencesAhead` leaves out ids that post-import
queries choose themselves, because `SETVAL` comes before them. The application
is taken not to write before the sequences are set: an insert that is not
committed when `SETVAL` reads the maximum is not counted, and its id is given
out again.

### MultipartUpload and MongoBuddy

`upload` is the request or the read `upload_to_s3` is at. Of the bytes of an
object only their places in the archive are kept: an object is the list of the
ranges it was put together from, which is all that the part size, the loop and
`CompletedMultipartUpload` decide. A size is counted in units of which a GiB has
`GiB`. When the process dies the request that is out is served or not
(`ServedOrNot`); parts of an upload that was never completed stay invisible.

`MongoBuddy` puts the upload between the dump and the cleanup of an export.
Collections have versions, an archive is the folder it packs, so `dumpDir`,
`content`, `tarball`, `extracted` and `target` are all functions from
collections to versions. A command that dies leaves any part of what it was
writing or removing (`LeftBehind`, `RestoredInPart`), and the next start finds
it or has a new container. The importer never removes what it unpacked, so
`Untar` writes over it and `RestoreCollection` restores all of it: what
`ImportIsArchive` promises is the archive, not that nothing else comes along.
A start of a command that is refused (a URI of another database or of
production) changes nothing.

### ConfigGenerator

A file is a sequence of lines that stand for the lines of TOML that belong
together. `Parses`, `Config` and `EntryLines` are `toml::from_str` and
`to_string` for such files: keys before subtables, one entry per head, nothing
twice. `Overwritten` is a write into a file that was not truncated: equal text
covers equal text, and the line behind the end of the write may be left cut,
even in the middle of a character, which makes the file unreadable and hence,
in `Loaded` as in `load_config_for`, a configuration of no tables at all.
`Write` takes all of its bytes or fewer, as the ignored result of `file.write`
allows; `Killed` comes between two writes.

## What the runs show

- `snapshot_load`: three tables (two load files; a row limit with a second load
  file and a CDC file to skip; a file that does not fit the table), two futures
  at a time over pools of one connection, one schema change, all three listing
  modes. Two futures of three and one connection for two futures make both the
  buffer and the pools contended; two files per table make the loop go round.
- `witcher_run`: two runs, two tables, three users (the owner of the tables, the
  role that loads them, and one that is neither), one extension, one sequence
  attached by the dump and one by `ownerships.txt`, one schema change, deaths
  at every point. A second run is what it takes to meet the remains of a first;
  a third meets nothing new, since `DropSchema` forgets all but roles and dump.
- `dataframe_operator`: three files of two tables, a list of configurations of
  each that together use every transformator, filter and mistake, two
  transformators of one column (a phone behind a random identifier among them,
  whose digits it draws for) and one that draws before a faker, reduction and upload on and off, deaths with uploads in flight.
- `shell_command`: pipes of one line and up to two lines on each stream, with
  and without `check_for_error`: either pipe may be full, empty or closed while
  the child waits in a write to the other, the place where an executor that
  read one after the other would hang.
- `finalization`: two users of which one is the owner, in either order, a
  restored table with any set of ids from -1 to 3 and one created at any moment,
  one post-import query, two validations that share rows. Two users make the
  statements of one fall before and after those of the other.
- `mongo_buddy`: two collections, one of which may be left out, one change of the
  source, two exports, two imports, two deaths, archives of 4.9 GiB and of
  12.3 GiB (a tenth of it has a remainder, so there is an eleventh part; a GiB
  has ten units). The second export or import is the one that meets what the
  first has left.
- `config_generator`: two edits of eighteen files, with and without comments at
  their head, of one or two tables with options, a filter or a Single type, over
  two tables and two rules, with short writes and kills. The second edit meets a
  file the generator has written, whole or in part.
- `every_mode_loads`, `only_load_skipped`, `loads_as_replica`, `skipped_without_file`
  and `edit_appends` state what a comment or the documentation says and
  find that the code does something else; see the findings in `PROJECT.json`.

Bounds: `MaxAlters` (schema changes), `MaxRuns` (runs started), `MaxLines`
(lines of a child on each stream), `MaxId` and `MaxSql` (ids, post-import
queries), `MaxChanges`, `MaxExports`, `MaxImports`, `MaxDeaths` (mongo-buddy),
`MaxEdits` (edits of the configuration). The rest of the state is finite by itself. No symmetry is used.

Deadlock is checked in every run: a state in which nothing can happen is
either the end of the load, of the run or of the calls, which stutter, or an
error.

Fairness: `LoadSpec` and `Spec` of `WitcherRun` assume weak fairness of what
the process itself does (`LoadProgress`, `Progress`): the runtime polls the
task while one of its futures can go on, and calls and commands return. That a
call fails, that the process is killed, that a run is started and that the
source changes is never assumed. Among the futures no fairness is needed: each
has finitely many steps. With `NUM_OF_BUFFERS=0` no future is ever polled and
`SnapshotEnds` does not hold, hence `LimitsAssumption`. `Fairness` of
`ShellCommand` is per pipe, because `select!` polls its branches in random order
and passes neither over for ever, and of the child, which ends once its output is read.
`Finalization`, `MongoBuddy` and `ConfigGenerator` assume none: they are sequences
of statements and commands that wait for nothing but the answer, so their
liveness would only repeat that commands return.

## What is proved

`SnapshotLoadProofs` proves `LoadTypeOK`, `ExactPrefix`, `LoadedFilesFit` and
`CompletedMeansComplete` for all tables, listings, files, pools, buffers and
numbers of schema changes. `ExactPrefix` is not inductive as it stands: that a
write adds a file once needs the position of the future to be inside its
listing, that the files before it do not contain it (listings name no file
twice, `ListingAssumption`), and that a connection of the target pool is held
only while writing. `FuturePositions` says so, and `LoadInv` is the
conjunction. The lemma `BeforeNext` is the step of the loop, `AdvanceInv` a
future that moves on, `PanicInv` the death of the process; each action then
takes a few lines.

`WitcherRunProofs` proves every safety property of `witcher_run` for any number
of runs, users, extensions and tables. The invariant `IInv` adds to the types
and to `LoadInv` what the phase says of the load (`LoadFollowsPhase`), of the
users (`AccessFollowsLoad`: before the grants none stands, after the load
it is complete) and of the dump (`DumpFollowsPhase`). `LoadInv` is kept by
every step of a run because a dead run's futures are forgotten only when their
rows are dropped. `KeepsPromiseCorrect` is the refinement: a drop is a `Wipe`,
which leaves not even the owner a table; restore, role and load are a `Rebuild`
with nobody let in and only `Workers` inside (`UngrantedReaders`); a grant is an
`Admit`, and the rest does not show. It holds whether the owner and the role that
loads are application users or not.

`ShellCommandProofs` proves `TypeOK`, `OkMeansDone` and `ErrorIsTold` for pipes of
any capacity and any number of lines. The invariant says what each stage has behind
it (`Ended`: from the drain on stdout is at its end, from the wait on stderr too;
`Clean`: nothing to stop at was read without an answer); a child that appends to
a stream keeps the lines before (`AppendKeeps`) and cannot reopen one.
`ErrorIsTold` needs that the lines collected are those with "error" among the
lines read, at every point of both loops.

`FinalizationProofs` proves all four properties of `finalization` for any users
in any order, tables, ids and validations. `HighestId` (a bounded set of ids has
a greatest one, from the well-foundedness of the naturals) is what `SETVAL`
rests on. `InvGranted` says for the k-th user what it has once its n-th
statement is behind (`HasGrants`) and which tables it reaches for every moment of
their creation (`Reaches`); `GrantAt` finds the user and the statement from the
number, and the exception of `UsersReachAll` is what is left between the two
grants. `InvChecked` carries the rows of the beginning through the validations.

`MongoBuddyProofs` proves first of the upload by itself that of every size up to
5 TiB the parts tile the archive, are at most 10,000 and of the sizes S3 takes.
The invariant says that the parts uploaded so far form a chain up to the position,
that all of them are full ones while bytes are left, and hence that there are no
more of them than GiBs read. It then shows that the commands use the upload as
`MultipartUpload` specifies it (`ExportsUpload`: every step is a step of
`UploadNext` or leaves it alone), takes `ObjectWhole` from there, and proves the
other four properties for any number of collections, exports, imports and
deaths, from what each stage of a command has behind it.

`SelectionProofs` is what proofs about data rest on. The induction theorems of the
library take an operator, which the provers cannot instantiate; `NatSetInduction`
takes a set of numbers instead, and what is to be shown of every `n` is put as
"the set of those it holds for". With it come what `Selected` returns: a sequence no
longer than the first, from which growing positions each element comes
(`SelectedAt`), and that it is put together of the selections of the parts
(`SelectedAppend`, `SelectedConcat`, `SelectedJoin`). Everything
recursive in the modules that are proved about is a recursive function or a fold.

`DataframeOperatorProofs` proves all six properties of `dataframe_operator`, for
any files, configurations and chains of transformators. It goes from the cell to
the state: what one transformator makes of a cell (`TransformedCell`,
`TransformedAgain`), of a frame (`ApplyStep`), and, by induction, what a chain does
(`RunStands`, `RunUntouched`, `RunUndrawn`, `RunHides`, `RunFakes`): it keeps columns
and number of rows, leaves alone the columns nobody names, leaves nothing original
in those somebody names unless it panics, and keeps the generator in its first state
as long as nobody draws. `AnonymizedFrame` puts this together for the
transformators that are chosen, `OutcomeFrame` adds limit, sanitization and filter.
The inductive invariant `FrameInv` then only has to say that a dataframe is
`Outcome` of the file and of the configuration its call has read (`InvFrame`), that
this is what the file said or nothing and did not say to skip (`InvConfig`), and
what may be in the bucket at which stage (`BucketInv`): `Released` dataframes are
outcomes, whoever else ran in between. `RowLimit` needs in addition that only one
file of a limited table is not skipped.

`ConfigGeneratorProofs` proves all four properties of `config_generator` for any
tables, rules, files, number of edits, short writes and kills. A text falls into
what stands before its first head and blocks, and `ConfigConcat` says how it is
read when texts are put one behind the other: from the second text's first head
on as that text alone. From it follow that an entry that is written is read
back (`ReadEntry`), that a configuration is (`RoundTrip`, by induction over its
entries), and that what is left behind the new text can add entries, and rules to
the last one, but take nothing away (`NewTextKeeps`); `FoundBefore`, `FoundBehind`
and `KeptFirst` say what that means for the first entry of a table. The inductive
invariant `GeneratorInv` follows the four writes (`Progress`): while each was whole,
the file begins with the text written so far, and is as long as that or as the
old file was. After a short write it says nothing of the file, as the
properties do. `HeaderSame` is the reason for `HeaderSafe`: the two lines written
first are the same in every file the generator made.

The inductive invariants were checked by TLC before they were proved:
`FrameInv` on the constants of `dataframe_operator`, `GeneratorInv` on those of
`config_generator` with one edit (with two it has more states than TLC gets
through).

The proofs rest on the named assumptions of the modules, which TLC evaluates:
included tables are tables, a listing names a file once and a full-load listing
only load files, buffers and pools are not empty, the sequences concern tables
of the schema; restored tables and those created later are different, users are
finitely many; a GiB has a unit, archives hold dumps; a pipe holds a line; a file
belongs to one table and comes once in it, DMS names one file of a table
`LOAD00000001`, and the cells of a file fill its columns; a null is not a string,
a string of at most a byte is none of the longer ones the code looks into, and
files hold originals;
a configuration limits to a number of rows; a configuration file consists of the
lines `LineSet` names.

Only model-checked: the three liveness properties `SnapshotEnds`, `RunEnds` and
`Answered`, since fairness and ENABLED are out of the prover's reach. Every safety
and action property a passing run checks, and the refinement of
`PublishedReplica`, is a theorem.

## Not modelled

- Post-import SQL beyond the rows and tables it inserts, deletes and creates. A
  failed validation does not lock users out again.
- Access by other ways than the run's own grants, owning the tables and being the
  role that loads them: superusers, and members of one of those roles by a grant
  of somebody else. What the owner does with the half loaded tables.
- Two runs at the same time against one target.
- Children that outlive the process, an orphaned mongorestore that goes on while
  the next import runs among them; exporter and importer on one host, where they
  would share `/tmp/mongo-dump`; the cost of parts no upload ever completed.
- Privileges on functions and the right to create objects.
- TOML beyond what the generator writes and a file of comments, heads, keys,
  filters and rules may hold.
- Faker types, durations and the construction of the S3 client: names,
  formatting and a constructor without behaviour.
- What listings contain: `dms-cdc-operator`, PostgreSQL and S3 are not part of
  the repository and are modelled from how the code uses them.
- Texts of fakes, and that a fake may read like an original by chance.
- Submodules that are not part of the repository (the whole table
  transformator of bluegroundltd, the local data importer), build files.

## Plan

Done: `SnapshotLoad`, `WitcherRun`, `PublishedReplica`; `Anonymization` and
`DataframeOperator`; `ShellCommand`; `MultipartUpload` and `MongoBuddy`;
`Finalization`; `ConfigGenerator`; the proofs named above.

The hazards in `PROJECT.json` that name no property are behaviour of the code the
models contain and no property forbids, or lie outside the models; each says which.

Left: `DataframeOperator` shown to implement the read step of `SnapshotLoad`.
