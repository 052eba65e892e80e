----------------------------- MODULE Finalization -----------------------------
(***************************************************************************)
(* The end of a run, statement by statement: finalize_snapshot (sequence   *)
(* values, grants, post-import SQL) and ResultValidator, while the owner   *)
(* of the application's objects creates tables and the users let in        *)
(* insert rows.  WitcherRun has the same phases as single steps.           *)
(*                                                                         *)
(* The owner, the role of TARGET_POSTGRES_URL, restored the schema; the    *)
(* finalizer connects as another role, Importer.  Every table has an id    *)
(* column with a sequence.  Of privileges PostgreSQL grants what the       *)
(* statements say: "on all tables" those there are at that moment, default *)
(* privileges those the given role creates from then on.                   *)
(***************************************************************************)
EXTENDS Integers, Sequences, FiniteSets, FiniteSetsExt

CONSTANTS
    Users,     \* roles the run may be asked to let in
    AppOwner,  \* app_owner
    Importer,  \* the role of SUPERUSER_URL
    Restored,  \* tables of the restored schema
    Later,     \* tables that may be created while the run ends
    Lowest,    \* lowest id of a loaded row
    MaxId,     \* bound: ids
    MaxSql,    \* bound: post-import queries
    Checks     \* configured validations: [table, where, good], where the rows the
               \* query returns, good those that have the value asked for

AllTables == Restored \cup Later
Ids       == Lowest..MaxId

ASSUME IdAssumption    == Lowest \in Int /\ Lowest <= 1 /\ MaxId \in Nat \ {0}
ASSUME UsersAssumption == IsFiniteSet(Users) /\ MaxSql \in Nat
ASSUME TableAssumption ==
    /\ Restored \cap Later = {}
    /\ Checks \subseteq [table : AllTables, where : SUBSET Int, good : SUBSET Int]

VARIABLES
    at,           \* where the run stands
    appUsers,     \* application_users
    todo,         \* tables whose SETVAL has not been executed
    statement,    \* number of the grant statement that is next
    queries,      \* post-import queries executed
    checked,      \* validations that have passed
    before,       \* history: the ids there were when the validations began
    tables,       \* tables there are
    ids,          \* ids[t]: ids of the rows of t
    given,        \* history: given[t]: the ids that post-import queries chose
    nextId,       \* nextId[t]: what its sequence gives next
    creator,      \* creator[t]: the role that created it
    born,         \* born[t]: the statement that was next when it was created
    schemaUsers,  \* roles with usage on the schema and connect
    readers,      \* readers[t]: roles with privileges on t
    drawers,      \* drawers[t]: roles with privileges on its sequence
    tableDefault, \* default privileges on tables: <<creator, grantee>>
    seqDefault    \* default privileges on sequences, likewise

runVars   == <<at, appUsers, todo, statement, queries, checked, before>>
tableVars == <<tables, ids, given, nextId, creator, born>>
aclVars   == <<schemaUsers, readers, drawers, tableDefault, seqDefault>>
vars      == <<runVars, tableVars, aclVars>>

Init ==
    /\ at = "setval"
    /\ appUsers \in {s \in [1..Cardinality(Users) -> Users] :
                        \A u \in Users : \E k \in DOMAIN s : s[k] = u}
    /\ todo = Restored /\ statement = 1 /\ queries = 0 /\ checked = {}
    /\ before = [t \in AllTables |-> {}]
    /\ tables = Restored
    /\ ids \in [AllTables -> SUBSET Ids] /\ \A t \in Later : ids[t] = {}
    /\ given = [t \in AllTables |-> {}] /\ nextId = [t \in AllTables |-> 1]
    /\ creator = [t \in AllTables |-> AppOwner] /\ born = [t \in AllTables |-> 0]
    /\ schemaUsers = {AppOwner}
    /\ readers = [t \in AllTables |-> IF t \in Restored THEN {AppOwner} ELSE {}]
    /\ drawers = readers
    /\ tableDefault = {} /\ seqDefault = {}

-----------------------------------------------------------------------------
(* The database. *)

Grantees(defaults, role) == {role} \cup {g \in Users : <<role, g>> \in defaults}

\* The role creates t, with a sequence for its ids.
Create(t, role) ==
    /\ t \in Later \ tables
    /\ tables' = tables \cup {t}
    /\ creator' = [creator EXCEPT ![t] = role]
    /\ born' = [born EXCEPT ![t] = statement]
    /\ readers' = [readers EXCEPT ![t] = Grantees(tableDefault, role)]
    /\ drawers' = [drawers EXCEPT ![t] = Grantees(seqDefault, role)]
    /\ UNCHANGED <<ids, given, nextId, schemaUsers, tableDefault, seqDefault>>

\* A row with an id drawn from the sequence; an id that is there already is an
\* error, which uses up the number.
InsertRow(t) ==
    /\ nextId[t] <= MaxId
    /\ ids' = [ids EXCEPT ![t] = @ \cup {nextId[t]}]
    /\ nextId' = [nextId EXCEPT ![t] = @ + 1]
    /\ UNCHANGED <<tables, given, creator, born, aclVars>>

OwnerCreates(t) == Create(t, AppOwner) /\ UNCHANGED runVars

\* The application does not write before the sequences are set.
UserInserts(u, t) ==
    /\ at # "setval"
    /\ t \in tables
    /\ u \in schemaUsers \cap readers[t] \cap drawers[t]
    /\ InsertRow(t)
    /\ UNCHANGED runVars

-----------------------------------------------------------------------------
(* TargetDBFinalizer *)

\* COALESCE(MAX(id), 1)
Highest(t) == IF ids[t] = {} THEN 1 ELSE Max(ids[t])

\* MUTANT of SetVal: the sequence is restarted, its lower limit with it.
SetValUnlimited(t) ==
    /\ at = "setval" /\ t \in todo
    /\ nextId' = [nextId EXCEPT ![t] = Highest(t) + 1]
    /\ todo' = todo \ {t}
    /\ UNCHANGED <<at, appUsers, statement, queries, checked, before, tables, ids,
                   given, creator, born, aclVars>>

\* MUTANT of SetVal: the value set is the one that is given out next.
SetValUncalled(t) ==
    /\ at = "setval" /\ t \in todo
    /\ Highest(t) >= 1
    /\ nextId' = [nextId EXCEPT ![t] = Highest(t)]
    /\ todo' = todo \ {t}
    /\ UNCHANGED <<at, appUsers, statement, queries, checked, before, tables, ids,
                   given, creator, born, aclVars>>

\* SETVAL(sequence, COALESCE(MAX(id), 1)): the next value is one more; a value
\* below 1, the lower limit of a sequence, is an error.
SetVal(t) ==
    /\ at = "setval" /\ t \in todo
    /\ Highest(t) >= 1
    /\ nextId' = [nextId EXCEPT ![t] = Highest(t) + 1]
    /\ todo' = todo \ {t}
    /\ UNCHANGED <<at, appUsers, statement, queries, checked, before, tables, ids,
                   given, creator, born, aclVars>>

SequencesSet ==
    /\ at = "setval" /\ todo = {}
    /\ at' = "grant"
    /\ UNCHANGED <<appUsers, todo, statement, queries, checked, before, tableVars, aclVars>>

\* The statements for one user, in this order.
Statements == <<"usage", "create", "tables", "connect", "functions", "sequences",
                "defaultTables", "defaultFunctions", "defaultSequences">>

\* statement counts through the statements of all users.
GrantStatement == Statements[((statement - 1) % Len(Statements)) + 1]
GrantUser      == appUsers[((statement - 1) \div Len(Statements)) + 1]
AllGranted     == statement > Len(appUsers) * Len(Statements)

\* MUTANT of CreatorOfDefaults: FOR ROLE is left out for everybody.
CreatorIsImporter(u) == Importer

\* Whose objects the default privileges of u are about: without FOR ROLE those
\* of the role that is connected.
CreatorOfDefaults(u) == IF u = AppOwner THEN Importer ELSE AppOwner

\* "on all tables" and "on all sequences": those there are.
Granted(acl, u) == [t \in AllTables |-> IF t \in tables THEN acl[t] \cup {u} ELSE acl[t]]

\* One statement.  Rights on the schema and to connect are kept as one, and
\* those on functions, and to create, are not followed.
Grant ==
    /\ at = "grant" /\ ~AllGranted
    /\ statement' = statement + 1
    /\ LET u == GrantUser
           s == GrantStatement
           c == CreatorOfDefaults(u)
       IN  /\ schemaUsers' = IF s = "connect" THEN schemaUsers \cup {u} ELSE schemaUsers
           /\ readers' = IF s = "tables" THEN Granted(readers, u) ELSE readers
           /\ drawers' = IF s = "sequences" THEN Granted(drawers, u) ELSE drawers
           /\ tableDefault' = IF s = "defaultTables"
                              THEN tableDefault \cup {<<c, u>>} ELSE tableDefault
           /\ seqDefault' = IF s = "defaultSequences"
                            THEN seqDefault \cup {<<c, u>>} ELSE seqDefault
    /\ UNCHANGED <<at, appUsers, todo, queries, checked, before, tableVars>>

GrantsEnd ==
    /\ at = "grant" /\ AllGranted
    /\ at' = "sql"
    /\ UNCHANGED <<appUsers, todo, statement, queries, checked, before, tableVars, aclVars>>

\* A post-import query gives a row an id of its own choice.
InsertRowWithId(t, i) ==
    /\ ids' = [ids EXCEPT ![t] = @ \cup {i}]
    /\ given' = [given EXCEPT ![t] = @ \cup {i}]
    /\ UNCHANGED <<tables, nextId, creator, born, aclVars>>

DeleteRows(t, gone) ==
    /\ ids' = [ids EXCEPT ![t] = @ \ gone]
    /\ UNCHANGED <<tables, given, nextId, creator, born, aclVars>>

\* One post-import query: it inserts or deletes rows, or creates a table, or does
\* what is not followed here.  Each is committed by itself.
PostImportSql ==
    /\ at = "sql" /\ queries < MaxSql
    /\ queries' = queries + 1
    /\ \/ \E t \in tables : InsertRow(t)
       \/ \E t \in tables : \E i \in Ids \ ids[t] : InsertRowWithId(t, i)
       \/ \E t \in tables : \E gone \in SUBSET ids[t] : DeleteRows(t, gone)
       \/ \E t \in Later : Create(t, Importer)
       \/ UNCHANGED <<tableVars, aclVars>>
    /\ UNCHANGED <<at, appUsers, todo, statement, checked, before>>

\* Disabled, none configured, or all executed.  The validations are loaded; a
\* missing file is none.
SqlExecuted ==
    /\ at = "sql"
    /\ at' = "validate" /\ before' = ids
    /\ UNCHANGED <<appUsers, todo, statement, queries, checked, tableVars, aclVars>>

-----------------------------------------------------------------------------
(* ResultValidator *)

\* MUTANT of Passes: one row that has the value is enough.
PassesAny(c, rows) == rows = {} \/ rows \cap c.good # {}

Passes(c, rows) == rows \subseteq c.good

\* One query, and every row it returned has the value: no row will do.
Check(c) ==
    /\ at = "validate" /\ c \in Checks \ checked
    /\ Passes(c, ids[c.table] \cap c.where)
    /\ checked' = checked \cup {c}
    /\ UNCHANGED <<at, appUsers, todo, statement, queries, before, tableVars, aclVars>>

\* Skipped, or through.
Validated ==
    /\ at = "validate"
    /\ checked = {} \/ checked = Checks
    /\ at' = "done"
    /\ UNCHANGED <<appUsers, todo, statement, queries, checked, before, tableVars, aclVars>>

\* A statement or a query fails, SETVAL of a value below 1 or a row of another
\* value among them, or a kill.
Panics ==
    /\ at \notin {"done", "panicked"}
    /\ at' = "panicked"
    /\ UNCHANGED <<appUsers, todo, statement, queries, checked, before, tableVars, aclVars>>

-----------------------------------------------------------------------------
Others ==
    \/ \E t \in Later : OwnerCreates(t)
    \/ \E u \in Users, t \in AllTables : UserInserts(u, t)

Run ==
    \/ \E t \in Restored : SetVal(t)
    \/ SequencesSet \/ Grant \/ GrantsEnd \/ PostImportSql \/ SqlExecuted
    \/ \E c \in Checks : Check(c)
    \/ Validated \/ Panics

Over == at \in {"done", "panicked"} /\ UNCHANGED vars

Next == Run \/ Others \/ Over

Spec == Init /\ [][Next]_vars

-----------------------------------------------------------------------------
Roles == Users \cup {AppOwner, Importer}

TypeOK ==
    /\ at \in {"setval", "grant", "sql", "validate", "done", "panicked"}
    /\ appUsers \in Seq(Users) /\ todo \subseteq Restored
    /\ statement \in 1..(Len(appUsers) * Len(Statements) + 1)
    /\ queries \in 0..MaxSql /\ checked \subseteq Checks
    /\ before \in [AllTables -> SUBSET Ids]
    /\ tables \subseteq AllTables /\ Restored \subseteq tables
    /\ ids \in [AllTables -> SUBSET Ids] /\ given \in [AllTables -> SUBSET Ids]
    /\ nextId \in [AllTables -> 1..(MaxId + 1)]
    /\ creator \in [AllTables -> Roles] /\ born \in [AllTables -> Nat]
    /\ schemaUsers \subseteq Roles
    /\ readers \in [AllTables -> SUBSET Roles] /\ drawers \in [AllTables -> SUBSET Roles]
    /\ tableDefault \subseteq Roles \X Roles /\ seqDefault \subseteq Roles \X Roles

Finalized == at \in {"sql", "validate", "done"}

\* Once a table's sequence is set it stays ahead of every row, loaded with
\* whatever ids or drawn later, so nobody draws an id that is taken: but for the
\* ids a post-import query chose itself, which come after the SETVALs.
SequencesAhead ==
    \A t \in (Restored \ todo) \cup Later :
       \A i \in ids[t] : i < nextId[t] \/ i \in given[t]

\* Whether t was created between two statements that grant u all there is and
\* all that is to come, the a-th and the b-th of its statements.
Between(t, u, a, b) ==
    \E k \in DOMAIN appUsers :
       appUsers[k] = u /\ (k - 1) * Len(Statements) + a < born[t]
                       /\ born[t] <= (k - 1) * Len(Statements) + b

\* "so that when app_owner creates new objects, this user gets permissions":
\* once finalized, every user reaches every table of the owner, those it
\* creates while users are being let in or afterwards included, except the ones
\* it creates just between the two grants of that user.
UsersReachAll ==
    Finalized =>
       \A t \in tables, u \in Users :
          creator[t] = AppOwner =>
             /\ u \in schemaUsers
             /\ u \in readers[t] \/ Between(t, u, 3, 7)
             /\ u \in drawers[t] \/ Between(t, u, 6, 9)

\* A run that validates and ends well leaves no row that was there when the
\* validations began, is selected by one of them and has another value, whatever
\* is inserted while they run: one bad row of one validation ends the run.
DoneMeansValid ==
    at = "done" /\ checked # {} =>
       \A c \in Checks : before[c.table] \cap c.where \subseteq c.good
=============================================================================
