-------------------------- MODULE FinalizationProofs --------------------------
(***************************************************************************)
(* The end of a run, for any users, tables, ids and validations: the       *)
(* sequences, the validations and the privileges.                          *)
(***************************************************************************)
EXTENDS Finalization, FiniteSetTheorems, WellFoundedInduction, TLAPS

\* A set of ids that is not empty has a greatest one.
LEMMA HighestId ==
    ASSUME NEW S \in SUBSET Ids, S # {}
    PROVE  Max(S) \in S /\ \A i \in S : i <= Max(S)
<1> DEFINE D == {n \in Nat : MaxId - n \in S}
<1>1. \A i \in S : i \in Int /\ MaxId - i \in D
  BY IdAssumption DEF Ids
<1>2. D \subseteq Nat /\ D # {}
  BY <1>1
<1>3. PICK d \in D : \A e \in D : <<e, d>> \notin OpToRel(<, Nat)
  <2> HIDE DEF D
  <2> QED BY <1>2, WFMin, NatLessThanWellFounded
<1>4. d \in Nat /\ MaxId - d \in S
  OBVIOUS
<1>5. \A e \in D : e \in Nat /\ ~(e < d)
  BY <1>2, <1>3 DEF OpToRel
<1>6. \A i \in S : MaxId - d >= i
  <2> SUFFICES ASSUME NEW i \in S PROVE MaxId - d >= i
    OBVIOUS
  <2>1. i \in Int /\ ~(MaxId - i < d)
    BY <1>1, <1>5
  <2> QED BY <1>4, <2>1, IdAssumption
<1>7. \E m \in S : \A i \in S : m >= i
  BY <1>4, <1>6
<1>8. Max(S) \in S /\ \A i \in S : Max(S) >= i
  BY <1>7 DEF Max
<1> QED BY <1>8, <1>1

-----------------------------------------------------------------------------
(* Types. *)

LEMMA HighestType ==
    ASSUME TypeOK, NEW t \in AllTables
    PROVE  Highest(t) \in Int /\ Highest(t) <= MaxId /\ \A i \in ids[t] : i <= Highest(t)
<1>1. ids[t] \in SUBSET Ids
  BY DEF TypeOK
<1>2. CASE ids[t] = {}
  BY <1>2, IdAssumption DEF Highest
<1>3. CASE ids[t] # {}
  <2>1. Max(ids[t]) \in ids[t] /\ \A i \in ids[t] : i <= Max(ids[t])
    BY <1>1, <1>3, HighestId
  <2> QED BY <1>1, <1>3, <2>1, IdAssumption DEF Highest, Ids
<1> QED BY <1>2, <1>3

LEMMA InitTypeOK == Init => TypeOK
<1> SUFFICES ASSUME Init PROVE TypeOK
  OBVIOUS
<1>1. Cardinality(Users) \in Nat
  BY UsersAssumption, FS_CardinalityType
<1>2. appUsers \in Seq(Users) /\ Len(appUsers) \in Nat
  BY <1>1 DEF Init
<1>3. statement \in 1..(Len(appUsers) * Len(Statements) + 1)
  BY <1>2 DEF Init, Statements
<1> QED
  BY <1>2, <1>3, IdAssumption, UsersAssumption
  DEF Init, TypeOK, AllTables, Roles, Statements

\* What creating a table and inserting rows do to the database.
LEMMA CreateType ==
    ASSUME TypeOK, NEW t \in Later, NEW role \in Roles, Create(t, role)
    PROVE  /\ tables' \subseteq AllTables /\ Restored \subseteq tables'
           /\ UNCHANGED <<ids, given, nextId, schemaUsers, tableDefault, seqDefault>>
           /\ creator' \in [AllTables -> Roles] /\ born' \in [AllTables -> Nat]
           /\ readers' \in [AllTables -> SUBSET Roles]
           /\ drawers' \in [AllTables -> SUBSET Roles]
<1>1. statement \in Nat
  BY DEF TypeOK
<1> QED BY <1>1 DEF TypeOK, Create, AllTables, Grantees, Roles

LEMMA InsertRowType ==
    ASSUME TypeOK, NEW t \in AllTables, InsertRow(t)
    PROVE  /\ ids' \in [AllTables -> SUBSET Ids]
           /\ nextId' \in [AllTables -> 1..(MaxId + 1)]
           /\ UNCHANGED <<tables, given, creator, born, aclVars>>
<1>1. nextId[t] \in Ids /\ nextId[t] + 1 \in 1..(MaxId + 1)
  BY IdAssumption DEF TypeOK, InsertRow, Ids
<1> QED BY <1>1 DEF TypeOK, InsertRow

LEMMA NextTypeOK == TypeOK /\ [Next]_vars => TypeOK'
<1> SUFFICES ASSUME TypeOK, [Next]_vars PROVE TypeOK'
  OBVIOUS
<1> USE DEF runVars, tableVars, aclVars
<1>1. ASSUME NEW t \in Later, OwnerCreates(t) PROVE TypeOK'
  <2>1. AppOwner \in Roles /\ Create(t, AppOwner)
    BY <1>1 DEF OwnerCreates, Roles
  <2> QED BY <1>1, <2>1, CreateType DEF TypeOK, OwnerCreates
<1>2. ASSUME NEW u \in Users, NEW t \in AllTables, UserInserts(u, t) PROVE TypeOK'
  <2>1. InsertRow(t)
    BY <1>2 DEF UserInserts
  <2> QED BY <1>2, <2>1, InsertRowType DEF TypeOK, UserInserts
<1>3. ASSUME NEW t \in Restored, SetVal(t) PROVE TypeOK'
  <2>1. Highest(t) + 1 \in 1..(MaxId + 1)
    BY <1>3, HighestType, IdAssumption DEF SetVal, AllTables
  <2> QED BY <1>3, <2>1 DEF TypeOK, SetVal
<1>4. CASE SequencesSet
  BY <1>4 DEF TypeOK, SequencesSet
<1>5. CASE Grant
  <2>1. Len(appUsers) \in Nat /\ Len(Statements) = 9 /\ statement \in Nat /\ statement >= 1
    BY DEF TypeOK, Statements
  <2>2. statement <= Len(appUsers) * 9
    BY <1>5, <2>1 DEF Grant, AllGranted
  <2>3. statement' = statement + 1 /\ statement' \in 1..(Len(appUsers) * 9 + 1)
    BY <1>5, <2>1, <2>2 DEF Grant
  <2>4. GrantUser \in Users
    <3>1. ((statement - 1) \div 9) + 1 \in 1..Len(appUsers)
      BY <2>1, <2>2
    <3> QED BY <2>1, <3>1 DEF TypeOK, GrantUser
  <2>5. GrantUser \in Roles /\ CreatorOfDefaults(GrantUser) \in Roles
    BY <2>4 DEF Roles, CreatorOfDefaults
  <2>6. /\ schemaUsers' \subseteq Roles
        /\ tableDefault' \subseteq Roles \X Roles /\ seqDefault' \subseteq Roles \X Roles
    BY <1>5, <2>5 DEF TypeOK, Grant
  <2>7. /\ readers' \in [AllTables -> SUBSET Roles]
        /\ drawers' \in [AllTables -> SUBSET Roles]
    BY <1>5, <2>5 DEF TypeOK, Grant, Granted
  <2> QED BY <1>5, <2>1, <2>3, <2>6, <2>7 DEF TypeOK, Grant
<1>6. CASE GrantsEnd
  BY <1>6 DEF TypeOK, GrantsEnd
<1>7. CASE PostImportSql
  <2>1. queries' \in 0..MaxSql /\ UNCHANGED <<at, appUsers, todo, statement, checked, before>>
    BY <1>7, UsersAssumption DEF PostImportSql, TypeOK
  <2>2. CASE \E t \in tables : InsertRow(t)
    BY <2>1, <2>2, InsertRowType DEF TypeOK
  <2>3. CASE \E t \in tables : \E i \in Ids \ ids[t] : InsertRowWithId(t, i)
    BY <2>1, <2>3 DEF TypeOK, InsertRowWithId
  <2>4. CASE \E t \in tables : \E gone \in SUBSET ids[t] : DeleteRows(t, gone)
    BY <2>1, <2>4 DEF TypeOK, DeleteRows
  <2>5. CASE \E t \in Later : Create(t, Importer)
    <3>1. Importer \in Roles
      BY DEF Roles
    <3> QED BY <2>1, <2>5, <3>1, CreateType DEF TypeOK
  <2>6. CASE UNCHANGED <<tableVars, aclVars>>
    BY <2>1, <2>6 DEF TypeOK
  <2> QED BY <1>7, <2>2, <2>3, <2>4, <2>5, <2>6 DEF PostImportSql
<1>8. CASE SqlExecuted
  BY <1>8 DEF TypeOK, SqlExecuted
<1>9. ASSUME NEW c \in Checks, Check(c) PROVE TypeOK'
  BY <1>9 DEF TypeOK, Check
<1>10. CASE Validated
  BY <1>10 DEF TypeOK, Validated
<1>11. CASE Panics
  BY <1>11 DEF TypeOK, Panics
<1>12. CASE UNCHANGED vars
  BY <1>12 DEF TypeOK, vars
<1> QED
  BY <1>1, <1>2, <1>3, <1>4, <1>5, <1>6, <1>7, <1>8, <1>9, <1>10, <1>11, <1>12
  DEF Next, Run, Others, Over

\* The state at the end of a run is well formed.
THEOREM FinalizationTypeCorrect == Spec => []TypeOK
<1>1. TypeOK /\ [Next]_vars => TypeOK'
  BY NextTypeOK
<1> QED BY <1>1, InitTypeOK, PTL DEF Spec

-----------------------------------------------------------------------------
(* Sequences. *)

\* A row whose id is drawn from its sequence is behind it, and so are the others.
LEMMA InsertRowAhead ==
    ASSUME TypeOK, SequencesAhead, NEW t \in AllTables, InsertRow(t), UNCHANGED todo
    PROVE  SequencesAhead'
BY IdAssumption DEF TypeOK, SequencesAhead, InsertRow, AllTables, Ids, aclVars

LEMMA NextSequencesAhead == TypeOK /\ SequencesAhead /\ [Next]_vars => SequencesAhead'
<1> SUFFICES ASSUME TypeOK, SequencesAhead, [Next]_vars PROVE SequencesAhead'
  OBVIOUS
<1> USE DEF runVars, tableVars, aclVars
<1>1. ASSUME NEW t \in Later, OwnerCreates(t) PROVE SequencesAhead'
  BY <1>1 DEF SequencesAhead, OwnerCreates, Create
<1>2. ASSUME NEW u \in Users, NEW t \in AllTables, UserInserts(u, t) PROVE SequencesAhead'
  BY <1>2, InsertRowAhead DEF UserInserts
<1>3. ASSUME NEW t \in Restored, SetVal(t) PROVE SequencesAhead'
  <2>1. \A i \in ids[t] : i \in Int /\ i < Highest(t) + 1
    <3>1. t \in AllTables /\ ids[t] \subseteq Ids
      BY DEF TypeOK, AllTables
    <3> QED BY <3>1, HighestType, IdAssumption DEF Ids
  <2>2. /\ nextId' = [nextId EXCEPT ![t] = Highest(t) + 1]
        /\ todo' = todo \ {t} /\ ids' = ids /\ given' = given
    BY <1>3 DEF SetVal
  <2>3. nextId'[t] = Highest(t) + 1 /\ \A s \in AllTables \ {t} : nextId'[s] = nextId[s]
    BY <2>2 DEF TypeOK, AllTables
  <2> QED BY <2>1, <2>2, <2>3 DEF SequencesAhead, AllTables
<1>4. CASE PostImportSql
  <2>1. UNCHANGED todo /\ tables \subseteq AllTables
    BY <1>4 DEF PostImportSql, TypeOK
  <2>2. CASE \E t \in tables : InsertRow(t)
    BY <2>1, <2>2, InsertRowAhead
  <2>3. CASE \E t \in tables : \E i \in Ids \ ids[t] : InsertRowWithId(t, i)
    BY <2>1, <2>3 DEF TypeOK, SequencesAhead, InsertRowWithId, AllTables
  <2>4. CASE \E t \in tables : \E gone \in SUBSET ids[t] : DeleteRows(t, gone)
    BY <2>1, <2>4 DEF TypeOK, SequencesAhead, DeleteRows, AllTables
  <2>5. CASE \E t \in Later : Create(t, Importer)
    BY <2>1, <2>5 DEF SequencesAhead, Create
  <2>6. CASE UNCHANGED <<tableVars, aclVars>>
    BY <2>1, <2>6 DEF SequencesAhead
  <2> QED BY <1>4, <2>2, <2>3, <2>4, <2>5, <2>6 DEF PostImportSql
<1>5. UNCHANGED <<todo, ids, given, nextId>> => SequencesAhead'
  BY DEF SequencesAhead
<1> QED
  BY <1>1, <1>2, <1>3, <1>4, <1>5
  DEF Next, Run, Others, Over, SequencesSet, Grant, GrantsEnd, SqlExecuted, Check, Validated,
      Panics, vars

\* Nobody draws an id that is taken, whatever ids were loaded and whatever is
\* inserted and deleted afterwards.
THEOREM SequencesAheadCorrect == Spec => []SequencesAhead
<1>1. Init => TypeOK /\ SequencesAhead
  <2>1. Init => SequencesAhead
    BY TableAssumption DEF Init, SequencesAhead, AllTables
  <2> QED BY <2>1, InitTypeOK
<1>2. TypeOK /\ SequencesAhead /\ [Next]_vars => (TypeOK /\ SequencesAhead)'
  BY NextTypeOK, NextSequencesAhead
<1> QED BY <1>1, <1>2, PTL DEF Spec

-----------------------------------------------------------------------------
(* Validations. *)

\* While validations run no row that was there goes away, and those that have
\* passed have been through with the rows there were.
InvChecked ==
    /\ at \in {"setval", "grant", "sql"} => checked = {}
    /\ at = "validate" => \A t \in AllTables : before[t] \subseteq ids[t]
    /\ at \in {"validate", "done"} =>
          \A c \in checked : before[c.table] \cap c.where \subseteq c.good
    /\ at = "done" => checked = {} \/ checked = Checks

LEMMA NextInvChecked == TypeOK /\ InvChecked /\ [Next]_vars => InvChecked'
<1> SUFFICES ASSUME TypeOK, InvChecked, [Next]_vars PROVE InvChecked'
  OBVIOUS
<1> USE DEF runVars, tableVars, aclVars
<1>1. ASSUME NEW t \in Later, OwnerCreates(t) PROVE InvChecked'
  BY <1>1 DEF InvChecked, OwnerCreates, Create
<1>2. ASSUME NEW u \in Users, NEW t \in AllTables, UserInserts(u, t) PROVE InvChecked'
  <2>1. \A s \in AllTables : ids[s] \subseteq ids'[s]
    BY <1>2 DEF UserInserts, InsertRow, TypeOK
  <2> QED BY <1>2, <2>1 DEF InvChecked, UserInserts
<1>3. ASSUME NEW t \in Restored, SetVal(t) PROVE InvChecked'
  BY <1>3 DEF InvChecked, SetVal
<1>4. CASE PostImportSql
  BY <1>4 DEF InvChecked, PostImportSql
<1>5. CASE SqlExecuted
  BY <1>5 DEF InvChecked, SqlExecuted
<1>6. ASSUME NEW c \in Checks, Check(c) PROVE InvChecked'
  <2>1. c.table \in AllTables
    BY TableAssumption
  <2>2. before[c.table] \cap c.where \subseteq c.good
    BY <1>6, <2>1 DEF InvChecked, Check, Passes
  <2> QED BY <1>6, <2>2 DEF InvChecked, Check
<1>7. CASE SequencesSet \/ Grant \/ GrantsEnd \/ Validated \/ Panics
  BY <1>7 DEF InvChecked, SequencesSet, Grant, GrantsEnd, Validated, Panics
<1>8. CASE UNCHANGED vars
  BY <1>8 DEF InvChecked, vars
<1> QED
  BY <1>1, <1>2, <1>3, <1>4, <1>5, <1>6, <1>7, <1>8 DEF Next, Run, Others, Over

\* For any validations over any rows, inserted while they run or before: a run
\* that ends well and did not skip them has left none of the rows it began with
\* that has another value than was asked for.
THEOREM DoneMeansValidCorrect == Spec => []DoneMeansValid
<1>1. Init => TypeOK /\ InvChecked
  <2>1. Init => InvChecked
    BY DEF Init, InvChecked
  <2> QED BY <2>1, InitTypeOK
<1>2. TypeOK /\ InvChecked /\ [Next]_vars => (TypeOK /\ InvChecked)'
  BY NextTypeOK, NextInvChecked
<1>3. InvChecked => DoneMeansValid
  BY DEF InvChecked, DoneMeansValid
<1> QED BY <1>1, <1>2, <1>3, PTL DEF Spec

-----------------------------------------------------------------------------
(* Privileges. *)

\* How many statements are before those for the k-th user.
Before(k) == (k - 1) * 9

\* What the k-th user has once the statement that gives it has been executed.
HasGrants(k) ==
    LET u == appUsers[k]
    IN  /\ statement > Before(k) + 4 => u \in schemaUsers
        /\ statement > Before(k) + 7 /\ u # AppOwner => <<AppOwner, u>> \in tableDefault
        /\ statement > Before(k) + 9 /\ u # AppOwner => <<AppOwner, u>> \in seqDefault

\* The tables of the owner the k-th user reaches: those there were at the grant
\* on all tables, and those created under its default privileges.
Reaches(k, t) ==
    /\ statement > Before(k) + 3 /\ ~(born[t] > Before(k) + 3 /\ born[t] <= Before(k) + 7)
          => appUsers[k] \in readers[t]
    /\ statement > Before(k) + 6 /\ ~(born[t] > Before(k) + 6 /\ born[t] <= Before(k) + 9)
          => appUsers[k] \in drawers[t]

InvGranted ==
    /\ \A u \in Users : \E k \in DOMAIN appUsers : appUsers[k] = u
    /\ \A t \in tables : born[t] <= statement
    /\ at \in {"sql", "validate", "done"} => AllGranted
    /\ \A k \in DOMAIN appUsers : HasGrants(k)
    /\ \A k \in DOMAIN appUsers, t \in tables : creator[t] = AppOwner => Reaches(k, t)

LEMMA DivideByNine ==
    ASSUME NEW m \in Nat, NEW n \in 0..8, NEW x \in Int, x = 9 * m + n
    PROVE  x \div 9 = m /\ x % 9 = n
OBVIOUS

\* The n-th statement of the k-th user is the one that is expected there.
LEMMA GrantAt ==
    ASSUME TypeOK, NEW k \in DOMAIN appUsers, NEW n \in 1..9, statement = Before(k) + n
    PROVE  GrantUser = appUsers[k] /\ GrantStatement = Statements[n]
<1>1. k \in Nat /\ k >= 1 /\ Len(Statements) = 9
  BY DEF TypeOK, Statements
<1>2. statement - 1 = 9 * (k - 1) + (n - 1)
  BY <1>1 DEF Before
<1>3. (statement - 1) \div 9 = k - 1 /\ (statement - 1) % 9 = n - 1
  <2>1. k - 1 \in Nat /\ n - 1 \in 0..8 /\ statement - 1 \in Int
    BY <1>1 DEF TypeOK
  <2> QED BY <1>2, <2>1, DivideByNine
<1> QED BY <1>1, <1>3 DEF GrantUser, GrantStatement

\* A table that is created is reached by those whose default privileges are set.
LEMMA CreateGranted ==
    ASSUME TypeOK, InvGranted, NEW t \in Later, NEW role, Create(t, role),
           UNCHANGED <<at, appUsers, statement>>
    PROVE  InvGranted'
<1> USE DEF aclVars
<1>1. /\ tables' = tables \cup {t} /\ t \in AllTables /\ t \notin tables
      /\ creator' = [creator EXCEPT ![t] = role]
      /\ born' = [born EXCEPT ![t] = statement]
      /\ readers' = [readers EXCEPT ![t] = Grantees(tableDefault, role)]
      /\ drawers' = [drawers EXCEPT ![t] = Grantees(seqDefault, role)]
      /\ UNCHANGED <<schemaUsers, tableDefault, seqDefault>>
  BY DEF Create, AllTables
<1>2. /\ creator'[t] = role /\ born'[t] = statement
      /\ readers'[t] = Grantees(tableDefault, role) /\ drawers'[t] = Grantees(seqDefault, role)
  BY <1>1 DEF TypeOK
<1>3. \A s \in tables : /\ creator'[s] = creator[s] /\ born'[s] = born[s]
                        /\ readers'[s] = readers[s] /\ drawers'[s] = drawers[s]
  BY <1>1 DEF TypeOK
<1>4. statement \in Nat /\ \A k \in DOMAIN appUsers : Before(k) \in Int /\ appUsers[k] \in Users
  BY DEF TypeOK, Before
<1>5. (\A k \in DOMAIN appUsers : HasGrants(k))'
  BY <1>1 DEF InvGranted, HasGrants, Before
<1>6. ASSUME NEW k \in DOMAIN appUsers, role = AppOwner PROVE Reaches(k, t)'
  <2>1. HasGrants(k) /\ appUsers[k] \in Users
    BY <1>4 DEF InvGranted
  <2>2. statement > Before(k) + 7 => appUsers[k] \in Grantees(tableDefault, AppOwner)
    BY <2>1 DEF HasGrants, Grantees
  <2>3. statement > Before(k) + 9 => appUsers[k] \in Grantees(seqDefault, AppOwner)
    BY <2>1 DEF HasGrants, Grantees
  <2> QED BY <1>2, <1>4, <1>6, <2>2, <2>3 DEF Reaches, Before
<1>7. ASSUME NEW k \in DOMAIN appUsers, NEW s \in tables, creator[s] = AppOwner
      PROVE  Reaches(k, s)'
  BY <1>3, <1>7 DEF InvGranted, Reaches, Before
<1> QED BY <1>1, <1>2, <1>3, <1>4, <1>5, <1>6, <1>7 DEF InvGranted, AllGranted

\* One statement gives its user what HasGrants and Reaches say of it.
LEMMA GrantGranted ==
    ASSUME TypeOK, InvGranted, Grant
    PROVE  InvGranted'
<1> USE DEF tableVars
<1>1. /\ at = "grant" /\ statement' = statement + 1 /\ statement \in Nat
      /\ UNCHANGED <<at, appUsers, tables, creator, born>>
  BY DEF Grant, TypeOK
<1>2. /\ schemaUsers \subseteq schemaUsers'
      /\ tableDefault \subseteq tableDefault' /\ seqDefault \subseteq seqDefault'
  BY DEF Grant
<1>3. \A t \in tables : readers[t] \subseteq readers'[t] /\ drawers[t] \subseteq drawers'[t]
  BY DEF Grant, Granted, TypeOK
<1>4. \A k \in DOMAIN appUsers : Before(k) \in Nat
  BY DEF TypeOK, Before
<1>5. ASSUME NEW k \in DOMAIN appUsers PROVE HasGrants(k)'
  <2>1. statement = Before(k) + 4 => appUsers[k] \in schemaUsers'
    BY GrantAt DEF Grant, Statements
  <2>2. statement = Before(k) + 7 /\ appUsers[k] # AppOwner
           => <<AppOwner, appUsers[k]>> \in tableDefault'
    BY GrantAt DEF Grant, Statements, CreatorOfDefaults
  <2>3. statement = Before(k) + 9 /\ appUsers[k] # AppOwner
           => <<AppOwner, appUsers[k]>> \in seqDefault'
    BY GrantAt DEF Grant, Statements, CreatorOfDefaults
  <2>4. HasGrants(k)
    BY DEF InvGranted
  <2> QED BY <1>1, <1>2, <1>4, <2>1, <2>2, <2>3, <2>4 DEF HasGrants, Before
<1>6. ASSUME NEW k \in DOMAIN appUsers, NEW t \in tables, creator[t] = AppOwner
      PROVE  Reaches(k, t)'
  <2>1. Reaches(k, t) /\ t \in AllTables
    BY <1>6 DEF InvGranted, TypeOK
  <2>2. statement = Before(k) + 3 => appUsers[k] \in readers'[t]
    BY <2>1, GrantAt DEF Grant, Statements, Granted
  <2>3. statement = Before(k) + 6 => appUsers[k] \in drawers'[t]
    BY <2>1, GrantAt DEF Grant, Statements, Granted
  <2> QED BY <1>1, <1>3, <1>4, <2>1, <2>2, <2>3 DEF Reaches, Before, TypeOK
<1>7. \A t \in tables : born[t] \in Nat
  BY DEF TypeOK
<1> QED BY <1>1, <1>5, <1>6, <1>7 DEF InvGranted

LEMMA NextInvGranted == TypeOK /\ InvGranted /\ [Next]_vars => InvGranted'
<1> SUFFICES ASSUME TypeOK, InvGranted, [Next]_vars PROVE InvGranted'
  OBVIOUS
<1> USE DEF runVars, tableVars, aclVars
<1>1. ASSUME UNCHANGED <<appUsers, statement, tables, creator, born, aclVars>>,
             at' \in {"setval", "grant", "panicked"} \/ at' = at
                \/ at \in {"sql", "validate"} \/ AllGranted
      PROVE  InvGranted'
  BY <1>1 DEF InvGranted, HasGrants, Reaches, Before, AllGranted
<1>2. ASSUME NEW t \in Later, OwnerCreates(t) PROVE InvGranted'
  BY <1>2, CreateGranted DEF OwnerCreates
<1>3. CASE Grant
  BY <1>3, GrantGranted
<1>4. ASSUME NEW t \in Later, Create(t, Importer), UNCHANGED <<at, appUsers, statement>>
      PROVE  InvGranted'
  BY <1>4, CreateGranted
<1>5. CASE PostImportSql
  BY <1>1, <1>4, <1>5 DEF PostImportSql, InsertRow, InsertRowWithId, DeleteRows
<1>6. ASSUME NEW u \in Users, NEW t \in AllTables, UserInserts(u, t) PROVE InvGranted'
  BY <1>1, <1>6 DEF UserInserts, InsertRow
<1>7. ASSUME NEW t \in Restored, SetVal(t) PROVE InvGranted'
  BY <1>1, <1>7 DEF SetVal
<1>8. CASE SequencesSet
  BY <1>1, <1>8 DEF SequencesSet
<1>9. CASE GrantsEnd
  BY <1>1, <1>9 DEF GrantsEnd
<1>10. CASE SqlExecuted
  BY <1>1, <1>10 DEF SqlExecuted
<1>11. ASSUME NEW c \in Checks, Check(c) PROVE InvGranted'
  BY <1>1, <1>11 DEF Check
<1>12. CASE Validated
  BY <1>1, <1>12 DEF Validated
<1>13. CASE Panics
  BY <1>1, <1>13 DEF Panics
<1>14. CASE UNCHANGED vars
  BY <1>1, <1>14 DEF vars
<1> QED
  BY <1>2, <1>3, <1>5, <1>6, <1>7, <1>8, <1>9, <1>10, <1>11, <1>12, <1>13, <1>14
  DEF Next, Run, Others, Over

LEMMA InitInvGranted == Init => InvGranted
<1> SUFFICES ASSUME Init PROVE InvGranted
  OBVIOUS
<1>1. TypeOK
  BY InitTypeOK
<1>2. \A k \in DOMAIN appUsers : Before(k) \in Nat
  BY <1>1 DEF TypeOK, Before
<1>3. statement = 1 /\ at = "setval" /\ \A t \in tables : born[t] = 0
  BY DEF Init, AllTables
<1> QED BY <1>2, <1>3 DEF Init, InvGranted, HasGrants, Reaches

LEMMA GrantedMeansReached == TypeOK /\ InvGranted => UsersReachAll
<1> SUFFICES ASSUME TypeOK, InvGranted, Finalized, NEW t \in tables, NEW u \in Users,
                    creator[t] = AppOwner
             PROVE  /\ u \in schemaUsers
                    /\ u \in readers[t] \/ Between(t, u, 3, 7)
                    /\ u \in drawers[t] \/ Between(t, u, 6, 9)
  BY DEF UsersReachAll
<1>1. PICK k \in DOMAIN appUsers : appUsers[k] = u
  BY DEF InvGranted
<1>2. k \in 1..Len(appUsers) /\ Len(appUsers) \in Nat /\ Len(Statements) = 9
  BY DEF TypeOK, Statements
<1>3. statement > Len(appUsers) * 9 /\ statement \in Nat
  BY <1>2 DEF InvGranted, Finalized, AllGranted, TypeOK
<1>4. statement > Before(k) + 9 /\ Before(k) \in Nat
  BY <1>2, <1>3 DEF Before
<1>5. HasGrants(k) /\ Reaches(k, t)
  BY DEF InvGranted
<1>6. u \in schemaUsers
  BY <1>1, <1>3, <1>4, <1>5 DEF HasGrants
<1>7. u \in readers[t] \/ Between(t, u, 3, 7)
  <2>1. u \in readers[t] \/ (born[t] > Before(k) + 3 /\ born[t] <= Before(k) + 7)
    BY <1>1, <1>3, <1>4, <1>5 DEF Reaches
  <2> QED BY <1>1, <1>2, <2>1 DEF Between, Before, TypeOK
<1>8. u \in drawers[t] \/ Between(t, u, 6, 9)
  <2>1. u \in drawers[t] \/ (born[t] > Before(k) + 6 /\ born[t] <= Before(k) + 9)
    BY <1>1, <1>3, <1>4, <1>5 DEF Reaches
  <2> QED BY <1>1, <1>2, <2>1 DEF Between, Before, TypeOK
<1> QED BY <1>6, <1>7, <1>8

\* For any users in any order, and any tables created at any moment of a run by
\* the owner: once users are let in they reach all of them but those created
\* between the two grants.
THEOREM UsersReachAllCorrect == Spec => []UsersReachAll
<1>1. Init => TypeOK /\ InvGranted
  BY InitTypeOK, InitInvGranted
<1>2. TypeOK /\ InvGranted /\ [Next]_vars => (TypeOK /\ InvGranted)'
  BY NextTypeOK, NextInvGranted
<1> QED BY <1>1, <1>2, GrantedMeansReached, PTL DEF Spec

=============================================================================
