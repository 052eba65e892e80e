---------------------------- MODULE Anonymization ----------------------------
(***************************************************************************)
(* What the anonymization does to a dataframe: null byte sanitization, row *)
(* limit, filters, and the chain of transformators a table configures, run *)
(* over one seeded random generator.                                       *)
(*                                                                         *)
(* A cell tells where it comes from: <<"source", v>> is an original, and   *)
(* <<"name", r, v>> the fake that the generator in state r makes of v.     *)
(* That a fake may by chance read like an original is left out.            *)
(* The state of the generator is the history of what was drawn from it.    *)
(***************************************************************************)
EXTENDS Selection, SequencesExt

CONSTANTS
    Originals, \* the cells a file may hold
    Null,      \* the null cell
    Blank,     \* the empty string
    Short,     \* strings of at most one byte
    Digits,    \* longer strings with a digit
    WideEnds,  \* longer strings that begin or end with a multi-byte character
    NulBytes   \* originals with an embedded null byte

CONSTANTS
    NoTable,   \* the configuration says nothing of the table
    NoLimit    \* keep_num_of_records is None

Kinds     == {"replace", "nullify", "name", "md5", "phone", "multiEmail", "idEmail"}
CellTypes == {"str", "i32", "f64", "other"}

\* Short, Digits and WideEnds hold cells of any origin: a fake or a replacement
\* that a transformator finds on its column is looked into like an original.
ASSUME StringsAssumption ==
    /\ \A v \in Originals : v[1] = "source"
    /\ {Null, Blank} \cup NulBytes \subseteq Originals
    /\ Blank \in Short /\ Null \notin Short \cup Digits \cup WideEnds \cup NulBytes
    /\ Short \cap (Digits \cup WideEnds) = {}

\* Dataframes: the type of each column, and the rows in order.
Frames(C, cells) == [types : [C -> CellTypes], rows : Seq([C -> cells])]
Columns(f)     == DOMAIN f.types
Column(f, c)   == [i \in DOMAIN f.rows |-> f.rows[i][c]]
WithRows(f, s) == [f EXCEPT !.rows = s]
WithColumn(f, c, type, cells) ==
    [types |-> [f.types EXCEPT ![c] = type],
     rows  |-> [i \in DOMAIN f.rows |-> [f.rows[i] EXCEPT ![c] = cells[i]]]]

----------------------------------------------------------------------------
\* Cells of string columns with a null byte become null.
Sanitized(f) ==
    WithRows(f, [i \in DOMAIN f.rows |-> [c \in Columns(f) |->
        IF f.types[c] = "str" /\ f.rows[i][c] \in NulBytes
        THEN Null ELSE f.rows[i][c]]])

\* The first n rows.
Sliced(f, n) == WithRows(f, SubSeq(f.rows, 1, IF n < Len(f.rows) THEN n ELSE Len(f.rows)))

\* AnyOfInt and AnyOfString exclude the values they name, the others keep the
\* cells they match; a null cell matches nothing.
Keeps(filter, row) ==
    CASE filter.kind = "none"  -> TRUE
      [] filter.kind = "match" -> row[filter.column] \in filter.values
      [] filter.kind = "anyOf" -> row[filter.column] \notin filter.values

\* A filter on a column that is not there, or of another type, is an error.
FilterFails(f, filter) ==
    /\ filter.kind # "none"
    /\ filter.column \notin Columns(f) \/ f.types[filter.column] # filter.type

Filtered(f, filter) ==
    WithRows(f, Selected(f.rows, {i \in DOMAIN f.rows : Keeps(filter, f.rows[i])}))

----------------------------------------------------------------------------
\* Nullify and replace are SingleColumn transformators, the others MultiColumn.
SingleColumn(x) == x.kind \in {"replace", "nullify"}

\* Only SingleColumn transformators are checked against the columns there are.
Applicable(f, x) == SingleColumn(x) => x.column \in Columns(f)

\* The id of every row is there, as an i32.
HasIds(f) ==
    /\ "id" \in Columns(f)
    /\ f.types["id"] = "i32"
    /\ \A i \in DOMAIN f.rows : f.rows[i]["id"] # Null

\* The list is cut by bytes, which may be inside a character.
CutsCharacter(f, c) == \E i \in DOMAIN f.rows : f.rows[i][c] \in WideEnds

\* The transform panics on f: the column is missing or of another type, an id
\* is missing, or a slice ends inside a character.
Fails(f, x) ==
    \/ x.column \notin Columns(f)
    \/ x.kind = "nullify" /\ f.types[x.column] = "other"
    \/ ~SingleColumn(x) /\ f.types[x.column] # "str"
    \/ x.kind = "multiEmail" /\ CutsCharacter(f, x.column)
    \/ x.kind = "idEmail" /\ ~HasIds(f)

\* MUTANT of Draws: the fakers draw from the shared generator, not a clone.
DrawsForFakers(x, v) ==
    CASE x.kind = "phone"      -> v \in Digits
      [] x.kind = "multiEmail" -> v \notin Short \cup {Null}
      [] x.kind = "idEmail"    -> TRUE
      [] x.kind = "name"       -> v # Null
      [] OTHER                 -> FALSE

\* Whether transforming v advances the shared generator.
Draws(x, v) ==
    CASE x.kind = "phone"      -> v \in Digits
      [] x.kind = "multiEmail" -> v \notin Short \cup {Null}
      [] x.kind = "idEmail"    -> TRUE
      [] OTHER                 -> FALSE

\* What is drawn: as many words as the value asks for, or always the same.
Draw(x, v) == IF x.kind = "idEmail" THEN <<x.kind>> ELSE <<x.kind, v>>

\* The state of the generator after x worked on the cells s in state r.
Advanced(r, x, s) ==
    LET drawn == Selected(s, {i \in DOMAIN s : Draws(x, s[i])})
    IN  r \o [i \in DOMAIN drawn |-> Draw(x, drawn[i])]

\* A fake drawn from the thread's own generator, never the same again.
Fresh == <<"random">>

\* transform_with_faker: Md5 never uses the seed, and a null has none.
Fake(x, r, v) ==
    IF v \in {Null, Blank} /\ x.retain THEN v
    ELSE IF v = Null \/ x.kind = "md5" THEN Fresh
    ELSE <<x.kind, r, v>>

\* FakePhoneTransformator: every digit replaced by another one.
Phone(r, v) == IF v \in Digits THEN <<"phone", r, v>> ELSE v

\* FakeMultiEmailTransformator: a list of as many fake addresses.
Emails(r, v) == IF v \in Short \cup {Null} THEN v ELSE <<"emails", r, v>>

\* FakeEmailWithIdPrefixTransformator: null counts as the empty string.
IdEmail(r, v, id) == <<"idEmail", r, IF v = Null THEN Blank ELSE v, id>>

\* The cell x makes of v, in state r, in the row of id.
Transformed(x, r, v, id) ==
    CASE x.kind = "replace"         -> <<"replaced", x.column>>
      [] x.kind = "nullify"         -> Null
      [] x.kind \in {"name", "md5"} -> Fake(x, r, v)
      [] x.kind = "phone"           -> Phone(r, v)
      [] x.kind = "multiEmail"      -> Emails(r, v)
      [] x.kind = "idEmail"         -> IdEmail(r, v, id)

\* One transformator: its column replaced, row by row, the generator advanced.
Apply(acc, x) ==
    IF acc.panic \/ Fails(acc.frame, x) THEN [acc EXCEPT !.panic = TRUE]
    ELSE LET old  == Column(acc.frame, x.column)
             id   == [i \in DOMAIN old |->
                        IF x.kind = "idEmail" THEN acc.frame.rows[i]["id"] ELSE Null]
             new  == [i \in DOMAIN old |->
                        Transformed(x, Advanced(acc.rng, x, SubSeq(old, 1, i - 1)),
                                    old[i], id[i])]
             type == IF x.kind = "nullify" THEN acc.frame.types[x.column] ELSE "str"
         IN  [acc EXCEPT !.frame = WithColumn(@, x.column, type, new),
                         !.rng = Advanced(@, x, old)]

\* The transformators of a table: those of its columns, in order.  A Single
\* table has the whole table transformator, a no-op in the open source build.
Transformators(config) ==
    IF config.type = "Multi" THEN config.columns ELSE <<>>

\* An operation type that does not exist is a panic.
Misspelt(config) ==
    \E k \in DOMAIN Transformators(config) : Transformators(config)[k].kind \notin Kinds

\* Those that are run: of the columns that are missing, a MultiColumn one is.
Chain(f, config) ==
    LET all == Transformators(config)
    IN  Selected(all, {k \in DOMAIN all : Applicable(f, all[k])})

\* Run(start, chain)[n]: what the first n transformators make of the start.
Run(start, chain) ==
    LET after[n \in 0..Len(chain)] ==
          IF n = 0 THEN start ELSE Apply(after[n - 1], chain[n])
    IN  after

\* The seed is the same for every file.
Start(f, config) == [frame |-> f, rng |-> <<>>, panic |-> Misspelt(config)]

\* MUTANT of Anonymized: every transformator starts from the frame as read.
AnonymizedLastOnly(f, config) ==
    LET chain == Chain(f, config)
    IN  IF chain = <<>> THEN Start(f, config) ELSE Apply(Start(f, config), Last(chain))

\* The whole chain.
Anonymized(f, config) ==
    LET chain == Chain(f, config)
    IN  Run(Start(f, config), chain)[Len(chain)]
=============================================================================
