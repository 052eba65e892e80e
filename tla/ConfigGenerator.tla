--------------------------- MODULE ConfigGenerator ---------------------------
(***************************************************************************)
(* rustic-config-generator-cli: adds a rule to the anonymization           *)
(* configuration of a table, over and over, and what                       *)
(* AnonymizationConfig::load_config_for reads of the file in between.      *)
(*                                                                         *)
(* A file is a sequence of lines.  A line stands for the lines of TOML     *)
(* that belong together: a comment; the head of a [[tables]] entry, with   *)
(* its name and type; a key of the table; its filter; a rule, which is one *)
(* [[column_transformations]]; garbage; or half a character, which is not  *)
(* UTF-8.  The file is opened for writing and not truncated, so what is    *)
(* written lies over the old text: lines of the same content cover each    *)
(* other, and the first line behind the end of a write may be cut.  Every  *)
(* line counts as one, whatever its length.                                *)
(***************************************************************************)
EXTENDS Selection, SequencesExt

CONSTANTS
    Tables,    \* names of tables
    Rules,     \* rules: a column and its transformation
    Files,     \* texts the file may have before the first edit
    MaxEdits   \* bound: runs of the generator

\* keep_num_of_records, sanitize_null_bytes and filter_type
Options == {"keep", "sanitize", "filter"}

VARIABLES
    file,      \* the lines of the file
    stage,     \* where main stands
    table,     \* table_name
    rule,      \* the column transformation
    chunks,    \* what is still to be written
    position,  \* where the next write goes
    original,  \* the file that was read, for the properties only
    whole,     \* whether every write was whole, likewise
    edits      \* runs of the generator

answers == <<table, rule, original>>
vars    == <<file, stage, answers, chunks, position, whole, edits>>

Line(kind, name) == [kind |-> kind, name |-> name]
Note        == Line("comment", "note")
HashLine    == Line("comment", "hashes")
GeneratedBy == Line("comment", "generator")
Garbage     == Line("garbage", "")
HalfChar    == Line("invalid", "")

LineSet ==
    {Note, HashLine, GeneratedBy, Garbage, HalfChar}
    \cup {Line(k, t) : k \in {"multi", "single"}, t \in Tables}
    \cup {Line("key", o) : o \in Options} \cup {Line("filter", "filter")}
    \cup {Line("rule", r) : r \in Rules}

\* There is something to choose from, and files consist of such lines.
ASSUME FilesAssumption ==
    /\ Tables # {} /\ Rules # {} /\ MaxEdits \in Nat
    /\ \A text \in Files : text \in Seq(LineSet)

-----------------------------------------------------------------------------
(* From a file to a configuration, and back. *)

Heads(text) == {i \in DOMAIN text : text[i].kind \in {"multi", "single"}}

\* The lines from head i to the next head.
Block(text, i) ==
    LET next == {j \in Heads(text) : j > i}
    IN  SubSeq(text, i, IF next = {} THEN Len(text) ELSE Min(next) - 1)

\* Where the keys of the table end and those of a rule or the filter begin.
KeysEnd(block) ==
    LET subs == {i \in DOMAIN block : block[i].kind \in {"rule", "filter"}}
    IN  IF subs = {} THEN Len(block) ELSE Min(subs) - 1

Named(lines, kind) == Selected(lines, {i \in DOMAIN lines : lines[i].kind = kind})
Names(lines)       == [i \in DOMAIN lines |-> lines[i].name]

TableKeys(block)    == Names(Named(SubSeq(block, 1, KeysEnd(block)), "key"))
TableFilters(block) == Names(Named(block, "filter"))

\* The entry of a block.  Keys among the rules are unknown fields there.
Entry(block) ==
    [table   |-> block[1].name,
     kind    |-> block[1].kind,
     rules   |-> IF block[1].kind = "single" THEN <<>> ELSE Names(Named(block, "rule")),
     options |-> ToSet(TableKeys(block)) \cup ToSet(TableFilters(block))]

\* fs::read_to_string is no error.
Readable(text) == \A i \in DOMAIN text : text[i].kind # "invalid"

\* toml::from_str is no error: there are tables, no rule or filter stands
\* before them, and nothing is there twice.
Parses(text) ==
    /\ \A i \in DOMAIN text : text[i].kind # "garbage"
    /\ Heads(text) # {}
    /\ \A i \in 1..(Min(Heads(text)) - 1) : text[i].kind \in {"comment", "key"}
    /\ \A i \in Heads(text) :
          LET b == Block(text, i)
          IN  Len(TableFilters(b)) <= 1 /\ IsInjective(TableKeys(b))

\* The entries, those that begin at a head.
Entries(text) == [i \in DOMAIN text |-> Entry(Block(text, i))]
Config(text)  == Selected(Entries(text), Heads(text))

\* What a file is read as: what cannot be read is the default, no tables at all.
Fails(text)  == Readable(text) /\ ~Parses(text)
Loaded(text) == IF Readable(text) THEN Config(text) ELSE <<>>

\* The first entry of a table, as fetch_table_config and the generator find it,
\* as a set of at most one.
Found(config, t) ==
    LET at == {k \in DOMAIN config : config[k].table = t}
    IN  IF at = {} THEN {} ELSE {config[Min(at)]}

\* Of the lines for options, those the entry has.
OptionLines(entry, lines) ==
    Selected(lines, {i \in DOMAIN lines : lines[i].name \in entry.options})
RuleLines(entry) == [i \in DOMAIN entry.rules |-> Line("rule", entry.rules[i])]

\* MUTANT of EntryLines: the fields in the order the struct declares them.
EntryLinesAsDeclared(entry) ==
    <<Line(entry.kind, entry.table)>> \o RuleLines(entry)
    \o OptionLines(entry, <<Line("key", "keep"), Line("filter", "filter"), Line("key", "sanitize")>>)

\* toml::to_string writes the keys of a table before its subtables.
EntryLines(entry) ==
    <<Line(entry.kind, entry.table)>>
    \o OptionLines(entry, <<Line("key", "keep"), Line("key", "sanitize")>>)
    \o RuleLines(entry)
    \o OptionLines(entry, <<Line("filter", "filter")>>)

Formatted(config) == FlattenSeq([k \in DOMAIN config |-> EntryLines(config[k])])

\* MUTANT of Transformations: the rules of the table are not taken over.
TransformationsFresh(config, t, r) == <<r>>

\* final_transformations
Transformations(config, t, r) ==
    LET old == Found(config, t)
    IN  (IF old = {} THEN <<>> ELSE (CHOOSE e \in old : TRUE).rules) \o <<r>>

\* Every entry of the table is dropped, and one goes to the end.
Edited(config, t, r) ==
    Append(Selected(config, {k \in DOMAIN config : config[k].table # t}),
           [table |-> t, kind |-> "multi", rules |-> Transformations(config, t, r),
            options |-> {}])

-----------------------------------------------------------------------------
Init ==
    /\ file \in Files
    /\ stage = "off"
    /\ table = CHOOSE t \in Tables : TRUE
    /\ rule = CHOOSE r \in Rules : TRUE
    /\ original = file
    /\ chunks = <<>> /\ position = 0
    /\ whole = TRUE
    /\ edits = 0

\* MUTANT of Opened: the file is truncated.
OpenedTruncated == <<>>

\* The file after OpenOptions::new().write(true).
Opened == file

\* The questions are answered, the file is read and edited, and opened again.
\* A file that cannot be parsed and a Single table make the generator panic.
Edit(t, r) ==
    /\ stage # "write" /\ edits < MaxEdits
    /\ edits' = edits + 1
    /\ table' = t /\ rule' = r /\ original' = file
    /\ whole' = TRUE
    /\ IF Fails(file) \/ \E e \in Found(Loaded(file), t) : e.kind = "single"
       THEN stage' = "panicked" /\ UNCHANGED <<file, chunks, position>>
       ELSE /\ stage' = "write"
            /\ file' = Opened
            /\ chunks' = <<<<HashLine>>, <<GeneratedBy>>,
                           Formatted(Edited(Loaded(file), t, r)), <<HashLine>>>>
            /\ position' = 0

\* What is left of a line whose beginning is overwritten.  The rest of a head
\* has a type of its own, which is one too many wherever it lands.
Cut(l) ==
    IF l.kind \in {"multi", "single"} THEN {l, Garbage}
    ELSE IF l \in {HashLine, GeneratedBy} THEN {l, Garbage, Note}
    ELSE {l, Garbage, Note, HalfChar}

\* The file with lines s from the position on.
Overwritten(s) ==
    LET end  == position + Len(s)
        rest == SubSeq(file, end + 1, Len(file))
    IN  IF rest = <<>> \/ s = SubSeq(file, position + 1, end)
        THEN {SubSeq(file, 1, position) \o s \o rest}
        ELSE {SubSeq(file, 1, position) \o s \o <<l>> \o Tail(rest) : l \in Cut(Head(rest))}

\* MUTANT of Write: the position of a write that was short.
WriteSeeking ==
    /\ stage = "write"
    /\ \E n \in 0..Len(Head(chunks)) :
          /\ file' \in Overwritten(SubSeq(Head(chunks), 1, n))
          /\ position' = position + Len(Head(chunks))
          /\ whole' = (whole /\ n = Len(Head(chunks)))
    /\ chunks' = Tail(chunks)
    /\ stage' = IF Len(chunks) = 1 THEN "done" ELSE "write"
    /\ UNCHANGED <<answers, edits>>

\* One write, of all of it or of less: the result is ignored.
Write ==
    /\ stage = "write"
    /\ \E n \in 0..Len(Head(chunks)) :
          /\ file' \in Overwritten(SubSeq(Head(chunks), 1, n))
          /\ position' = position + n
          /\ whole' = (whole /\ n = Len(Head(chunks)))
    /\ chunks' = Tail(chunks)
    /\ stage' = IF Len(chunks) = 1 THEN "done" ELSE "write"
    /\ UNCHANGED <<answers, edits>>

\* A kill between two writes; Ctrl-C does nothing.
Killed ==
    /\ stage = "write"
    /\ stage' = "killed"
    /\ UNCHANGED <<file, answers, chunks, position, whole, edits>>

\* No generator runs any more.
Over == stage # "write" /\ UNCHANGED vars

Next ==
    \/ \E t \in Tables, r \in Rules : Edit(t, r)
    \/ Write
    \/ Killed
    \/ Over

Spec == Init /\ [][Next]_vars

-----------------------------------------------------------------------------
TypeOK ==
    /\ file \in Seq(LineSet)
    /\ stage \in {"off", "write", "done", "killed", "panicked"}
    /\ table \in Tables /\ rule \in Rules
    /\ chunks \in Seq(Seq(LineSet)) /\ Len(chunks) <= 4
    /\ position \in 0..Len(file)
    /\ original \in Seq(LineSet) /\ whole \in BOOLEAN /\ edits \in 0..MaxEdits

Finished == stage = "done" /\ whole

\* Once every write was whole, a file that can be read either cannot be parsed,
\* which stops a load, or says of every other table what it said before, and of
\* the edited one all it said and the new rule, in that order: text that is left
\* behind the end may add rules but takes none away.
NoRuleLost ==
    Finished /\ Readable(file) /\ Parses(file) =>
       /\ \A t \in Tables \ {table} : \A old \in Found(Loaded(original), t) :
             Found(Config(file), t) = {old}
       /\ \E e \in Found(Config(file), table) :
             /\ rule \in ToSet(e.rules)
             /\ \A old \in Found(Loaded(original), table) :
                   IsPrefix(Append(old.rules, rule), e.rules)

\* When the new text covers the old one, what is loaded is what was edited:
\* the round trip through the file loses no rule, option or table.
ReadsAsEdited ==
    Finished /\ Len(original) <= Len(Formatted(Edited(Loaded(original), table, rule))) + 3 =>
       ~Fails(file) /\ Loaded(file) = Edited(Loaded(original), table, rule)

\* A generator that has not got to the tables of a file it had written before,
\* or dies there, leaves a file that says what it said.
Generated(text) == Len(text) > 2 /\ SubSeq(text, 1, 2) = <<HashLine, GeneratedBy>>
HeaderSafe ==
    stage \in {"write", "killed"} /\ Generated(original) /\ whole /\ position <= 2 =>
       file = original

\* "Check if table already exists and if it does, append the new
\* transformation": the entry is the one there was, with one rule more.
EditAppends ==
    Finished /\ Readable(file) /\ Parses(file) =>
       \A old \in Found(Loaded(original), table) :
          Found(Loaded(file), table) = {[old EXCEPT !.rules = Append(@, rule)]}
=============================================================================
