------------------------- MODULE MCDataframeOperator -------------------------
(***************************************************************************)
(* Three files of two tables with shared names, of which tb has no phone   *)
(* column.  ta may be limited, filtered, sanitized, mapped to random       *)
(* values or have a transformator that draws before its names.             *)
(***************************************************************************)
EXTENDS DataframeOperator

CONSTANTS null, day, blank, short, ann, bob, nul, phone, wide, noTable, noLimit,
          oldObject, ta, tb, a1, a2, b1

Cell(v) == <<"source", v>>

MCNull     == Cell(null)
MCBlank    == Cell(blank)
MCShort    == {Cell(blank), Cell(short)}
MCDigits   == {Cell(phone), Fresh}    \* a random identifier has digits
MCWideEnds == {Cell(wide)}
MCNulBytes == {Cell(nul)}
MCOriginals ==
    {Cell(v) : v \in {null, blank, short, ann, bob, nul, phone, wide, day} \cup 1..5}

MCTables    == {ta, tb}
MCFilesOf   == [t \in MCTables |-> IF t = ta THEN <<a1, a2>> ELSE <<b1>>]
MCFirstLoad == {a1, b1}

Types == [id |-> "i32", name |-> "str", tel |-> "str", on |-> "other"]
Row(i, n, p) == [id |-> Cell(i), name |-> Cell(n), tel |-> Cell(p), on |-> Cell(day)]

MCSource == [p \in {a1, a2, b1} |->
    CASE p = a1 -> [types |-> Types,
                    rows |-> <<Row(1, ann, phone), Row(2, blank, short), Row(3, bob, null)>>]
      [] p = a2 -> [types |-> Types,
                    rows |-> <<Row(4, nul, wide), Row(5, ann, phone)>>]
      [] p = b1 -> [types |-> [id |-> "i32", name |-> "str"],
                    rows |-> <<[id |-> Cell(1), name |-> Cell(bob)], [id |-> Cell(null), name |-> Cell(ann)]>>]]

To(c, k, r) == [column |-> c, kind |-> k, retain |-> r]
All         == [kind |-> "none"]
Multi(columns, keep, filter, sanitize) ==
    [type |-> "Multi", columns |-> columns, keep |-> keep, filter |-> filter,
     sanitize |-> sanitize]

Named(s)    == [kind |-> "match", column |-> "name", type |-> "str", values |-> s]
NotId(s)    == [kind |-> "anyOf", column |-> "id", type |-> "i32", values |-> s]
NamedNum(s) == [kind |-> "match", column |-> "id", type |-> "str", values |-> s]

ConfigsOfA == {
    \* names and phones, sanitized and limited
    Multi(<<To("name", "name", TRUE), To("tel", "phone", FALSE)>>, 2, All, TRUE),
    \* filtered by a name that is anonymized
    Multi(<<To("name", "name", FALSE)>>, noLimit, Named({Cell(ann)}), FALSE),
    \* some ids excluded, a column that may be missing replaced
    Multi(<<To("tel", "replace", FALSE), To("name", "idEmail", FALSE)>>, noLimit,
          NotId({Cell(1)}), TRUE),
    \* names after phones: the phones have drawn
    Multi(<<To("tel", "phone", FALSE), To("name", "name", TRUE)>>, noLimit, All, FALSE),
    \* the digits of a fake: the names come after what they have drawn
    Multi(<<To("tel", "md5", TRUE), To("tel", "phone", FALSE), To("name", "name", FALSE)>>,
          noLimit, All, FALSE),
    \* two transformators of one column
    Multi(<<To("name", "name", FALSE), To("tel", "name", TRUE), To("tel", "nullify", FALSE)>>,
          noLimit, All, FALSE),
    \* nulls, random values, and lists of addresses
    Multi(<<To("tel", "nullify", FALSE), To("name", "md5", FALSE)>>, 1, All, FALSE),
    Multi(<<To("tel", "multiEmail", FALSE)>>, noLimit, All, FALSE),
    \* mistakes: a column type nullify does not know, a filter of another type
    Multi(<<To("on", "nullify", FALSE)>>, noLimit, All, FALSE),
    Multi(<<>>, noLimit, NamedNum({Cell(ann)}), FALSE),
    Multi(<<To("name", "typo", FALSE)>>, noLimit, All, FALSE),
    \* the whole table transformator
    [type |-> "Single", keep |-> noLimit, filter |-> All, sanitize |-> FALSE]}

ConfigsOfB == {
    Multi(<<To("tel", "replace", FALSE), To("name", "name", FALSE)>>, noLimit, All, FALSE),
    Multi(<<To("name", "idEmail", FALSE)>>, noLimit, NotId({Cell(null)}), FALSE)}

MCConfigs == [t \in MCTables |-> IF t = ta THEN ConfigsOfA ELSE ConfigsOfB]
=============================================================================
