------------------------ MODULE ConfigGeneratorProofs ------------------------
(***************************************************************************)
(* What the generator writes is read as what it meant, for any tables,     *)
(* rules and files.  The proofs follow the text: blocks, what is read of   *)
(* one, configurations of texts one behind the other, what is written of   *)
(* an entry and read of it, the round trip of a configuration, the first   *)
(* entry of a table; then the file: what is in it between two writes, and  *)
(* the properties.                                                         *)
(***************************************************************************)
EXTENDS ConfigGenerator, SelectionProofs

\* What the lines of a file are.
LEMMA LinesTyped ==
    /\ \A l \in LineSet :
          /\ l.kind \in {"comment", "garbage", "invalid", "multi", "single", "key", "filter", "rule"}
          /\ l.kind \in {"multi", "single"} => l.name \in Tables
          /\ l.kind \in {"key", "filter"} => l.name \in Options
          /\ l.kind = "rule" => l.name \in Rules
          /\ l = Line(l.kind, l.name)
    /\ {Note, HashLine, GeneratedBy, Garbage, HalfChar} \subseteq LineSet
<1>1. ASSUME NEW l \in LineSet
      PROVE  /\ l.kind \in {"comment", "garbage", "invalid", "multi", "single", "key", "filter", "rule"}
             /\ l.kind \in {"multi", "single"} => l.name \in Tables
             /\ l.kind \in {"key", "filter"} => l.name \in Options
             /\ l.kind = "rule" => l.name \in Rules
             /\ l = Line(l.kind, l.name)
  <2>1. CASE l \in {Note, HashLine, GeneratedBy, Garbage, HalfChar}
    <3>1. \E k \in {"comment", "garbage", "invalid"} : \E n : l = Line(k, n)
      BY <2>1, Zenon DEF Note, HashLine, GeneratedBy, Garbage, HalfChar
    <3>2. l.kind \in {"comment", "garbage", "invalid"} /\ l = Line(l.kind, l.name)
      BY <3>1 DEF Line
    <3> QED BY <3>2
  <2>2. CASE \E k \in {"multi", "single"}, t \in Tables : l = Line(k, t)
    BY <2>2 DEF Line
  <2>3. CASE l \in {Line("key", o) : o \in Options} \cup {Line("filter", "filter")}
    BY <2>3 DEF Line, Options
  <2>4. CASE l \in {Line("rule", r) : r \in Rules}
    BY <2>4 DEF Line
  <2> QED BY <2>1, <2>2, <2>3, <2>4 DEF LineSet
<1>2. {Note, HashLine, GeneratedBy, Garbage, HalfChar} \subseteq LineSet
  BY DEF LineSet
<1> QED BY <1>1, <1>2

\* A head is a line of one of two kinds.
LEMMA HeadsAt ==
    ASSUME NEW text \in Seq(LineSet)
    PROVE  /\ Heads(text) \subseteq 1..Len(text)
           /\ \A i \in 1..Len(text) : i \in Heads(text) <=> text[i].kind \in {"multi", "single"}
BY DEF Heads

\* The block that begins at head i ends at e.
EndsAt(text, i, e) ==
    /\ i \in Heads(text) /\ e \in i..Len(text)
    /\ \A j \in (i + 1)..e : j \notin Heads(text)
    /\ e = Len(text) \/ e + 1 \in Heads(text)

\* Min of a set that has a least element.
LEMMA LeastIs ==
    ASSUME NEW S, S \subseteq Int, NEW m \in S, \A n \in S : m <= n
    PROVE  Min(S) = m
<1>1. \A x \in S : (\A n \in S : x <= n) => x = m
  OBVIOUS
<1> QED BY <1>1 DEF Min

\* Every block ends somewhere.
LEMMA BlockEnds ==
    ASSUME NEW text \in Seq(LineSet), NEW i \in Heads(text)
    PROVE  \E e : EndsAt(text, i, e)
<1> DEFINE next == {j \in Heads(text) : j > i}
<1>1. /\ Heads(text) \subseteq 1..Len(text) /\ Len(text) \in Nat
      /\ i \in 1..Len(text)
  BY HeadsAt
<1>2. CASE next = {}
  <2>1. \A j \in (i + 1)..Len(text) : j \notin Heads(text)
    BY <1>1, <1>2
  <2>2. Len(text) \in i..Len(text)
    BY <1>1
  <2>3. EndsAt(text, i, Len(text))
    BY <2>1, <2>2 DEF EndsAt
  <2> QED BY <2>3
<1>3. CASE next # {}
  <2>1. next \subseteq Nat
    BY <1>1
  <2>2. PICK m \in next : \A n \in next : m <= n
    <3> HIDE DEF next
    <3> QED BY <1>3, <2>1, LeastNatural
  <2>3. m \in Heads(text) /\ m > i /\ m \in 1..Len(text)
    BY <1>1, <2>2
  <2>4. \A j \in (i + 1)..(m - 1) : j \notin Heads(text)
    BY <1>1, <2>2, <2>3
  <2>5. m - 1 \in i..Len(text) /\ (m - 1) + 1 = m
    BY <1>1, <2>3
  <2>6. EndsAt(text, i, m - 1)
    BY <2>3, <2>4, <2>5 DEF EndsAt
  <2> QED BY <2>6
<1> QED BY <1>2, <1>3

\* A block is the lines from its head to its end.
LEMMA BlockIs ==
    ASSUME NEW text \in Seq(LineSet), NEW i, NEW e, EndsAt(text, i, e)
    PROVE  Block(text, i) = SubSeq(text, i, e)
<1> DEFINE next == {j \in Heads(text) : j > i}
<1>1. /\ Heads(text) \subseteq 1..Len(text) /\ Len(text) \in Nat
      /\ i \in 1..Len(text) /\ e \in i..Len(text)
  BY HeadsAt DEF EndsAt
<1>2. Block(text, i) = SubSeq(text, i, IF next = {} THEN Len(text) ELSE Min(next) - 1)
  BY DEF Block
<1>3. CASE e = Len(text)
  <2>1. next = {}
    BY <1>1, <1>3 DEF EndsAt
  <2> QED BY <1>2, <1>3, <2>1
<1>4. CASE e # Len(text)
  <2>1. e + 1 \in next /\ next \subseteq Int
    BY <1>1, <1>4 DEF EndsAt
  <2>2. \A n \in next : e + 1 <= n
    BY <1>1 DEF EndsAt
  <2> HIDE DEF next
  <2>3. Min(next) = e + 1
    BY <2>1, <2>2, LeastIs
  <2>4. Min(next) - 1 = e /\ next # {}
    BY <1>1, <2>1, <2>3
  <2> QED BY <1>2, <2>4
<1> QED BY <1>3, <1>4

\* The block at a head consists of lines and begins with the head.
LEMMA BlockTyped ==
    ASSUME NEW text \in Seq(LineSet), NEW i \in Heads(text)
    PROVE  /\ Block(text, i) \in Seq(LineSet) /\ Block(text, i) # <<>>
           /\ Block(text, i)[1] = text[i]
           /\ text[i].kind \in {"multi", "single"}
<1>1. PICK e : EndsAt(text, i, e)
  BY BlockEnds
<1>2. Block(text, i) = SubSeq(text, i, e)
  BY <1>1, BlockIs
<1>3. i \in 1..Len(text) /\ e \in i..Len(text)
  BY <1>1, HeadsAt DEF EndsAt
<1>4. /\ SubSeq(text, i, e) \in Seq(LineSet) /\ Len(SubSeq(text, i, e)) = e - i + 1
      /\ SubSeq(text, i, e)[1] = text[i]
  BY <1>3
<1>5. e - i + 1 >= 1
  BY <1>3
<1>6. SubSeq(text, i, e) # <<>>
  BY <1>3, <1>4, <1>5
<1> QED BY <1>2, <1>4, <1>6, HeadsAt

\* Text that begins with a head leaves the blocks before it alone.
LEMMA HeadsConcat ==
    ASSUME NEW s \in Seq(LineSet), NEW t \in Seq(LineSet)
    PROVE  /\ \A i \in 1..Len(s) : i \in Heads(s \o t) <=> i \in Heads(s)
           /\ \A i \in 1..Len(t) : Len(s) + i \in Heads(s \o t) <=> i \in Heads(t)
           /\ Heads(s \o t) \subseteq 1..(Len(s) + Len(t))
<1> DEFINE u == s \o t
<1>1. /\ u \in Seq(LineSet) /\ Len(u) = Len(s) + Len(t) /\ Len(s) \in Nat /\ Len(t) \in Nat
      /\ \A i \in 1..Len(s) : u[i] = s[i] /\ i \in 1..Len(u)
      /\ \A i \in 1..Len(t) : u[Len(s) + i] = t[i] /\ Len(s) + i \in 1..Len(u)
  OBVIOUS
<1> HIDE DEF u
<1>2. /\ Heads(u) \subseteq 1..Len(u)
      /\ \A i \in 1..Len(u) : i \in Heads(u) <=> u[i].kind \in {"multi", "single"}
  BY <1>1, HeadsAt
<1>3. \A i \in 1..Len(s) : i \in Heads(u) <=> i \in Heads(s)
  BY <1>1, <1>2, HeadsAt
<1>4. \A i \in 1..Len(t) : Len(s) + i \in Heads(u) <=> i \in Heads(t)
  BY <1>1, <1>2, HeadsAt
<1> QED BY <1>1, <1>2, <1>3, <1>4 DEF u

\* A block is the same when a head follows its text.
LEMMA BlockBefore ==
    ASSUME NEW s \in Seq(LineSet), NEW t \in Seq(LineSet), 1 \in Heads(t),
           NEW i \in Heads(s)
    PROVE  Block(s \o t, i) = Block(s, i)
<1> DEFINE u == s \o t
<1>1. PICK e : EndsAt(s, i, e)
  BY BlockEnds
<1>2. Block(s, i) = SubSeq(s, i, e)
  BY <1>1, BlockIs
<1>3. /\ u \in Seq(LineSet) /\ Len(u) = Len(s) + Len(t) /\ Len(s) \in Nat /\ Len(t) \in Nat
      /\ i \in 1..Len(s) /\ e \in i..Len(s) /\ 1 \in 1..Len(t)
  BY <1>1, HeadsAt DEF EndsAt
<1>4. /\ \A j \in 1..Len(s) : j \in Heads(u) <=> j \in Heads(s)
      /\ Len(s) + 1 \in Heads(u)
  BY <1>3, HeadsConcat
<1>5. SubSeq(u, i, e) = SubSeq(s, i, e)
  BY <1>3
<1> HIDE DEF u
<1>6. \A j \in (i + 1)..e : j \notin Heads(u)
  BY <1>1, <1>3, <1>4 DEF EndsAt
<1>7. e + 1 \in Heads(u)
  <2>1. CASE e = Len(s)
    BY <2>1, <1>4
  <2>2. CASE e # Len(s)
    BY <2>2, <1>1, <1>3, <1>4 DEF EndsAt
  <2> QED BY <2>1, <2>2
<1>8. EndsAt(u, i, e)
  BY <1>1, <1>3, <1>4, <1>6, <1>7 DEF EndsAt
<1>9. Block(u, i) = SubSeq(u, i, e)
  BY <1>3, <1>8, BlockIs
<1> QED BY <1>2, <1>5, <1>9 DEF u

\* A block is the same behind other text.
LEMMA BlockBehind ==
    ASSUME NEW s \in Seq(LineSet), NEW t \in Seq(LineSet), NEW i \in Heads(t)
    PROVE  Block(s \o t, Len(s) + i) = Block(t, i)
<1> DEFINE u == s \o t
           m == Len(s)
<1>1. PICK e : EndsAt(t, i, e)
  BY BlockEnds
<1>2. Block(t, i) = SubSeq(t, i, e)
  BY <1>1, BlockIs
<1>3. /\ u \in Seq(LineSet) /\ Len(u) = m + Len(t) /\ m \in Nat /\ Len(t) \in Nat
      /\ i \in 1..Len(t) /\ e \in i..Len(t)
  BY <1>1, HeadsAt DEF EndsAt
<1>4. \A j \in 1..Len(t) : m + j \in Heads(u) <=> j \in Heads(t)
  BY HeadsConcat
<1>5. SubSeq(u, m + i, m + e) = SubSeq(t, i, e)
  BY <1>3
<1> HIDE DEF u, m
<1>6. \A j \in ((m + i) + 1)..(m + e) : j \notin Heads(u)
  <2> SUFFICES ASSUME NEW j \in ((m + i) + 1)..(m + e) PROVE j \notin Heads(u)
    OBVIOUS
  <2>1. j - m \in (i + 1)..e /\ j - m \in 1..Len(t) /\ m + (j - m) = j
    BY <1>3
  <2>2. j - m \notin Heads(t)
    BY <1>1, <2>1 DEF EndsAt
  <2> QED BY <1>4, <2>1, <2>2
<1>7. m + e = Len(u) \/ (m + e) + 1 \in Heads(u)
  <2>1. CASE e = Len(t)
    BY <2>1, <1>3
  <2>2. CASE e # Len(t)
    <3>1. e + 1 \in Heads(t) /\ e + 1 \in 1..Len(t) /\ m + (e + 1) = (m + e) + 1
      BY <1>1, <1>3, <2>2 DEF EndsAt
    <3> QED BY <1>4, <3>1
  <2> QED BY <2>1, <2>2
<1>8. m + i \in Heads(u) /\ m + e \in (m + i)..Len(u)
  BY <1>1, <1>3, <1>4 DEF EndsAt
<1>9. EndsAt(u, m + i, m + e)
  BY <1>6, <1>7, <1>8 DEF EndsAt
<1>10. Block(u, m + i) = SubSeq(u, m + i, m + e)
  BY <1>3, <1>9, BlockIs
<1> QED BY <1>2, <1>5, <1>10 DEF u, m

----------------------------------------------------------------------------
\* Entries.

\* Entries; a Single table has no rules.
EntrySet ==
    {e \in [table : Tables, kind : {"multi", "single"}, rules : Seq(Rules),
            options : SUBSET Options] : e.kind = "single" => e.rules = <<>>}

\* Lines of one kind.
LEMMA NamedTyped ==
    ASSUME NEW s \in Seq(LineSet), NEW kind
    PROVE  /\ Named(s, kind) \in Seq(LineSet)
           /\ \A i \in 1..Len(Named(s, kind)) : Named(s, kind)[i].kind = kind
<1> DEFINE I == {i \in DOMAIN s : s[i].kind = kind}
           r == Selected(s, I)
<1>1. \A k \in I : s[k].kind = kind
  OBVIOUS
<1>2. Named(s, kind) = r
  BY DEF Named
<1> HIDE DEF I
<1>3. r \in Seq(LineSet)
  BY SelectedAt
<1>4. \A i \in 1..Len(r) : \E k \in I \cap (1..Len(s)) : r[i] = s[k]
  BY SelectedElements
<1> HIDE DEF r
<1> QED BY <1>1, <1>2, <1>3, <1>4

\* Lines of one kind in a text and in what follows it.
LEMMA NamedConcat ==
    ASSUME NEW s \in Seq(LineSet), NEW t \in Seq(LineSet), NEW kind
    PROVE  Named(s \o t, kind) = Named(s, kind) \o Named(t, kind)
<1> DEFINE u == s \o t
           I == {i \in DOMAIN u : u[i].kind = kind}
           H == {i \in DOMAIN s : s[i].kind = kind}
           J == {i \in DOMAIN t : t[i].kind = kind}
<1>1. Joined(u, I, s, H, t, J)
  BY DEF Joined
<1>2. Named(u, kind) = Selected(u, I) /\ Named(s, kind) = Selected(s, H)
      /\ Named(t, kind) = Selected(t, J)
  BY DEF Named
<1> HIDE DEF u, I, H, J
<1>3. Selected(u, I) = Selected(s, H) \o Selected(t, J)
  BY <1>1, SelectedJoin
<1> QED BY <1>2, <1>3 DEF u

\* No line is of the kind.
LEMMA NamedNone ==
    ASSUME NEW s \in Seq(LineSet), NEW kind, \A i \in 1..Len(s) : s[i].kind # kind
    PROVE  Named(s, kind) = <<>>
<1> DEFINE I == {i \in DOMAIN s : s[i].kind = kind}
<1>1. \A k \in 1..Len(s) : k \notin I
  OBVIOUS
<1> HIDE DEF I
<1>2. Selected(s, I) = <<>>
  BY <1>1, SelectedNone
<1> QED BY <1>2 DEF Named, I

\* All lines are of the kind.
LEMMA NamedAll ==
    ASSUME NEW s \in Seq(LineSet), NEW kind, \A i \in 1..Len(s) : s[i].kind = kind
    PROVE  Named(s, kind) = s
<1> DEFINE I == {i \in DOMAIN s : s[i].kind = kind}
<1>1. \A k \in 1..Len(s) : k \in I
  OBVIOUS
<1> HIDE DEF I
<1>2. Selected(s, I) = s
  BY <1>1, SelectedAll
<1> QED BY <1>2 DEF Named, I

\* Where the keys end: before the first rule or filter.
LEMMA KeysEndIs ==
    ASSUME NEW b \in Seq(LineSet)
    PROVE  /\ KeysEnd(b) \in 0..Len(b)
           /\ \A i \in 1..KeysEnd(b) : b[i].kind \notin {"rule", "filter"}
           /\ KeysEnd(b) # Len(b) => b[KeysEnd(b) + 1].kind \in {"rule", "filter"}
<1> DEFINE subs == {i \in DOMAIN b : b[i].kind \in {"rule", "filter"}}
<1>1. KeysEnd(b) = IF subs = {} THEN Len(b) ELSE Min(subs) - 1
  BY DEF KeysEnd
<1>2. subs \subseteq 1..Len(b) /\ Len(b) \in Nat
      /\ \A i \in 1..Len(b) : i \in subs <=> b[i].kind \in {"rule", "filter"}
  OBVIOUS
<1> HIDE DEF subs
<1>3. CASE subs = {}
  BY <1>1, <1>2, <1>3
<1>4. CASE subs # {}
  <2>1. subs \subseteq Nat /\ subs \subseteq Int
    BY <1>2
  <2>2. PICK m \in subs : \A n \in subs : m <= n
    BY <1>4, <2>1, LeastNatural
  <2>3. Min(subs) = m
    BY <2>1, <2>2, LeastIs
  <2>4. m \in 1..Len(b) /\ KeysEnd(b) = m - 1
    BY <1>1, <1>2, <1>4, <2>3
  <2>5. \A i \in 1..(m - 1) : i \notin subs /\ i \in 1..Len(b)
    BY <1>2, <2>2, <2>4
  <2>6. (m - 1) + 1 = m /\ m - 1 \in 0..Len(b) /\ b[m].kind \in {"rule", "filter"}
    BY <1>2, <2>2, <2>4
  <2> QED BY <1>2, <2>4, <2>5, <2>6
<1> QED BY <1>3, <1>4

\* What is read of a block is an entry.
LEMMA EntryTyped ==
    ASSUME NEW b \in Seq(LineSet), b # <<>>, b[1].kind \in {"multi", "single"}
    PROVE  Entry(b) \in EntrySet
<1>1. b[1] \in LineSet
  OBVIOUS
<1>2. b[1].name \in Tables
  BY <1>1, LinesTyped
<1> DEFINE keys == Named(SubSeq(b, 1, KeysEnd(b)), "key")
           filters == Named(b, "filter")
           rules == Named(b, "rule")
<1>3. SubSeq(b, 1, KeysEnd(b)) \in Seq(LineSet)
  <2>1. \A k \in 0..Len(b) : SubSeq(b, 1, k) \in Seq(LineSet)
    OBVIOUS
  <2> QED BY <2>1, KeysEndIs
<1>4. /\ keys \in Seq(LineSet) /\ \A i \in 1..Len(keys) : keys[i].kind = "key"
      /\ filters \in Seq(LineSet) /\ \A i \in 1..Len(filters) : filters[i].kind = "filter"
      /\ rules \in Seq(LineSet) /\ \A i \in 1..Len(rules) : rules[i].kind = "rule"
  <2>1. ASSUME NEW s \in Seq(LineSet), s = SubSeq(b, 1, KeysEnd(b))
        PROVE  Named(s, "key") \in Seq(LineSet)
               /\ \A i \in 1..Len(Named(s, "key")) : Named(s, "key")[i].kind = "key"
    BY NamedTyped
  <2> QED BY <1>3, <2>1, NamedTyped
<1>5. Entry(b) = [table   |-> b[1].name,
                  kind    |-> b[1].kind,
                  rules   |-> IF b[1].kind = "single" THEN <<>> ELSE Names(rules),
                  options |-> ToSet(Names(keys)) \cup ToSet(Names(filters))]
  BY DEF Entry, TableKeys, TableFilters
<1> HIDE DEF keys, filters, rules
<1>6. /\ \A i \in 1..Len(keys) : keys[i].name \in Options
      /\ \A i \in 1..Len(filters) : filters[i].name \in Options
      /\ \A i \in 1..Len(rules) : rules[i].name \in Rules
  <2>1. /\ \A i \in 1..Len(keys) : keys[i] \in LineSet
        /\ \A i \in 1..Len(filters) : filters[i] \in LineSet
        /\ \A i \in 1..Len(rules) : rules[i] \in LineSet
    BY <1>4
  <2> QED BY <1>4, <2>1, LinesTyped
<1>7. ToSet(Names(keys)) \cup ToSet(Names(filters)) \subseteq Options
  BY <1>4, <1>6 DEF ToSet, Names
<1>8. Names(rules) \in Seq(Rules) /\ <<>> \in Seq(Rules)
  BY <1>4, <1>6 DEF Names
<1> QED BY <1>2, <1>5, <1>7, <1>8 DEF EntrySet

----------------------------------------------------------------------------
\* Configurations.

\* The entries of a text, as a sequence.
LEMMA EntriesAre ==
    ASSUME NEW text \in Seq(LineSet)
    PROVE  /\ Entries(text) \in Seq({Entries(text)[i] : i \in 1..Len(text)})
           /\ Len(Entries(text)) = Len(text)
           /\ \A i \in 1..Len(text) : Entries(text)[i] = Entry(Block(text, i))
<1> DEFINE E == Entries(text)
           n == Len(text)
<1>1. n \in Nat /\ DOMAIN text = 1..n
  OBVIOUS
<1>2. E = [i \in 1..n |-> Entry(Block(text, i))]
  BY <1>1 DEF Entries
<1> HIDE DEF E, n
<1>3. E = [i \in 1..n |-> E[i]]
  BY <1>2
<1>4. E \in Seq({E[i] : i \in 1..n}) /\ Len(E) = n
  BY <1>1, <1>3, FunctionIsSequence
<1> QED BY <1>2, <1>4 DEF E, n

\* A text is read as a sequence of entries.
LEMMA ConfigTyped ==
    ASSUME NEW text \in Seq(LineSet)
    PROVE  Config(text) \in Seq(EntrySet)
<1> DEFINE E == Entries(text)
           S == {E[i] : i \in 1..Len(text)}
           r == Selected(E, Heads(text))
<1>1. /\ E \in Seq(S) /\ Len(E) = Len(text)
      /\ \A i \in 1..Len(text) : E[i] = Entry(Block(text, i))
  BY EntriesAre
<1> HIDE DEF E, S
<1>2. r \in Seq(S)
  BY <1>1, SelectedAt
<1>3. \A i \in 1..Len(r) : \E k \in Heads(text) \cap (1..Len(E)) : r[i] = E[k]
  BY <1>1, SelectedElements
<1> HIDE DEF r
<1>4. \A i \in 1..Len(r) : r[i] \in EntrySet
  <2> SUFFICES ASSUME NEW i \in 1..Len(r) PROVE r[i] \in EntrySet
    OBVIOUS
  <2>1. PICK k \in Heads(text) \cap (1..Len(E)) : r[i] = E[k]
    BY <1>3
  <2>2. r[i] = Entry(Block(text, k))
    BY <1>1, <2>1
  <2>3. ASSUME NEW b, b = Block(text, k) PROVE Entry(b) \in EntrySet
    <3>1. /\ b \in Seq(LineSet) /\ b # <<>> /\ b[1] = text[k]
          /\ text[k].kind \in {"multi", "single"}
      BY <2>1, <2>3, BlockTyped
    <3> QED BY <3>1, EntryTyped
  <2> QED BY <2>2, <2>3
<1>5. r \in Seq(EntrySet)
  BY <1>2, <1>4
<1> QED BY <1>5 DEF Config, r, E

\* What begins with a head is read for itself.
LEMMA ConfigConcat ==
    ASSUME NEW s \in Seq(LineSet), NEW t \in Seq(LineSet), 1 \in Heads(t)
    PROVE  Config(s \o t) = Config(s) \o Config(t)
<1> DEFINE u == s \o t
           C == Entries(s)
           D == Entries(t)
           E == Entries(u)
           S == {C[i] : i \in 1..Len(s)} \cup {D[i] : i \in 1..Len(t)}
<1>1. u \in Seq(LineSet) /\ Len(u) = Len(s) + Len(t) /\ Len(s) \in Nat /\ Len(t) \in Nat
  OBVIOUS
<1>2. /\ C \in Seq(S) /\ Len(C) = Len(s)
      /\ \A i \in 1..Len(s) : C[i] = Entry(Block(s, i))
  <2>1. /\ C \in Seq({C[i] : i \in 1..Len(s)}) /\ Len(C) = Len(s)
        /\ \A i \in 1..Len(s) : C[i] = Entry(Block(s, i))
    BY EntriesAre
  <2> HIDE DEF C, D
  <2> QED BY <2>1
<1>3. /\ D \in Seq(S) /\ Len(D) = Len(t)
      /\ \A i \in 1..Len(t) : D[i] = Entry(Block(t, i))
  <2>1. /\ D \in Seq({D[i] : i \in 1..Len(t)}) /\ Len(D) = Len(t)
        /\ \A i \in 1..Len(t) : D[i] = Entry(Block(t, i))
    BY EntriesAre
  <2> HIDE DEF C, D
  <2> QED BY <2>1
<1> HIDE DEF u
<1>4. Len(E) = Len(u) /\ \A i \in 1..Len(u) : E[i] = Entry(Block(u, i))
  BY <1>1, EntriesAre
<1> HIDE DEF C, D, E, S
<1>6. /\ \A i \in 1..Len(s) : i \in Heads(u) <=> i \in Heads(s)
      /\ \A i \in 1..Len(t) : i \in Heads(t) <=> i + Len(s) \in Heads(u)
  <2>1. \A i \in 1..Len(t) : Len(s) + i \in Heads(u) <=> i \in Heads(t)
    BY HeadsConcat DEF u
  <2>2. \A i \in 1..Len(t) : i + Len(s) = Len(s) + i
    BY <1>1
  <2>3. \A i \in 1..Len(s) : i \in Heads(u) <=> i \in Heads(s)
    BY HeadsConcat DEF u
  <2> QED BY <2>1, <2>2, <2>3
<1>7. \A k \in 1..Len(s) : k \in Heads(u) => E[k] = C[k]
  <2> SUFFICES ASSUME NEW k \in 1..Len(s), k \in Heads(s) PROVE E[k] = C[k]
    BY <1>6
  <2>1. Block(u, k) = Block(s, k) /\ k \in 1..Len(u)
    BY <1>1, BlockBefore DEF u
  <2> QED BY <1>2, <1>4, <2>1
<1>8. \A k \in 1..Len(t) : k \in Heads(t) => E[k + Len(s)] = D[k]
  <2> SUFFICES ASSUME NEW k \in 1..Len(t), k \in Heads(t) PROVE E[k + Len(s)] = D[k]
    OBVIOUS
  <2>1. Block(u, Len(s) + k) = Block(t, k) /\ k + Len(s) \in 1..Len(u)
        /\ Len(s) + k = k + Len(s)
    BY <1>1, BlockBehind DEF u
  <2> QED BY <1>3, <1>4, <2>1
<1>9. Joined(E, Heads(u), C, Heads(s), D, Heads(t))
  BY <1>1, <1>2, <1>3, <1>4, <1>6, <1>7, <1>8 DEF Joined
<1>10. Selected(E, Heads(u)) = Selected(C, Heads(s)) \o Selected(D, Heads(t))
  BY <1>2, <1>3, <1>9, SelectedJoin
<1> QED BY <1>10 DEF Config, u, C, D, E

\* Text that begins with a head begins with an entry.
LEMMA ConfigFirst ==
    ASSUME NEW t \in Seq(LineSet), 1 \in Heads(t)
    PROVE  Config(t) # <<>> /\ Config(t)[1] = Entry(Block(t, 1))
<1> DEFINE E == Entries(t)
           S == {E[i] : i \in 1..Len(t)}
           r == Selected(E, Heads(t))
<1>1. /\ E \in Seq(S) /\ Len(E) = Len(t)
      /\ \A i \in 1..Len(t) : E[i] = Entry(Block(t, i))
  BY EntriesAre
<1>2. 1 \in 1..Len(t)
  BY HeadsAt
<1> HIDE DEF E, S
<1>3. PICK at : Positions(r, E, Len(E), Heads(t), at)
  BY <1>1, SelectedAt
<1>4. r \in Seq(S)
  BY <1>1, SelectedAt
<1> HIDE DEF r
<1>5. PICK i \in 1..Len(r) : at[i] = 1
  BY <1>1, <1>2, <1>3 DEF Positions
<1>6. i = 1
  <2> SUFFICES ASSUME i # 1 PROVE FALSE
    OBVIOUS
  <2>1. 1 \in 1..Len(r) /\ 1 < i
    BY <1>4
  <2>2. at[1] < at[i] /\ at[1] \in 1..Len(E)
    BY <1>3, <2>1 DEF Positions
  <2> QED BY <1>1, <1>5, <2>2
<1>7. r[1] = E[1] /\ Len(r) >= 1
  BY <1>3, <1>4, <1>5, <1>6 DEF Positions
<1>8. r # <<>> /\ r[1] = Entry(Block(t, 1))
  BY <1>1, <1>2, <1>4, <1>7
<1> QED BY <1>8 DEF Config, r, E

----------------------------------------------------------------------------
\* What is written of an entry, and read of it.

\* Names of lines.
AllNames == {l.name : l \in LineSet}

\* The names of a sequence of lines.
LEMMA NamesTyped ==
    ASSUME NEW s \in Seq(LineSet)
    PROVE  /\ Names(s) \in Seq(AllNames) /\ Len(Names(s)) = Len(s)
           /\ \A i \in 1..Len(s) : Names(s)[i] = s[i].name
<1>1. Len(s) \in Nat /\ DOMAIN s = 1..Len(s) /\ \A i \in 1..Len(s) : s[i] \in LineSet
  OBVIOUS
<1>2. Names(s) = [i \in 1..Len(s) |-> s[i].name]
  BY <1>1 DEF Names
<1>3. \A i \in 1..Len(s) : s[i].name \in AllNames
  BY <1>1 DEF AllNames
<1>4. Names(s) \in [1..Len(s) -> AllNames]
  BY <1>2, <1>3
<1>5. Names(s) \in Seq(AllNames) /\ Len(Names(s)) = Len(s)
  BY <1>1, <1>4
<1> QED BY <1>2, <1>5

\* The names of a text and of what follows it.
LEMMA NamesConcat ==
    ASSUME NEW s \in Seq(LineSet), NEW t \in Seq(LineSet)
    PROVE  Names(s \o t) = Names(s) \o Names(t)
<1> DEFINE u == s \o t
<1>1. /\ u \in Seq(LineSet) /\ Len(u) = Len(s) + Len(t)
      /\ \A i \in 1..Len(s) : u[i] = s[i] /\ i \in 1..Len(u)
      /\ \A i \in 1..Len(t) : u[i + Len(s)] = t[i] /\ i + Len(s) \in 1..Len(u)
  OBVIOUS
<1> HIDE DEF u
<1>2. /\ Names(s) \in Seq(AllNames) /\ Len(Names(s)) = Len(s)
      /\ \A i \in 1..Len(s) : Names(s)[i] = s[i].name
  BY NamesTyped
<1>3. /\ Names(t) \in Seq(AllNames) /\ Len(Names(t)) = Len(t)
      /\ \A i \in 1..Len(t) : Names(t)[i] = t[i].name
  BY NamesTyped
<1>4. /\ Names(u) \in Seq(AllNames) /\ Len(Names(u)) = Len(u)
      /\ \A i \in 1..Len(u) : Names(u)[i] = u[i].name
  BY <1>1, NamesTyped
<1>5. Joins(Names(u), Names(s), Names(t))
  BY <1>1, <1>2, <1>3, <1>4 DEF Joins
<1> QED BY <1>2, <1>3, <1>4, <1>5, JoinIsConcat DEF u

\* The lines for options are those of the options of the entry.
LEMMA OptionLinesTyped ==
    ASSUME NEW e, NEW s \in Seq(LineSet), NEW k, \A i \in 1..Len(s) : s[i].kind = k
    PROVE  /\ OptionLines(e, s) \in Seq(LineSet) /\ Len(OptionLines(e, s)) <= Len(s)
           /\ \A i \in 1..Len(OptionLines(e, s)) : OptionLines(e, s)[i].kind = k
           /\ ToSet(Names(OptionLines(e, s))) = {s[i].name : i \in 1..Len(s)} \cap e.options
<1> DEFINE I == {i \in DOMAIN s : s[i].name \in e.options}
           r == Selected(s, I)
<1>1. OptionLines(e, s) = r
  BY DEF OptionLines
<1>2. \A i \in 1..Len(s) : i \in I <=> s[i].name \in e.options
  OBVIOUS
<1> HIDE DEF I
<1>3. r \in Seq(LineSet) /\ Len(r) <= Len(s)
  BY SelectedAt
<1>4. /\ \A i \in 1..Len(r) : \E n \in I \cap (1..Len(s)) : r[i] = s[n]
      /\ \A n \in I \cap (1..Len(s)) : \E i \in 1..Len(r) : r[i] = s[n]
  BY SelectedElements
<1> HIDE DEF r
<1>5. \A i \in 1..Len(r) : r[i].kind = k
  BY <1>4
<1>6. ToSet(Names(r)) = {r[i].name : i \in 1..Len(r)}
  BY <1>3 DEF ToSet, Names
<1>7. {r[i].name : i \in 1..Len(r)} = {s[i].name : i \in 1..Len(s)} \cap e.options
  <2>1. ASSUME NEW i \in 1..Len(r)
        PROVE  r[i].name \in {s[n].name : n \in 1..Len(s)} \cap e.options
    BY <1>2, <1>4
  <2>2. ASSUME NEW n \in 1..Len(s), s[n].name \in e.options
        PROVE  \E i \in 1..Len(r) : r[i].name = s[n].name
    BY <1>2, <1>4, <2>2
  <2> QED BY <2>1, <2>2
<1> QED BY <1>1, <1>3, <1>5, <1>6, <1>7

KeyLines    == <<Line("key", "keep"), Line("key", "sanitize")>>
FilterLines == <<Line("filter", "filter")>>

\* What these lines are.
LEMMA OptionLinesConstant ==
    /\ KeyLines \in Seq(LineSet) /\ Len(KeyLines) = 2
    /\ \A i \in 1..2 : KeyLines[i].kind = "key"
    /\ {KeyLines[i].name : i \in 1..2} = {"keep", "sanitize"}
    /\ KeyLines[1].name # KeyLines[2].name
    /\ FilterLines \in Seq(LineSet) /\ Len(FilterLines) = 1
    /\ \A i \in 1..1 : FilterLines[i].kind = "filter"
    /\ {FilterLines[i].name : i \in 1..1} = {"filter"}
<1>1. Line("key", "keep") \in LineSet /\ Line("key", "sanitize") \in LineSet
      /\ Line("filter", "filter") \in LineSet
  BY DEF LineSet, Options
<1>2. /\ Line("key", "keep").kind = "key" /\ Line("key", "keep").name = "keep"
      /\ Line("key", "sanitize").kind = "key" /\ Line("key", "sanitize").name = "sanitize"
      /\ Line("filter", "filter").kind = "filter" /\ Line("filter", "filter").name = "filter"
  BY DEF Line
<1>3. KeyLines \in Seq(LineSet) /\ Len(KeyLines) = 2
      /\ KeyLines[1] = Line("key", "keep") /\ KeyLines[2] = Line("key", "sanitize")
  BY <1>1 DEF KeyLines
<1>4. FilterLines \in Seq(LineSet) /\ Len(FilterLines) = 1
      /\ FilterLines[1] = Line("filter", "filter")
  BY <1>1 DEF FilterLines
<1>5. /\ \A i \in 1..2 : i = 1 \/ i = 2
      /\ \A i \in 1..1 : i = 1
  OBVIOUS
<1>6. {KeyLines[i].name : i \in 1..2} = {"keep", "sanitize"}
      /\ {FilterLines[i].name : i \in 1..1} = {"filter"}
  BY <1>2, <1>3, <1>4, <1>5
<1> QED BY <1>2, <1>3, <1>4, <1>5, <1>6

\* The lines for rules are those of the rules of the entry.
LEMMA RuleLinesTyped ==
    ASSUME NEW e \in EntrySet
    PROVE  /\ RuleLines(e) \in Seq(LineSet)
           /\ \A i \in 1..Len(RuleLines(e)) : RuleLines(e)[i].kind = "rule"
           /\ Names(RuleLines(e)) = e.rules
<1> DEFINE r == RuleLines(e)
           n == Len(e.rules)
<1>1. e.rules \in Seq(Rules)
  BY DEF EntrySet
<1>2. /\ n \in Nat /\ DOMAIN e.rules = 1..n
      /\ e.rules = [i \in 1..n |-> e.rules[i]]
      /\ \A i \in 1..n : e.rules[i] \in Rules
  BY <1>1
<1>3. r = [i \in 1..n |-> Line("rule", e.rules[i])]
  BY <1>2 DEF RuleLines
<1>4. \A x \in Rules : Line("rule", x) \in LineSet
  BY DEF LineSet
<1> HIDE DEF n
<1>5. r \in [1..n -> LineSet]
  BY <1>2, <1>3, <1>4
<1>6. r \in Seq(LineSet) /\ Len(r) = n /\ DOMAIN r = 1..n
  BY <1>2, <1>5
<1>7. \A i \in 1..n : r[i].kind = "rule" /\ r[i].name = e.rules[i]
  BY <1>3 DEF Line
<1> HIDE DEF r
<1>8. /\ Names(r) \in Seq(AllNames) /\ Len(Names(r)) = n
      /\ \A i \in 1..n : Names(r)[i] = e.rules[i]
  BY <1>6, <1>7, NamesTyped
<1>9. Len(e.rules) = n
  BY DEF n
<1>10. Names(r) = e.rules
  <2>1. ASSUME NEW f, f = Names(r), NEW g, g = e.rules PROVE f = g
    <3>1. /\ f \in Seq(AllNames) /\ Len(f) = n /\ g \in Seq(Rules) /\ Len(g) = n
          /\ \A i \in 1..n : f[i] = g[i]
      BY <1>1, <1>8, <1>9, <2>1
    <3>2. f = [i \in 1..n |-> f[i]] /\ g = [i \in 1..n |-> g[i]]
      BY <3>1
    <3> QED BY <3>1, <3>2
  <2> QED BY <2>1
<1> QED BY <1>6, <1>7, <1>10 DEF r

\* Where the lines of an entry stand, and those of each kind.
Laid(b, e) ==
    /\ b \in Seq(LineSet) /\ Len(b) >= 1
    /\ b[1].kind = e.kind /\ b[1].name = e.table
    /\ \A i \in 2..Len(b) : b[i].kind \in {"key", "rule", "filter"}
    /\ \A i, j \in 2..Len(b) : b[i].kind \in {"rule", "filter"} /\ b[j].kind = "key" => j < i
    /\ Named(b, "key") = OptionLines(e, KeyLines)
    /\ Named(b, "rule") = RuleLines(e)
    /\ Named(b, "filter") = OptionLines(e, FilterLines)

\* EntryLines writes an entry so.
LEMMA EntryLinesLaid ==
    ASSUME NEW e \in EntrySet
    PROVE  Laid(EntryLines(e), e)
<1> DEFINE h == Line(e.kind, e.table)
           H == <<h>>
           K == OptionLines(e, KeyLines)
           R == RuleLines(e)
           F == OptionLines(e, FilterLines)
           HK == H \o K
           HKR == HK \o R
           b == HKR \o F
<1>1. EntryLines(e) = b
  BY DEF EntryLines, KeyLines, FilterLines
<1>2. e.kind \in {"multi", "single"} /\ e.table \in Tables
  BY DEF EntrySet
<1>3. h \in LineSet /\ h.kind = e.kind /\ h.name = e.table
  BY <1>2 DEF LineSet, Line
<1>4. K \in Seq(LineSet) /\ \A i \in 1..Len(K) : K[i].kind = "key"
  BY OptionLinesConstant, OptionLinesTyped
<1>5. R \in Seq(LineSet) /\ \A i \in 1..Len(R) : R[i].kind = "rule"
  BY RuleLinesTyped
<1>6. F \in Seq(LineSet) /\ \A i \in 1..Len(F) : F[i].kind = "filter"
  <2>1. FilterLines \in Seq(LineSet) /\ \A i \in 1..Len(FilterLines) : FilterLines[i].kind = "filter"
    BY OptionLinesConstant
  <2> QED BY <2>1, OptionLinesTyped
<1> HIDE DEF h, K, R, F
<1>7. H \in Seq(LineSet) /\ Len(H) = 1 /\ H[1] = h
  BY <1>3
<1> HIDE DEF H
<1>8. /\ HK \in Seq(LineSet) /\ Len(HK) = 1 + Len(K) /\ HK[1] = h
      /\ \A i \in 2..Len(HK) : HK[i].kind = "key"
  <2>1. HK \in Seq(LineSet) /\ Joins(HK, H, K)
    BY <1>4, <1>7, ConcatJoins
  <2> HIDE DEF HK
  <2>2. Len(K) \in Nat /\ Len(HK) = 1 + Len(K) /\ HK[1] = h
    BY <1>4, <1>7, <2>1 DEF Joins
  <2>3. \A i \in 2..Len(HK) : i - 1 \in 1..Len(K) /\ (i - 1) + Len(H) = i
    BY <1>7, <2>2
  <2>4. ASSUME NEW n \in 2..Len(HK) PROVE HK[n].kind = "key"
    <3>1. PICK k \in 1..Len(K) : k + Len(H) = n
      BY <2>3
    <3>2. HK[k + Len(H)] = K[k]
      BY <2>1 DEF Joins
    <3> QED BY <1>4, <3>1, <3>2
  <2> QED BY <2>1, <2>2, <2>4
<1>9. \A kind : Named(HK, kind) = Named(H, kind) \o Named(K, kind)
  BY <1>4, <1>7, NamedConcat
<1> HIDE DEF HK
<1>10. /\ HKR \in Seq(LineSet) /\ Len(HKR) = Len(HK) + Len(R)
       /\ \A i \in 1..Len(HK) : HKR[i] = HK[i]
       /\ \A i \in (Len(HK) + 1)..Len(HKR) : HKR[i].kind = "rule"
  BY <1>5, <1>8
<1>11. \A kind : Named(HKR, kind) = Named(HK, kind) \o Named(R, kind)
  BY <1>5, <1>8, NamedConcat
<1> HIDE DEF HKR
<1>12. /\ b \in Seq(LineSet) /\ Len(b) = Len(HKR) + Len(F)
       /\ \A i \in 1..Len(HKR) : b[i] = HKR[i]
       /\ \A i \in (Len(HKR) + 1)..Len(b) : b[i].kind = "filter"
  <2>1. b \in Seq(LineSet) /\ Joins(b, HKR, F)
    BY <1>6, <1>10, ConcatJoins
  <2> HIDE DEF b
  <2>2. Len(HKR) \in Nat /\ Len(F) \in Nat /\ Len(b) = Len(HKR) + Len(F)
        /\ \A i \in 1..Len(HKR) : b[i] = HKR[i]
    BY <1>6, <1>10, <2>1 DEF Joins
  <2>3. \A i \in (Len(HKR) + 1)..Len(b) :
           i - Len(HKR) \in 1..Len(F) /\ (i - Len(HKR)) + Len(HKR) = i
    BY <2>2
  <2>4. ASSUME NEW n \in (Len(HKR) + 1)..Len(b) PROVE b[n].kind = "filter"
    <3>1. PICK k \in 1..Len(F) : k + Len(HKR) = n
      BY <2>3
    <3>2. b[k + Len(HKR)] = F[k]
      BY <2>1 DEF Joins
    <3> QED BY <1>6, <3>1, <3>2
  <2> QED BY <2>1, <2>2, <2>4
<1>13. \A kind : Named(b, kind) = Named(HKR, kind) \o Named(F, kind)
  BY <1>6, <1>10, NamedConcat
<1> HIDE DEF b
<1>14. /\ Named(H, "key") = <<>> /\ Named(H, "rule") = <<>> /\ Named(H, "filter") = <<>>
       /\ Named(K, "key") = K /\ Named(K, "rule") = <<>> /\ Named(K, "filter") = <<>>
       /\ Named(R, "key") = <<>> /\ Named(R, "rule") = R /\ Named(R, "filter") = <<>>
       /\ Named(F, "key") = <<>> /\ Named(F, "rule") = <<>> /\ Named(F, "filter") = F
  <2>1. Named(K, "key") = K /\ Named(R, "rule") = R /\ Named(F, "filter") = F
    BY <1>4, <1>5, <1>6, NamedAll
  <2>2. \A kind \in {"key", "rule", "filter"} : Named(H, kind) = <<>>
    BY <1>2, <1>3, <1>7, NamedNone
  <2>3. /\ Named(K, "rule") = <<>> /\ Named(K, "filter") = <<>>
        /\ Named(R, "key") = <<>> /\ Named(R, "filter") = <<>>
        /\ Named(F, "key") = <<>> /\ Named(F, "rule") = <<>>
    BY <1>4, <1>5, <1>6, NamedNone
  <2> QED BY <2>1, <2>2, <2>3
<1>15. \A s \in Seq(LineSet) : <<>> \o s = s /\ s \o <<>> = s
  OBVIOUS
<1>16. <<>> \o <<>> = <<>>
  OBVIOUS
<1>17. Named(b, "key") = K /\ Named(b, "rule") = R /\ Named(b, "filter") = F
  <2>1. \A kind : Named(b, kind) =
           ((Named(H, kind) \o Named(K, kind)) \o Named(R, kind)) \o Named(F, kind)
    BY <1>9, <1>11, <1>13
  <2>2. Named(b, "key") = ((<<>> \o K) \o <<>>) \o <<>>
    BY <1>14, <2>1
  <2>3. Named(b, "rule") = ((<<>> \o <<>>) \o R) \o <<>>
    BY <1>14, <2>1
  <2>4. Named(b, "filter") = ((<<>> \o <<>>) \o <<>>) \o F
    BY <1>14, <2>1
  <2> QED BY <1>4, <1>5, <1>6, <1>15, <1>16, <2>2, <2>3, <2>4
<1>18. Len(K) \in Nat /\ Len(R) \in Nat /\ Len(F) \in Nat
  BY <1>4, <1>5, <1>6
<1>19. Len(b) >= 1 /\ b[1] = h
  BY <1>8, <1>10, <1>12, <1>18
<1>20. /\ \A i \in 2..Len(HK) : b[i].kind = "key"
       /\ \A i \in (Len(HK) + 1)..Len(b) : b[i].kind \in {"rule", "filter"}
  <2>1. \A i \in 2..Len(HK) : b[i].kind = "key"
    BY <1>8, <1>10, <1>12, <1>18
  <2>2. \A i \in (Len(HK) + 1)..Len(HKR) : b[i].kind = "rule"
    BY <1>8, <1>10, <1>12, <1>18
  <2>3. \A i \in (Len(HK) + 1)..Len(b) : i \in (Len(HK) + 1)..Len(HKR) \/ i \in (Len(HKR) + 1)..Len(b)
    BY <1>8, <1>10, <1>12, <1>18
  <2> QED BY <1>12, <2>1, <2>2, <2>3
<1>21. \A i \in 2..Len(b) : i \in 2..Len(HK) \/ i \in (Len(HK) + 1)..Len(b)
  BY <1>8, <1>10, <1>12, <1>18
<1>22. \A i \in 2..Len(b) : b[i].kind \in {"key", "rule", "filter"}
  BY <1>20, <1>21
<1>23. \A i, j \in 2..Len(b) : b[i].kind \in {"rule", "filter"} /\ b[j].kind = "key" => j < i
  <2> SUFFICES ASSUME NEW i \in 2..Len(b), NEW j \in 2..Len(b),
                      b[i].kind \in {"rule", "filter"}, b[j].kind = "key"
               PROVE  j < i
    OBVIOUS
  <2>1. i \in (Len(HK) + 1)..Len(b) /\ j \in 2..Len(HK)
    BY <1>20, <1>21
  <2> QED BY <2>1, <1>8, <1>18
<1>24. Laid(b, e)
  BY <1>3, <1>12, <1>17, <1>19, <1>22, <1>23 DEF Laid, K, R, F
<1> QED BY <1>1, <1>24

\* No option is written twice.
LEMMA OptionLinesOnce ==
    ASSUME NEW e
    PROVE  IsInjective(Names(OptionLines(e, KeyLines)))
<1> DEFINE s == KeyLines
           I == {i \in DOMAIN s : s[i].name \in e.options}
           r == Selected(s, I)
<1>1. s \in Seq(LineSet) /\ Len(s) = 2 /\ s[1].name # s[2].name
  BY OptionLinesConstant
<1>2. OptionLines(e, KeyLines) = r
  BY DEF OptionLines
<1> HIDE DEF s, I
<1>3. r \in Seq(LineSet) /\ \E at : Positions(r, s, Len(s), I, at)
  BY <1>1, SelectedAt
<1> HIDE DEF r
<1>4. PICK at : Positions(r, s, Len(s), I, at)
  BY <1>3
<1>5. /\ Names(r) \in Seq(AllNames) /\ Len(Names(r)) = Len(r)
      /\ \A i \in 1..Len(r) : Names(r)[i] = r[i].name
  BY <1>3, NamesTyped
<1>6. \A i, j \in 1..Len(r) : i < j => Names(r)[i] # Names(r)[j]
  <2> SUFFICES ASSUME NEW i \in 1..Len(r), NEW j \in 1..Len(r), i < j
               PROVE  r[i].name # r[j].name
    BY <1>5
  <2>1. at[i] \in 1..2 /\ at[j] \in 1..2 /\ at[i] < at[j]
    BY <1>1, <1>4 DEF Positions
  <2>2. r[i] = s[at[i]] /\ r[j] = s[at[j]]
    BY <1>4 DEF Positions
  <2>3. at[i] = 1 /\ at[j] = 2
    BY <2>1
  <2> QED BY <1>1, <2>2, <2>3
<1>7. DOMAIN Names(r) = 1..Len(r) /\ Len(r) \in Nat
  BY <1>3, <1>5
<1>8. ASSUME NEW i \in 1..Len(r), NEW j \in 1..Len(r), Names(r)[i] = Names(r)[j]
      PROVE  i = j
  <2>1. ~(i < j) /\ ~(j < i)
    BY <1>6, <1>8
  <2> QED BY <1>7, <2>1
<1>9. IsInjective(Names(r))
  BY <1>7, <1>8 DEF IsInjective
<1> QED BY <1>2, <1>9

\* Lines of each kind in an entry and in what follows it.
LEMMA LaidNamed ==
    ASSUME NEW e \in EntrySet, NEW b \in Seq(LineSet), NEW u \in Seq(LineSet), Laid(b, e)
    PROVE  /\ (b \o u) \in Seq(LineSet) /\ (b \o u) # <<>> /\ (b \o u)[1] = b[1]
           /\ Named(b \o u, "rule") = RuleLines(e) \o Named(u, "rule")
           /\ Named(b \o u, "filter") = OptionLines(e, FilterLines) \o Named(u, "filter")
           /\ Named(b \o u, "key") = OptionLines(e, KeyLines) \o Named(u, "key")
<1>1. /\ Named(b, "key") = OptionLines(e, KeyLines)
      /\ Named(b, "rule") = RuleLines(e)
      /\ Named(b, "filter") = OptionLines(e, FilterLines)
      /\ Len(b) >= 1
  BY DEF Laid
<1>2. \A kind : Named(b \o u, kind) = Named(b, kind) \o Named(u, kind)
  BY NamedConcat
<1>3. (b \o u) \in Seq(LineSet) /\ (b \o u) # <<>> /\ (b \o u)[1] = b[1]
  BY <1>1
<1> QED BY <1>1, <1>2, <1>3

\* Of an entry and of what is behind it: the rules are read in that order.
LEMMA ReadRules ==
    ASSUME NEW e \in EntrySet, e.kind = "multi",
           NEW b \in Seq(LineSet), NEW u \in Seq(LineSet), Laid(b, e)
    PROVE  /\ Entry(b \o u).table = e.table
           /\ Entry(b \o u).rules = e.rules \o Names(Named(u, "rule"))
<1> DEFINE c == b \o u
           v == Named(u, "rule")
           r == RuleLines(e)
<1>1. c \in Seq(LineSet) /\ c[1] = b[1] /\ Named(c, "rule") = r \o v
  BY LaidNamed
<1>2. b[1].kind = "multi" /\ b[1].name = e.table
  BY DEF Laid
<1>3. r \in Seq(LineSet) /\ v \in Seq(LineSet) /\ Names(r) = e.rules
  BY RuleLinesTyped, NamedTyped
<1> HIDE DEF c, v, r
<1>4. Names(r \o v) = Names(r) \o Names(v)
  BY <1>3, NamesConcat
<1>5. Entry(c).table = e.table /\ Entry(c).rules = Names(Named(c, "rule"))
  BY <1>1, <1>2 DEF Entry
<1> QED BY <1>1, <1>3, <1>4, <1>5 DEF c, v

\* The block b is e, and nothing is there twice.
ReadAs(b, e) ==
    Entry(b) = e /\ Len(TableFilters(b)) <= 1 /\ IsInjective(TableKeys(b))

\* A sequence in two.
LEMMA SplitAt ==
    ASSUME NEW S, NEW c \in Seq(S), NEW m \in 0..Len(c)
    PROVE  /\ SubSeq(c, 1, m) \in Seq(S) /\ SubSeq(c, m + 1, Len(c)) \in Seq(S)
           /\ c = SubSeq(c, 1, m) \o SubSeq(c, m + 1, Len(c))
           /\ \A i \in 1..Len(SubSeq(c, m + 1, Len(c))) :
                 /\ SubSeq(c, m + 1, Len(c))[i] = c[m + i]
                 /\ m + i \in (m + 1)..Len(c)
<1> DEFINE p == SubSeq(c, 1, m)
           q == SubSeq(c, m + 1, Len(c))
<1>1. /\ p \in Seq(S) /\ Len(p) = m /\ \A i \in 1..m : p[i] = c[i]
  OBVIOUS
<1>2. /\ q \in Seq(S) /\ Len(q) = Len(c) - m /\ \A i \in 1..(Len(c) - m) : q[i] = c[m + i]
  OBVIOUS
<1>3. Len(c) \in Nat /\ m \in Nat
  OBVIOUS
<1> HIDE DEF p, q
<1>4. Joins(c, p, q)
  BY <1>1, <1>2, <1>3 DEF Joins
<1>5. c = p \o q
  BY <1>1, <1>2, <1>4, JoinIsConcat
<1>6. \A i \in 1..Len(q) : q[i] = c[m + i] /\ m + i \in (m + 1)..Len(c)
  BY <1>2, <1>3
<1> QED BY <1>1, <1>2, <1>5, <1>6 DEF p, q

\* An entry that is written, and comments behind it, is read as that entry.
LEMMA ReadEntry ==
    ASSUME NEW e \in EntrySet, NEW b \in Seq(LineSet), NEW u \in Seq(LineSet), Laid(b, e),
           \A i \in 1..Len(u) : u[i].kind = "comment"
    PROVE  ReadAs(b \o u, e)
<1> DEFINE c == b \o u
           K == OptionLines(e, KeyLines)
           R == RuleLines(e)
           F == OptionLines(e, FilterLines)
           m == KeysEnd(c)
<1>1. /\ K \in Seq(LineSet) /\ ToSet(Names(K)) = {"keep", "sanitize"} \cap e.options
  <2>1. /\ KeyLines \in Seq(LineSet) /\ \A i \in 1..Len(KeyLines) : KeyLines[i].kind = "key"
        /\ {KeyLines[i].name : i \in 1..Len(KeyLines)} = {"keep", "sanitize"}
    BY OptionLinesConstant
  <2>2. ToSet(Names(K)) = {KeyLines[i].name : i \in 1..Len(KeyLines)} \cap e.options
    BY <2>1, OptionLinesTyped
  <2>3. K \in Seq(LineSet)
    BY <2>1, OptionLinesTyped
  <2> HIDE DEF K
  <2> QED BY <2>1, <2>2, <2>3
<1>2. /\ F \in Seq(LineSet) /\ Len(F) <= 1 /\ ToSet(Names(F)) = {"filter"} \cap e.options
  <2>1. /\ FilterLines \in Seq(LineSet) /\ Len(FilterLines) = 1
        /\ \A i \in 1..Len(FilterLines) : FilterLines[i].kind = "filter"
        /\ {FilterLines[i].name : i \in 1..Len(FilterLines)} = {"filter"}
    BY OptionLinesConstant
  <2>2. ToSet(Names(F)) = {FilterLines[i].name : i \in 1..Len(FilterLines)} \cap e.options
    BY <2>1, OptionLinesTyped
  <2>3. F \in Seq(LineSet) /\ Len(F) <= Len(FilterLines)
    BY <2>1, OptionLinesTyped
  <2> HIDE DEF F
  <2> QED BY <2>1, <2>2, <2>3
<1>3. R \in Seq(LineSet) /\ Names(R) = e.rules
  BY RuleLinesTyped
<1>4. Named(u, "key") = <<>> /\ Named(u, "rule") = <<>> /\ Named(u, "filter") = <<>>
  <2>1. \A kind \in {"key", "rule", "filter"} : \A i \in 1..Len(u) : u[i].kind # kind
    OBVIOUS
  <2> QED BY <2>1, NamedNone
<1>5. /\ c \in Seq(LineSet) /\ c # <<>> /\ c[1] = b[1]
      /\ Named(c, "rule") = R \o <<>> /\ Named(c, "filter") = F \o <<>>
      /\ Named(c, "key") = K \o <<>>
  <2>1. c \in Seq(LineSet) /\ c # <<>> /\ c[1] = b[1]
    BY LaidNamed
  <2>2. /\ Named(c, "rule") = R \o Named(u, "rule")
        /\ Named(c, "filter") = F \o Named(u, "filter")
        /\ Named(c, "key") = K \o Named(u, "key")
    BY LaidNamed
  <2> HIDE DEF c, K, R, F
  <2> QED BY <1>4, <2>1, <2>2
<1>6. /\ Len(c) = Len(b) + Len(u) /\ Len(b) \in Nat /\ Len(u) \in Nat
      /\ \A i \in 1..Len(b) : c[i] = b[i]
      /\ \A i \in 1..Len(u) : c[i + Len(b)] = u[i]
  OBVIOUS
<1> HIDE DEF c, K, R, F
<1>7. Named(c, "rule") = R /\ Named(c, "filter") = F /\ Named(c, "key") = K
  BY <1>1, <1>2, <1>3, <1>5
<1>8. /\ m \in 0..Len(c)
      /\ m # Len(c) => c[m + 1].kind \in {"rule", "filter"}
  BY <1>5, KeysEndIs
<1> HIDE DEF m
<1>9. \A i \in (m + 1)..Len(c) : c[i].kind # "key"
  <2> SUFFICES ASSUME NEW i \in (m + 1)..Len(c), c[i].kind = "key" PROVE FALSE
    OBVIOUS
  <2>0. \A k \in (Len(b) + 1)..Len(c) : c[k].kind = "comment"
    <3> SUFFICES ASSUME NEW k \in (Len(b) + 1)..Len(c) PROVE c[k].kind = "comment"
      OBVIOUS
    <3>1. k - Len(b) \in 1..Len(u) /\ (k - Len(b)) + Len(b) = k
      BY <1>6
    <3>2. PICK n \in 1..Len(u) : n + Len(b) = k
      BY <3>1
    <3> QED BY <1>6, <3>2
  <2>1. m + 1 \in 1..Len(c) /\ c[m + 1].kind \in {"rule", "filter"}
    BY <1>6, <1>8
  <2>2. c[1].kind \in {"multi", "single"} /\ Len(b) >= 1
    BY <1>5 DEF Laid, EntrySet
  <2>3. \A k \in 1..Len(c) : k = 1 \/ k \in 2..Len(b) \/ k \in (Len(b) + 1)..Len(c)
    BY <1>6, <2>2
  <2>4. m + 1 \in 2..Len(b)
    BY <2>0, <2>1, <2>2, <2>3
  <2>5. i \in 2..Len(b)
    <3>1. i \in 1..Len(c)
      BY <1>6, <1>8
    <3>2. CASE i = 1
      BY <2>2, <3>2
    <3>3. CASE i \in (Len(b) + 1)..Len(c)
      BY <2>0, <3>3
    <3> QED BY <2>3, <3>1, <3>2, <3>3
  <2>6. b[m + 1].kind \in {"rule", "filter"} /\ b[i].kind = "key"
    <3>1. \A k \in 2..Len(b) : c[k] = b[k]
      BY <1>6
    <3> QED BY <2>1, <2>4, <2>5, <3>1
  <2>7. i < m + 1
    <3>1. \A k, j \in 2..Len(b) : b[k].kind \in {"rule", "filter"} /\ b[j].kind = "key" => j < k
      BY DEF Laid
    <3> QED BY <2>4, <2>5, <2>6, <3>1
  <2> QED BY <1>6, <1>8, <2>7
<1>10. Named(SubSeq(c, 1, m), "key") = K
  <2> DEFINE p == SubSeq(c, 1, m)
             q == SubSeq(c, m + 1, Len(c))
  <2>1. /\ p \in Seq(LineSet) /\ q \in Seq(LineSet) /\ c = p \o q
        /\ \A i \in 1..Len(q) : q[i] = c[m + i] /\ m + i \in (m + 1)..Len(c)
    BY <1>5, <1>8, SplitAt
  <2> HIDE DEF p, q
  <2>2. \A i \in 1..Len(q) : q[i].kind # "key"
    BY <1>9, <2>1
  <2>3. Named(q, "key") = <<>>
    BY <2>1, <2>2, NamedNone
  <2>4. Named(p \o q, "key") = Named(p, "key") \o Named(q, "key")
    BY <2>1, NamedConcat
  <2>5. Named(p, "key") \in Seq(LineSet)
    BY <2>1, NamedTyped
  <2>6. Named(c, "key") = Named(p, "key")
    <3>1. Named(p, "key") \o <<>> = Named(p, "key")
      BY <2>5
    <3> QED BY <2>1, <2>3, <2>4, <3>1
  <2> QED BY <1>7, <2>6 DEF p
<1>11. TableKeys(c) = Names(K) /\ TableFilters(c) = Names(F)
  BY <1>7, <1>10 DEF TableKeys, TableFilters, m
<1>12. IsInjective(Names(K))
  BY OptionLinesOnce DEF K
<1>13. Len(Names(F)) <= 1
  BY <1>2, NamesTyped
<1>14. Entry(c) = e
  <2>1. /\ e.kind \in {"multi", "single"} /\ e.kind = "single" => e.rules = <<>>
        /\ e.options \subseteq Options
        /\ e = [table |-> e.table, kind |-> e.kind, rules |-> e.rules, options |-> e.options]
    BY DEF EntrySet
  <2>2. c[1].kind = e.kind /\ c[1].name = e.table
    BY <1>5 DEF Laid
  <2>3. ToSet(TableKeys(c)) \cup ToSet(TableFilters(c)) = e.options
    BY <1>1, <1>2, <1>11, <2>1 DEF Options
  <2>4. Names(Named(c, "rule")) = e.rules
    BY <1>3, <1>7
  <2>5. Entry(c) = [table |-> e.table, kind |-> e.kind,
                    rules |-> IF e.kind = "single" THEN <<>> ELSE e.rules,
                    options |-> e.options]
    BY <2>2, <2>3, <2>4 DEF Entry
  <2>6. (IF e.kind = "single" THEN <<>> ELSE e.rules) = e.rules
    BY <2>1
  <2> QED BY <2>1, <2>5, <2>6
<1> QED BY <1>11, <1>12, <1>13, <1>14 DEF ReadAs, c

----------------------------------------------------------------------------
\* A text is written entry by entry.

\* g is the recursion of FlattenSeq, for the first n of the sequences.
Flattens(g, seqs, n) ==
    g = [i \in 1..n |-> IF i = 1 THEN seqs[i] ELSE g[i - 1] \o seqs[i]]

\* The recursion has a solution.
LEMMA FlattensHas ==
    ASSUME NEW seqs, NEW n \in Nat
    PROVE  \E g : Flattens(g, seqs, n)
<1> DEFINE G == {m \in Nat : \E g : Flattens(g, seqs, m)}
           none == [i \in 1..0 |-> <<>>]
<1>1. 0 \in G
  <2>1. none = [i \in 1..0 |-> IF i = 1 THEN seqs[i] ELSE none[i - 1] \o seqs[i]]
    OBVIOUS
  <2> QED BY <2>1 DEF Flattens
<1>2. ASSUME NEW m \in Nat, m \in G PROVE m + 1 \in G
  <2>1. PICK g : Flattens(g, seqs, m)
    BY <1>2
  <2> DEFINE h == [i \in 1..(m + 1) |->
                     IF i <= m THEN g[i] ELSE IF i = 1 THEN seqs[i] ELSE g[m] \o seqs[i]]
  <2>2. \A i \in 1..m : h[i] = g[i]
    OBVIOUS
  <2>3. \A i \in 1..(m + 1) : h[i] = IF i = 1 THEN seqs[i] ELSE h[i - 1] \o seqs[i]
    <3> SUFFICES ASSUME NEW i \in 1..(m + 1)
                 PROVE  h[i] = IF i = 1 THEN seqs[i] ELSE h[i - 1] \o seqs[i]
      OBVIOUS
    <3>1. CASE i <= m
      <4>1. i \in 1..m /\ (i # 1 => i - 1 \in 1..m)
        BY <3>1
      <4>2. g[i] = IF i = 1 THEN seqs[i] ELSE g[i - 1] \o seqs[i]
        BY <2>1, <4>1 DEF Flattens
      <4>3. h[i] = g[i] /\ (i # 1 => h[i - 1] = g[i - 1])
        BY <2>2, <4>1
      <4> HIDE DEF h
      <4> QED BY <4>2, <4>3
    <3>2. CASE i = m + 1
      <4>1. h[i] = IF i = 1 THEN seqs[i] ELSE g[m] \o seqs[i]
        BY <3>2
      <4>2. i # 1 => i - 1 = m /\ m \in 1..m
        BY <3>2
      <4>3. i # 1 => h[i - 1] = g[m]
        BY <2>2, <4>2
      <4> HIDE DEF h
      <4> QED BY <4>1, <4>3
    <3> QED BY <3>1, <3>2
  <2>4. h = [i \in 1..(m + 1) |-> h[i]]
    OBVIOUS
  <2> HIDE DEF h
  <2>5. Flattens(h, seqs, m + 1)
    BY <2>3, <2>4 DEF Flattens
  <2> QED BY <2>5
<1> HIDE DEF G
<1>3. n \in G
  BY <1>1, <1>2, NatSetInduction
<1> QED BY <1>3 DEF G

\* FlattenSeq is the last value of any solution.
LEMMA FlattenIs ==
    ASSUME NEW seqs, NEW n \in Nat, n >= 1, Len(seqs) = n, NEW g, Flattens(g, seqs, n)
    PROVE  FlattenSeq(seqs) = g[n]
<1> DEFINE f == CHOOSE f : Flattens(f, seqs, n)
<1>1. FlattenSeq(seqs) = f[n]
  BY DEF FlattenSeq, Flattens
<1>2. Flattens(f, seqs, n)
  BY Zenon
<1> HIDE DEF f
<1> DEFINE G == {m \in Nat : m + 1 <= n => f[m + 1] = g[m + 1]}
<1>3. 0 \in G
  <2>1. 1 \in 1..n
    OBVIOUS
  <2> QED BY <1>2, <2>1 DEF Flattens
<1>4. ASSUME NEW m \in Nat, m \in G PROVE m + 1 \in G
  <2> SUFFICES ASSUME (m + 1) + 1 <= n PROVE f[(m + 1) + 1] = g[(m + 1) + 1]
    OBVIOUS
  <2>1. PICK k \in 1..n : k = (m + 1) + 1 /\ k # 1 /\ k - 1 = m + 1
    OBVIOUS
  <2>2. f[m + 1] = g[m + 1]
    BY <1>4
  <2>3. f[k] = f[k - 1] \o seqs[k] /\ g[k] = g[k - 1] \o seqs[k]
    BY <1>2, <2>1 DEF Flattens
  <2> QED BY <2>1, <2>2, <2>3
<1> HIDE DEF G
<1>5. n - 1 \in G
  <2>1. n - 1 \in Nat
    OBVIOUS
  <2> QED BY <1>3, <1>4, <2>1, NatSetInduction
<1>6. f[n] = g[n]
  BY <1>5 DEF G
<1> QED BY <1>1, <1>6

\* Nothing is flattened to nothing.
LEMMA FlattenEmpty == FlattenSeq(<<>>) = <<>>
BY DEF FlattenSeq

\* One more sequence goes behind the others.
LEMMA FlattenAppend ==
    ASSUME NEW S, NEW seqs \in Seq(Seq(S)), NEW s \in Seq(S)
    PROVE  FlattenSeq(Append(seqs, s)) = FlattenSeq(seqs) \o s
<1> DEFINE n == Len(seqs)
           t == Append(seqs, s)
<1>1. /\ n \in Nat /\ Len(t) = n + 1 /\ t[n + 1] = s
      /\ \A i \in 1..n : t[i] = seqs[i]
  OBVIOUS
<1>2. ASSUME n = 0 PROVE FlattenSeq(t) = FlattenSeq(seqs) \o s
  <2>1. seqs = <<>>
    BY <1>2
  <2>2. PICK g : Flattens(g, t, 1)
    BY FlattensHas
  <2>3. FlattenSeq(t) = g[1]
    <3>1. Len(t) = 1 /\ 1 \in Nat /\ 1 >= 1
      BY <1>1, <1>2
    <3> HIDE DEF t, n
    <3> QED BY <2>2, <3>1, FlattenIs
  <2>4. g[1] = s
    <3>1. 1 \in 1..1
      OBVIOUS
    <3> HIDE DEF t
    <3> QED BY <1>1, <1>2, <2>2, <3>1 DEF Flattens
  <2>5. <<>> \o s = s
    OBVIOUS
  <2>6. FlattenSeq(seqs) = <<>>
    BY <2>1, FlattenEmpty
  <2> QED BY <2>3, <2>4, <2>5, <2>6
<1>3. ASSUME n # 0 PROVE FlattenSeq(t) = FlattenSeq(seqs) \o s
  <2> HIDE DEF t
  <2>0. n + 1 \in Nat
    BY <1>1
  <2>1. PICK g : Flattens(g, t, n + 1)
    BY <2>0, FlattensHas
  <2>2. FlattenSeq(t) = g[n + 1]
    <3>1. n + 1 \in Nat /\ n + 1 >= 1
      BY <1>1
    <3> QED BY <1>1, <2>1, <3>1, FlattenIs
  <2>3. g[n + 1] = g[n] \o s
    <3>1. PICK k \in 1..(n + 1) : k = n + 1 /\ k # 1 /\ k - 1 = n
      BY <1>1, <1>3
    <3>2. g[k] = g[k - 1] \o t[k]
      BY <2>1, <3>1 DEF Flattens
    <3> QED BY <1>1, <3>1, <3>2
  <2> DEFINE h == [i \in 1..n |-> g[i]]
  <2>4. \A i \in 1..n : h[i] = IF i = 1 THEN seqs[i] ELSE h[i - 1] \o seqs[i]
    <3> SUFFICES ASSUME NEW i \in 1..n
                 PROVE  h[i] = IF i = 1 THEN seqs[i] ELSE h[i - 1] \o seqs[i]
      OBVIOUS
    <3>1. i \in 1..(n + 1) /\ (i # 1 => i - 1 \in 1..n)
      BY <1>1
    <3>2. g[i] = IF i = 1 THEN t[i] ELSE g[i - 1] \o t[i]
      BY <2>1, <3>1 DEF Flattens
    <3>3. h[i] = g[i] /\ (i # 1 => h[i - 1] = g[i - 1])
      BY <3>1
    <3> HIDE DEF h
    <3> QED BY <1>1, <3>2, <3>3
  <2>5. h = [i \in 1..n |-> h[i]] /\ (n \in 1..n => h[n] = g[n])
    OBVIOUS
  <2> HIDE DEF h
  <2>6. Flattens(h, seqs, n)
    BY <2>4, <2>5 DEF Flattens
  <2>7. n >= 1 /\ n \in 1..n
    BY <1>1, <1>3
  <2>8. FlattenSeq(seqs) = h[n]
    <3> HIDE DEF n
    <3>1. Len(seqs) = n
      BY DEF n
    <3> QED BY <1>1, <2>6, <2>7, <3>1, FlattenIs
  <2> QED BY <2>2, <2>3, <2>5, <2>7, <2>8
<1> HIDE DEF n, t
<1>4. FlattenSeq(t) = FlattenSeq(seqs) \o s
  BY <1>2, <1>3
<1> QED BY <1>4 DEF t

\* The lines of an entry are lines.
LEMMA EntryLinesTyped ==
    ASSUME NEW e \in EntrySet
    PROVE  EntryLines(e) \in Seq(LineSet)
BY EntryLinesLaid DEF Laid

\* No entries, no lines.
LEMMA FormattedEmpty == Formatted(<<>>) = <<>>
<1>1. [k \in DOMAIN <<>> |-> EntryLines(<<>>[k])] = <<>>
  OBVIOUS
<1> QED BY <1>1, FlattenEmpty DEF Formatted

\* The lines of one more entry go behind the others.
LEMMA FormattedAppend ==
    ASSUME NEW c \in Seq(EntrySet), NEW e \in EntrySet
    PROVE  Formatted(Append(c, e)) = Formatted(c) \o EntryLines(e)
<1> DEFINE n == Len(c)
           d == Append(c, e)
           L == [k \in 1..n |-> EntryLines(c[k])]
           M == [k \in 1..(n + 1) |-> EntryLines(d[k])]
<1>1. n \in Nat /\ DOMAIN c = 1..n /\ \A k \in 1..n : c[k] \in EntrySet /\ d[k] = c[k]
  OBVIOUS
<1>2. DOMAIN d = 1..(n + 1) /\ d[n + 1] = e
  OBVIOUS
<1>3. Formatted(c) = FlattenSeq(L) /\ Formatted(d) = FlattenSeq(M)
  BY <1>1, <1>2 DEF Formatted
<1> HIDE DEF d
<1>4. \A k \in 1..n : EntryLines(c[k]) \in Seq(LineSet)
  BY <1>1, EntryLinesTyped
<1> HIDE DEF n
<1>5. L \in Seq(Seq(LineSet)) /\ Len(L) = n
  <2>1. L \in [1..n -> Seq(LineSet)]
    BY <1>4
  <2> HIDE DEF L
  <2> QED BY <1>1, <2>1
<1>6. \A k \in 1..n : L[k] = EntryLines(c[k])
  OBVIOUS
<1>7. EntryLines(e) \in Seq(LineSet)
  BY EntryLinesTyped
<1>8. M = Append(L, EntryLines(e))
  <2>1. \A k \in 1..(n + 1) : M[k] = IF k <= n THEN L[k] ELSE EntryLines(e)
    BY <1>1, <1>2, <1>6
  <2>2. M \in [1..(n + 1) -> Seq(LineSet)]
    <3>1. \A k \in 1..(n + 1) : k \in 1..n \/ k = n + 1
      BY <1>1
    <3>2. \A k \in 1..(n + 1) : EntryLines(d[k]) \in Seq(LineSet)
      BY <1>1, <1>2, <1>4, <1>7, <3>1
    <3> QED BY <3>2
  <2> HIDE DEF L, M
  <2> DEFINE w == EntryLines(e)
             A == Append(L, w)
  <2>3. w \in Seq(LineSet)
    BY <1>7
  <2>4. \A k \in 1..(n + 1) : M[k] = IF k <= n THEN L[k] ELSE w
    BY <2>1
  <2> HIDE DEF w
  <2>5. M \in Seq(Seq(LineSet)) /\ Len(M) = n + 1
    BY <1>1, <2>2
  <2>6. /\ A \in Seq(Seq(LineSet)) /\ Len(A) = n + 1
        /\ \A k \in 1..(n + 1) : A[k] = IF k <= n THEN L[k] ELSE w
    BY <1>1, <1>5, <2>3
  <2> HIDE DEF A
  <2>7. M = A
    BY <1>1, <2>4, <2>5, <2>6, SeqEqual
  <2> QED BY <2>7 DEF A, w
<1> HIDE DEF L, M
<1>9. FlattenSeq(Append(L, EntryLines(e))) = FlattenSeq(L) \o EntryLines(e)
  BY <1>5, <1>7, FlattenAppend
<1> QED BY <1>3, <1>8, <1>9 DEF d

\* A text that is parsed, if there is a table in it.
Sound(text) ==
    /\ \A i \in 1..Len(text) : text[i].kind \notin {"garbage", "invalid"}
    /\ \A i \in 1..Len(text) :
          (\A j \in 1..i : j \notin Heads(text)) => text[i].kind \in {"comment", "key"}
    /\ \A i \in Heads(text) :
          LET b == Block(text, i)
          IN  Len(TableFilters(b)) <= 1 /\ IsInjective(TableKeys(b))

\* A text that is read as the configuration c.
Says(text, c) == text \in Seq(LineSet) /\ Config(text) = c /\ Sound(text)

\* A sound text with a table in it is read and parsed.
LEMMA SoundParses ==
    ASSUME NEW text \in Seq(LineSet), Sound(text), Heads(text) # {}
    PROVE  Readable(text) /\ Parses(text)
<1>1. \A i \in DOMAIN text : text[i].kind \notin {"garbage", "invalid"}
  BY DEF Sound
<1>2. /\ Heads(text) \subseteq 1..Len(text) /\ Heads(text) \subseteq Nat
      /\ Heads(text) \subseteq Int
  BY HeadsAt
<1>3. PICK m \in Heads(text) : \A n \in Heads(text) : m <= n
  BY <1>2, LeastNatural
<1>4. Min(Heads(text)) = m
  BY <1>2, <1>3, LeastIs
<1>5. \A i \in 1..(m - 1) : text[i].kind \in {"comment", "key"}
  <2> SUFFICES ASSUME NEW i \in 1..(m - 1) PROVE text[i].kind \in {"comment", "key"}
    OBVIOUS
  <2>1. i \in 1..Len(text) /\ \A j \in 1..i : j \notin Heads(text)
    BY <1>2, <1>3
  <2> QED BY <2>1 DEF Sound
<1> QED BY <1>1, <1>4, <1>5 DEF Sound, Readable, Parses

\* A text of comments says nothing.
LEMMA CommentsSay ==
    ASSUME NEW text \in Seq(LineSet), \A i \in 1..Len(text) : text[i].kind = "comment"
    PROVE  Says(text, <<>>)
<1> DEFINE E == Entries(text)
<1>1. Heads(text) = {}
  BY HeadsAt
<1>2. E \in Seq({E[i] : i \in 1..Len(text)})
  BY EntriesAre
<1> HIDE DEF E
<1>3. Selected(E, {}) = <<>>
  <2>1. \A k \in 1..Len(E) : k \notin {}
    OBVIOUS
  <2> QED BY <1>2, <2>1, SelectedNone
<1>4. Config(text) = <<>>
  BY <1>1, <1>3 DEF Config, E
<1>5. Sound(text)
  BY <1>1 DEF Sound
<1> QED BY <1>4, <1>5 DEF Says

\* A text of one block is one entry.
LEMMA ConfigOne ==
    ASSUME NEW t \in Seq(LineSet), Heads(t) = {1}
    PROVE  Config(t) = <<Entry(Block(t, 1))>>
<1> DEFINE E == Entries(t)
           S == {E[i] : i \in 1..Len(t)}
           r == Selected(E, {1})
           x == Entry(Block(t, 1))
<1>1. E \in Seq(S) /\ Len(E) = Len(t)
  BY EntriesAre
<1>2. Config(t) = r
  BY DEF Config
<1>3. r # <<>> /\ r[1] = x
  BY <1>2, ConfigFirst
<1> HIDE DEF E, S
<1>4. r \in Seq(S) /\ \E at : Positions(r, E, Len(E), {1}, at)
  BY <1>1, SelectedAt
<1> HIDE DEF r, x
<1>5. PICK at : Positions(r, E, Len(E), {1}, at)
  BY <1>4
<1>6. Len(r) \in Nat /\ Len(r) >= 1
  BY <1>3, <1>4
<1>7. Len(r) = 1
  <2>1. ASSUME Len(r) > 1 PROVE FALSE
    <3>1. 1 \in 1..Len(r) /\ 2 \in 1..Len(r) /\ 1 < 2
      BY <1>6, <2>1
    <3>2. at[1] < at[2] /\ at[1] = 1 /\ at[2] = 1
      BY <1>5, <3>1 DEF Positions
    <3> QED BY <3>2
  <2>2. \A n \in Nat : n >= 1 /\ ~(n > 1) => n = 1
    OBVIOUS
  <2>3. ~(Len(r) > 1)
    BY <2>1
  <2> QED BY <1>6, <2>2, <2>3
<1>8. r = <<x>>
  BY <1>3, <1>4, <1>7
<1> QED BY <1>2, <1>8 DEF x

\* An entry and comments behind it.
LEMMA EntrySays ==
    ASSUME NEW e \in EntrySet, NEW b \in Seq(LineSet), Laid(b, e),
           NEW u \in Seq(LineSet), \A i \in 1..Len(u) : u[i].kind = "comment"
    PROVE  /\ Heads(b \o u) = {1} /\ Says(b \o u, <<e>>)
<1> DEFINE t == b \o u
<1>1. /\ t \in Seq(LineSet) /\ Len(t) = Len(b) + Len(u) /\ Len(b) \in Nat /\ Len(u) \in Nat
      /\ \A i \in 1..Len(b) : t[i] = b[i]
      /\ \A i \in 1..Len(u) : t[i + Len(b)] = u[i]
  OBVIOUS
<1>2. ReadAs(t, e)
  BY ReadEntry
<1> HIDE DEF t
<1>3. /\ Len(b) >= 1 /\ b[1].kind \in {"multi", "single"}
      /\ \A i \in 2..Len(b) : b[i].kind \in {"key", "rule", "filter"}
  BY DEF Laid, EntrySet
<1>4. \A i \in 2..Len(t) : t[i].kind \in {"key", "rule", "filter", "comment"}
  <2> SUFFICES ASSUME NEW i \in 2..Len(t)
               PROVE  t[i].kind \in {"key", "rule", "filter", "comment"}
    OBVIOUS
  <2>1. CASE i <= Len(b)
    <3>1. i \in 2..Len(b) /\ i \in 1..Len(b)
      BY <1>1, <2>1
    <3> QED BY <1>1, <1>3, <3>1
  <2>2. CASE i > Len(b)
    <3>1. i - Len(b) \in 1..Len(u) /\ (i - Len(b)) + Len(b) = i
      BY <1>1, <2>2
    <3>2. PICK k \in 1..Len(u) : k + Len(b) = i
      BY <3>1
    <3> QED BY <1>1, <3>2
  <2> QED BY <1>1, <2>1, <2>2
<1>5. 1 \in 1..Len(t) /\ t[1].kind \in {"multi", "single"}
  BY <1>1, <1>3
<1>6. Heads(t) = {1}
  <2>1. \A i \in 1..Len(t) : i \in Heads(t) <=> t[i].kind \in {"multi", "single"}
    BY <1>1, HeadsAt
  <2>2. Heads(t) \subseteq 1..Len(t)
    BY <1>1, HeadsAt
  <2>3. \A i \in 1..Len(t) : i = 1 \/ i \in 2..Len(t)
    BY <1>1
  <2>4. \A i \in 2..Len(t) : t[i].kind \notin {"multi", "single"}
    BY <1>4
  <2> QED BY <1>5, <2>1, <2>2, <2>3, <2>4
<1>7. Block(t, 1) = t
  <2>1. EndsAt(t, 1, Len(t))
    BY <1>1, <1>5, <1>6 DEF EndsAt
  <2>2. Block(t, 1) = SubSeq(t, 1, Len(t))
    BY <1>1, <2>1, BlockIs
  <2> QED BY <1>1, <2>2
<1>8. Config(t) = <<e>>
  BY <1>1, <1>2, <1>6, <1>7, ConfigOne DEF ReadAs
<1>9. Sound(t)
  <2>1. \A i \in 1..Len(t) : t[i].kind \notin {"garbage", "invalid"}
    <3>1. \A i \in 1..Len(t) : i = 1 \/ i \in 2..Len(t)
      BY <1>1
    <3> QED BY <1>4, <1>5, <3>1
  <2>2. \A i \in 1..Len(t) : 1 \in 1..i /\ 1 \in Heads(t)
    BY <1>6
  <2> QED BY <1>2, <1>6, <1>7, <2>1, <2>2 DEF Sound, ReadAs
<1> QED BY <1>1, <1>6, <1>8, <1>9 DEF Says, t

\* Two texts one behind the other, when the second one begins with a head.
LEMMA SaysBoth ==
    ASSUME NEW c \in Seq(EntrySet), NEW d \in Seq(EntrySet),
           NEW s, Says(s, c), NEW t, Says(t, d), 1 \in Heads(t)
    PROVE  Says(s \o t, c \o d)
<1> DEFINE u == s \o t
<1>1. s \in Seq(LineSet) /\ t \in Seq(LineSet) /\ Sound(s) /\ Sound(t)
      /\ Config(s) = c /\ Config(t) = d
  BY DEF Says
<1>2. Config(u) = c \o d
  BY <1>1, ConfigConcat
<1>3. /\ u \in Seq(LineSet) /\ Len(u) = Len(s) + Len(t) /\ Len(s) \in Nat /\ Len(t) \in Nat
      /\ \A i \in 1..Len(s) : u[i] = s[i]
      /\ \A i \in 1..Len(t) : u[Len(s) + i] = t[i]
  BY <1>1
<1>4. /\ \A i \in 1..Len(s) : i \in Heads(u) <=> i \in Heads(s)
      /\ \A i \in 1..Len(t) : Len(s) + i \in Heads(u) <=> i \in Heads(t)
      /\ Heads(u) \subseteq 1..Len(u)
  BY <1>1, <1>3, HeadsConcat
<1>5. \A i \in Heads(s) : Block(u, i) = Block(s, i)
  BY <1>1, BlockBefore
<1>6. \A i \in Heads(t) : Block(u, Len(s) + i) = Block(t, i)
  BY <1>1, BlockBehind
<1> HIDE DEF u
<1>7. \A i \in 1..Len(u) : i \in 1..Len(s) \/ \E k \in 1..Len(t) : i = Len(s) + k
  <2> SUFFICES ASSUME NEW i \in 1..Len(u), i \notin 1..Len(s)
               PROVE  \E k \in 1..Len(t) : i = Len(s) + k
    OBVIOUS
  <2>1. i - Len(s) \in 1..Len(t) /\ i = Len(s) + (i - Len(s))
    BY <1>3
  <2> QED BY <2>1
<1>8. \A i \in 1..Len(u) : u[i].kind \notin {"garbage", "invalid"}
  <2> SUFFICES ASSUME NEW i \in 1..Len(u) PROVE u[i].kind \notin {"garbage", "invalid"}
    OBVIOUS
  <2>1. CASE i \in 1..Len(s)
    BY <1>1, <1>3, <2>1 DEF Sound
  <2>2. ASSUME NEW k \in 1..Len(t), i = Len(s) + k PROVE u[i].kind \notin {"garbage", "invalid"}
    BY <1>1, <1>3, <2>2 DEF Sound
  <2> QED BY <1>7, <2>1, <2>2
<1>9. ASSUME NEW i \in 1..Len(u), \A j \in 1..i : j \notin Heads(u)
      PROVE  u[i].kind \in {"comment", "key"}
  <2>1. 1 \in 1..Len(t)
    BY <1>1, HeadsAt
  <2>2. Len(s) + 1 \in Heads(u)
    BY <1>4, <2>1
  <2>3. i \in 1..Len(s)
    BY <1>3, <1>9, <2>2
  <2>4. \A j \in 1..i : j \in 1..Len(s)
    BY <1>3, <2>3
  <2>5. \A j \in 1..i : j \notin Heads(s)
    BY <1>4, <1>9, <2>4
  <2> QED BY <1>1, <1>3, <2>3, <2>5 DEF Sound
<1>10. ASSUME NEW i \in Heads(u)
       PROVE  Len(TableFilters(Block(u, i))) <= 1 /\ IsInjective(TableKeys(Block(u, i)))
  <2>1. i \in 1..Len(u)
    BY <1>4
  <2>2. CASE i \in 1..Len(s)
    BY <1>1, <1>4, <1>5, <2>2 DEF Sound
  <2>3. ASSUME NEW k \in 1..Len(t), i = Len(s) + k
        PROVE  Len(TableFilters(Block(u, i))) <= 1 /\ IsInjective(TableKeys(Block(u, i)))
    BY <1>1, <1>4, <1>6, <2>3 DEF Sound
  <2> QED BY <1>7, <2>1, <2>2, <2>3
<1>11. Sound(u)
  BY <1>8, <1>9, <1>10 DEF Sound
<1> QED BY <1>2, <1>3, <1>11 DEF Says, u

----------------------------------------------------------------------------
\* The round trip of a configuration through a text.

\* One more entry, and comments behind it.
LEMMA TextAppend ==
    ASSUME NEW c \in Seq(EntrySet), NEW s, Says(s, c), NEW e \in EntrySet,
           NEW u \in Seq(LineSet), \A i \in 1..Len(u) : u[i].kind = "comment"
    PROVE  Says(s \o (EntryLines(e) \o u), Append(c, e))
<1> DEFINE b == EntryLines(e)
           t == b \o u
<1>1. b \in Seq(LineSet) /\ Laid(b, e)
  BY EntryLinesLaid, EntryLinesTyped
<1> HIDE DEF b
<1>2. Heads(t) = {1} /\ Says(t, <<e>>)
  BY <1>1, EntrySays
<1>3. <<e>> \in Seq(EntrySet) /\ c \o <<e>> = Append(c, e)
  OBVIOUS
<1> HIDE DEF t
<1>4. 1 \in Heads(t)
  BY <1>2
<1>5. Says(s \o t, c \o <<e>>)
  BY <1>2, <1>3, <1>4, SaysBoth
<1> QED BY <1>3, <1>5 DEF t, b

\* The lines of a configuration are lines.
LEMMA FormattedTyped ==
    ASSUME NEW c \in Seq(EntrySet)
    PROVE  Formatted(c) \in Seq(LineSet)
<1> DEFINE P(n) == SubSeq(c, 1, n)
           G == {n \in Nat : n <= Len(c) => Formatted(P(n)) \in Seq(LineSet)}
<1>1. 0 \in G
  <2>1. P(0) = <<>> /\ <<>> \in Seq(LineSet)
    OBVIOUS
  <2> QED BY <2>1, FormattedEmpty
<1>2. ASSUME NEW n \in Nat, n \in G PROVE n + 1 \in G
  <2> SUFFICES ASSUME n + 1 <= Len(c) PROVE Formatted(P(n + 1)) \in Seq(LineSet)
    OBVIOUS
  <2>1. P(n) \in Seq(EntrySet) /\ c[n + 1] \in EntrySet /\ P(n + 1) = Append(P(n), c[n + 1])
    OBVIOUS
  <2>2. Formatted(P(n)) \in Seq(LineSet)
    BY <1>2
  <2> HIDE DEF P
  <2>3. ASSUME NEW f, f = Formatted(P(n)), NEW e, e = c[n + 1]
        PROVE  f \o EntryLines(e) \in Seq(LineSet)
    <3>1. f \in Seq(LineSet) /\ EntryLines(e) \in Seq(LineSet)
      BY <2>1, <2>2, <2>3, EntryLinesTyped
    <3> QED BY <3>1
  <2>4. Formatted(P(n + 1)) = Formatted(P(n)) \o EntryLines(c[n + 1])
    BY <2>1, FormattedAppend
  <2> QED BY <2>3, <2>4
<1>3. Len(c) \in Nat /\ P(Len(c)) = c
  OBVIOUS
<1>4. Len(c) \in G
  <2> HIDE DEF G
  <2> QED BY <1>1, <1>2, <1>3, NatSetInduction
<1>5. Formatted(P(Len(c))) \in Seq(LineSet)
  BY <1>3, <1>4
<1> HIDE DEF P, G
<1> QED BY <1>3, <1>5

\* ConcatAssoc for lines.
LEMMA LinesAssoc ==
    \A u, v, w \in Seq(LineSet) : (u \o v) \o w = u \o (v \o w)
<1> SUFFICES ASSUME NEW u \in Seq(LineSet), NEW v \in Seq(LineSet), NEW w \in Seq(LineSet)
             PROVE  (u \o v) \o w = u \o (v \o w)
  OBVIOUS
<1> QED BY ConcatAssoc

\* Comments and then the entries are read as those entries.
LEMMA RoundTrip ==
    ASSUME NEW s \in Seq(LineSet), \A i \in 1..Len(s) : s[i].kind = "comment",
           NEW c \in Seq(EntrySet)
    PROVE  Says(s \o Formatted(c), c)
<1> DEFINE P(n) == SubSeq(c, 1, n)
           G == {n \in Nat : n <= Len(c) => Says(s \o Formatted(P(n)), P(n))}
<1>1. 0 \in G
  <2>1. P(0) = <<>> /\ s \o <<>> = s
    OBVIOUS
  <2>2. Says(s, <<>>)
    BY CommentsSay
  <2>3. s \o Formatted(P(0)) = s
    BY <2>1, FormattedEmpty
  <2> QED BY <2>1, <2>2, <2>3
<1>2. ASSUME NEW n \in Nat, n \in G PROVE n + 1 \in G
  <2> SUFFICES ASSUME n + 1 <= Len(c) PROVE Says(s \o Formatted(P(n + 1)), P(n + 1))
    OBVIOUS
  <2>1. P(n) \in Seq(EntrySet) /\ c[n + 1] \in EntrySet /\ P(n + 1) = Append(P(n), c[n + 1])
    OBVIOUS
  <2>2. Says(s \o Formatted(P(n)), P(n))
    BY <1>2
  <2> HIDE DEF P
  <2>3. ASSUME NEW d, d = P(n), NEW e, e = c[n + 1]
        PROVE  Says(s \o Formatted(Append(d, e)), Append(d, e))
    <3>1. d \in Seq(EntrySet) /\ e \in EntrySet /\ Says(s \o Formatted(d), d)
      BY <2>1, <2>2, <2>3
    <3> DEFINE f == Formatted(d)
               b == EntryLines(e)
               none == SubSeq(s, 1, 0)
    <3>2. f \in Seq(LineSet) /\ b \in Seq(LineSet)
      BY <3>1, FormattedTyped, EntryLinesTyped
    <3>3. none \in Seq(LineSet) /\ \A i \in 1..Len(none) : none[i].kind = "comment"
      OBVIOUS
    <3>4. Formatted(Append(d, e)) = f \o b
      BY <3>1, FormattedAppend
    <3>5. Says((s \o f) \o (b \o none), Append(d, e))
      <4> HIDE DEF none
      <4>1. ASSUME NEW t, t = s \o f PROVE Says(t \o (b \o none), Append(d, e))
        BY <3>1, <3>3, <4>1, TextAppend
      <4> QED BY <4>1
    <3> HIDE DEF f, b
    <3>6. none = <<>> /\ b \o <<>> = b
      BY <3>2
    <3>7. (s \o f) \o b = s \o (f \o b)
      BY <3>2, ConcatAssoc
    <3> HIDE DEF none
    <3> QED BY <3>4, <3>5, <3>6, <3>7
  <2> QED BY <2>1, <2>3
<1>3. Len(c) \in Nat /\ P(Len(c)) = c
  OBVIOUS
<1>4. Len(c) \in G
  <2> HIDE DEF G
  <2> QED BY <1>1, <1>2, <1>3, NatSetInduction
<1>5. Says(s \o Formatted(P(Len(c))), P(Len(c)))
  BY <1>3, <1>4
<1> HIDE DEF P, G
<1> QED BY <1>3, <1>5

----------------------------------------------------------------------------
\* The first entry of a table.

\* The first entry of table t is at m.
FirstAt(c, t, m) ==
    m \in 1..Len(c) /\ c[m].table = t /\ \A k \in 1..(m - 1) : c[k].table # t

\* Found is that entry.
LEMMA FoundFirst ==
    ASSUME NEW S, NEW c \in Seq(S), NEW t, NEW m, FirstAt(c, t, m)
    PROVE  Found(c, t) = {c[m]}
<1> DEFINE at == {k \in DOMAIN c : c[k].table = t}
<1>1. at \subseteq 1..Len(c) /\ at \subseteq Int /\ m \in at
  BY DEF FirstAt
<1>2. \A n \in at : m <= n
  <2> SUFFICES ASSUME NEW n \in at, n < m PROVE FALSE
    BY <1>1
  <2>1. n \in 1..(m - 1)
    BY <1>1
  <2> QED BY <2>1 DEF FirstAt
<1>3. Found(c, t) = IF at = {} THEN {} ELSE {c[Min(at)]}
  BY DEF Found
<1> HIDE DEF at
<1>4. Min(at) = m
  BY <1>1, <1>2, LeastIs
<1> QED BY <1>1, <1>3, <1>4

\* What is found is the first entry.
LEMMA FoundHas ==
    ASSUME NEW S, NEW c \in Seq(S), NEW t, NEW e \in Found(c, t)
    PROVE  \E m : FirstAt(c, t, m) /\ e = c[m]
<1> DEFINE at == {k \in DOMAIN c : c[k].table = t}
<1>1. at \subseteq 1..Len(c) /\ at \subseteq Nat
      /\ \A k \in 1..Len(c) : k \in at <=> c[k].table = t
  OBVIOUS
<1>2. Found(c, t) = IF at = {} THEN {} ELSE {c[Min(at)]}
  BY DEF Found
<1> HIDE DEF at
<1>3. at # {}
  BY <1>2
<1>4. PICK m \in at : \A n \in at : m <= n
  BY <1>1, <1>3, LeastNatural
<1>5. m \in 1..Len(c) /\ c[m].table = t
  BY <1>1
<1>6. \A k \in 1..(m - 1) : k \in 1..Len(c) /\ k \notin at
  BY <1>1, <1>4
<1>7. FirstAt(c, t, m)
  BY <1>1, <1>5, <1>6 DEF FirstAt
<1>8. Found(c, t) = {c[m]}
  BY <1>7, FoundFirst
<1> QED BY <1>7, <1>8

\* What is behind changes nothing.
LEMMA FoundBefore ==
    ASSUME NEW S, NEW c \in Seq(S), NEW x \in Seq(S), NEW t, NEW m, FirstAt(c, t, m)
    PROVE  Found(c \o x, t) = {c[m]}
<1> DEFINE d == c \o x
<1>1. /\ d \in Seq(S) /\ Len(d) = Len(c) + Len(x) /\ Len(c) \in Nat /\ Len(x) \in Nat
      /\ \A i \in 1..Len(c) : d[i] = c[i]
  OBVIOUS
<1>2. m \in 1..Len(c) /\ c[m].table = t /\ \A k \in 1..(m - 1) : c[k].table # t
  BY DEF FirstAt
<1> HIDE DEF d
<1>3. \A k \in 1..(m - 1) : k \in 1..Len(c)
  BY <1>1, <1>2
<1>4. FirstAt(d, t, m) /\ d[m] = c[m]
  BY <1>1, <1>2, <1>3 DEF FirstAt
<1>5. Found(d, t) = {d[m]}
  BY <1>1, <1>4, FoundFirst
<1> QED BY <1>4, <1>5 DEF d

\* No entry of c is of table t.
Without(c, t) == \A i \in 1..Len(c) : c[i].table # t

\* Behind entries of other tables, the first one is found.
LEMMA FoundBehind ==
    ASSUME NEW S, NEW c \in Seq(S), NEW x \in Seq(S), x # <<>>, Without(c, x[1].table)
    PROVE  Found(c \o x, x[1].table) = {x[1]}
<1> DEFINE t == x[1].table
           d == c \o x
           m == Len(c) + 1
<1>1. /\ d \in Seq(S) /\ Len(d) = Len(c) + Len(x) /\ Len(c) \in Nat /\ Len(x) \in Nat
      /\ \A i \in 1..Len(c) : d[i] = c[i]
      /\ Len(x) >= 1 /\ d[m] = x[1]
  OBVIOUS
<1> HIDE DEF d
<1>2. FirstAt(d, t, m)
  BY <1>1 DEF FirstAt, Without
<1>3. Found(d, t) = {d[m]}
  BY <1>1, <1>2, FoundFirst
<1> QED BY <1>1, <1>3 DEF d

\* The entries of the other tables.
Kept(c, t) == Selected(c, {k \in DOMAIN c : c[k].table # t})

\* They are entries, none of them of the table.
LEMMA KeptTyped ==
    ASSUME NEW S, NEW c \in Seq(S), NEW t
    PROVE  Kept(c, t) \in Seq(S) /\ Without(Kept(c, t), t)
<1> DEFINE I == {k \in DOMAIN c : c[k].table # t}
           r == Selected(c, I)
<1>1. \A k \in I : c[k].table # t
  OBVIOUS
<1>2. Kept(c, t) = r
  BY DEF Kept
<1> HIDE DEF I
<1>3. r \in Seq(S)
  BY SelectedAt
<1>4. \A i \in 1..Len(r) : \E k \in I \cap (1..Len(c)) : r[i] = c[k]
  BY SelectedElements
<1> HIDE DEF r
<1> QED BY <1>1, <1>2, <1>3, <1>4 DEF Without

\* The first entry of another table is kept, and stays the first.
LEMMA KeptFirst ==
    ASSUME NEW S, NEW c \in Seq(S), NEW t, NEW u, u # t, NEW m, FirstAt(c, u, m)
    PROVE  \E i : FirstAt(Kept(c, t), u, i) /\ Kept(c, t)[i] = c[m]
<1> DEFINE I == {k \in DOMAIN c : c[k].table # t}
           r == Selected(c, I)
<1>1. m \in 1..Len(c) /\ c[m].table = u /\ \A k \in 1..(m - 1) : c[k].table # u
  BY DEF FirstAt
<1>2. Kept(c, t) = r
  BY DEF Kept
<1>3. m \in I \cap (1..Len(c)) /\ I \cap (1..Len(c)) \subseteq Nat
  BY <1>1
<1> HIDE DEF I
<1>4. r \in Seq(S) /\ \E at : Positions(r, c, Len(c), I, at)
  BY SelectedAt
<1> HIDE DEF r
<1>5. PICK at : Positions(r, c, Len(c), I, at)
  BY <1>4
<1>6. PICK i \in 1..Len(r) : at[i] = m
  BY <1>3, <1>5 DEF Positions
<1>7. r[i] = c[m]
  BY <1>5, <1>6 DEF Positions
<1>8. ASSUME NEW k \in 1..(i - 1) PROVE r[k].table # u
  <2>1. k \in 1..Len(r) /\ k < i /\ Len(r) \in Nat
    BY <1>4
  <2>2. at[k] < at[i] /\ at[k] \in I \cap (1..Len(c)) /\ r[k] = c[at[k]]
    BY <1>5, <1>6, <2>1 DEF Positions
  <2>3. at[k] \in 1..(m - 1)
    BY <1>1, <1>3, <1>6, <2>2
  <2> QED BY <1>1, <2>2, <2>3
<1>9. FirstAt(r, u, i)
  BY <1>1, <1>7, <1>8 DEF FirstAt
<1> QED BY <1>2, <1>7, <1>9

\* The entry the generator writes.
Added(c, t, r) ==
    [table |-> t, kind |-> "multi", rules |-> Transformations(c, t, r), options |-> {}]

\* The edited configuration: what is kept, and the added entry.
LEMMA EditedIs ==
    ASSUME NEW c \in Seq(EntrySet), NEW t \in Tables, NEW r \in Rules
    PROVE  /\ Edited(c, t, r) = Append(Kept(c, t), Added(c, t, r))
           /\ Kept(c, t) \in Seq(EntrySet) /\ Added(c, t, r) \in EntrySet
           /\ Edited(c, t, r) \in Seq(EntrySet)
<1>1. Edited(c, t, r) = Append(Kept(c, t), Added(c, t, r))
  BY DEF Edited, Kept, Added
<1>2. Kept(c, t) \in Seq(EntrySet)
  BY KeptTyped
<1>3. Transformations(c, t, r) \in Seq(Rules)
  <2>1. CASE Found(c, t) = {}
    <3>1. Transformations(c, t, r) = <<>> \o <<r>>
      BY <2>1 DEF Transformations
    <3> QED BY <3>1
  <2>2. CASE Found(c, t) # {}
    <3> DEFINE e == CHOOSE e \in Found(c, t) : TRUE
    <3>1. e \in Found(c, t)
      BY <2>2
    <3>2. Transformations(c, t, r) = e.rules \o <<r>>
      BY <2>2 DEF Transformations
    <3> HIDE DEF e
    <3>3. PICK m : FirstAt(c, t, m) /\ e = c[m]
      BY <3>1, FoundHas
    <3>4. e \in EntrySet
      BY <3>3 DEF FirstAt
    <3>5. e.rules \in Seq(Rules)
      BY <3>4 DEF EntrySet
    <3> QED BY <3>2, <3>5
  <2> QED BY <2>1, <2>2
<1>4. Added(c, t, r) \in EntrySet
  BY <1>3 DEF Added, EntrySet
<1>5. \A s \in Seq(EntrySet) : \A e \in EntrySet : Append(s, e) \in Seq(EntrySet)
  OBVIOUS
<1> QED BY <1>1, <1>2, <1>4, <1>5

\* What the entry had before, and the new rule.
LEMMA AddedRules ==
    ASSUME NEW c \in Seq(EntrySet), NEW t \in Tables, NEW r \in Rules
    PROVE  /\ \A e \in Found(c, t) : Transformations(c, t, r) = Append(e.rules, r)
           /\ \E n \in 1..Len(Transformations(c, t, r)) : Transformations(c, t, r)[n] = r
<1>1. CASE Found(c, t) = {}
  <2>1. Transformations(c, t, r) = <<>> \o <<r>>
    BY <1>1 DEF Transformations
  <2>2. <<>> \o <<r>> = <<r>> /\ Len(<<r>>) = 1 /\ <<r>>[1] = r
    OBVIOUS
  <2>3. 1 \in 1..Len(Transformations(c, t, r)) /\ Transformations(c, t, r)[1] = r
    BY <2>1, <2>2
  <2> QED BY <1>1, <2>3
<1>2. CASE Found(c, t) # {}
  <2>1. PICK e : e \in Found(c, t)
    BY <1>2
  <2>2. PICK m : FirstAt(c, t, m) /\ e = c[m]
    BY <2>1, FoundHas
  <2>3. Found(c, t) = {e}
    BY <2>2, FoundFirst
  <2>4. e \in EntrySet
    BY <2>2 DEF FirstAt
  <2>5. e.rules \in Seq(Rules)
    BY <2>4 DEF EntrySet
  <2>6. (CHOOSE x \in Found(c, t) : TRUE) = e
    BY <2>3
  <2>7. Transformations(c, t, r) = e.rules \o <<r>>
    BY <1>2, <2>6 DEF Transformations
  <2>8. ASSUME NEW s \in Seq(Rules)
        PROVE  /\ s \o <<r>> = Append(s, r) /\ Len(Append(s, r)) = Len(s) + 1
               /\ Append(s, r)[Len(s) + 1] = r /\ Len(s) + 1 \in 1..Len(Append(s, r))
    OBVIOUS
  <2> QED BY <2>3, <2>5, <2>7, <2>8
<1> QED BY <1>1, <1>2

----------------------------------------------------------------------------
\* What the generator writes.

\* The first two lines, and all that is written.
Preface == <<HashLine>> \o <<GeneratedBy>>
NewText(c, t, r) == (Preface \o Formatted(Edited(c, t, r))) \o <<HashLine>>

\* They are comments.
LEMMA PrefaceIs ==
    /\ Preface \in Seq(LineSet) /\ Len(Preface) = 2
    /\ Preface[1] = HashLine /\ Preface[2] = GeneratedBy
    /\ \A i \in 1..Len(Preface) : Preface[i].kind = "comment"
    /\ <<HashLine>> \in Seq(LineSet) /\ \A i \in 1..Len(<<HashLine>>) : <<HashLine>>[i].kind = "comment"
<1>1. HashLine \in LineSet /\ GeneratedBy \in LineSet
  BY LinesTyped
<1>2. HashLine.kind = "comment" /\ GeneratedBy.kind = "comment"
  BY DEF HashLine, GeneratedBy, Line
<1>3. /\ Preface \in Seq(LineSet) /\ Len(Preface) = 2
      /\ Preface[1] = HashLine /\ Preface[2] = GeneratedBy
  BY <1>1 DEF Preface
<1>4. <<HashLine>> \in Seq(LineSet) /\ Len(<<HashLine>>) = 1 /\ <<HashLine>>[1] = HashLine
  BY <1>1
<1>5. (\A i \in 1..2 : i = 1 \/ i = 2) /\ (\A i \in 1..1 : i = 1)
  OBVIOUS
<1> QED BY <1>2, <1>3, <1>4, <1>5

\* The new text: the entries that are kept, the one that is added, and more.
LEMMA NewTextIs ==
    ASSUME NEW c \in Seq(EntrySet), NEW t \in Tables, NEW r \in Rules
    PROVE  /\ NewText(c, t, r) \in Seq(LineSet)
           /\ \A x \in Seq(LineSet) :
                 NewText(c, t, r) \o x =
                    (Preface \o Formatted(Kept(c, t)))
                    \o (EntryLines(Added(c, t, r)) \o (<<HashLine>> \o x))
<1> DEFINE k == Kept(c, t)
           a == Added(c, t, r)
           f == Formatted(k)
           b == EntryLines(a)
           p == Preface
           h == <<HashLine>>
<1>1. Edited(c, t, r) = Append(k, a) /\ k \in Seq(EntrySet) /\ a \in EntrySet
  BY EditedIs
<1> HIDE DEF k, a
<1>2. Formatted(Edited(c, t, r)) = f \o b
  BY <1>1, FormattedAppend
<1>3. f \in Seq(LineSet) /\ b \in Seq(LineSet)
  BY <1>1, FormattedTyped, EntryLinesTyped
<1>4. p \in Seq(LineSet) /\ h \in Seq(LineSet)
  BY PrefaceIs
<1>5. NewText(c, t, r) = (p \o (f \o b)) \o h
  BY <1>2 DEF NewText
<1> HIDE DEF f, b, p, h
<1>6. (p \o (f \o b)) \o h \in Seq(LineSet)
  BY <1>3, <1>4
<1>7. ASSUME NEW x \in Seq(LineSet)
      PROVE  ((p \o (f \o b)) \o h) \o x = (p \o f) \o (b \o (h \o x))
  <2>1. (p \o f) \o b = p \o (f \o b)
    BY <1>3, <1>4, LinesAssoc
  <2>2. p \o f \in Seq(LineSet) /\ h \o x \in Seq(LineSet)
    BY <1>3, <1>4
  <2> DEFINE q == p \o f
             y == h \o x
  <2>3. q \in Seq(LineSet) /\ q \o b \in Seq(LineSet)
    BY <1>3, <2>2
  <2>4. ((q \o b) \o h) \o x = (q \o b) \o y
    <3> HIDE DEF q
    <3>1. ASSUME NEW z \in Seq(LineSet) PROVE (z \o h) \o x = z \o (h \o x)
      BY <1>4, ConcatAssoc
    <3> QED BY <2>3, <3>1
  <2>5. (q \o b) \o y = q \o (b \o y)
    <3> HIDE DEF q, y
    <3>1. y \in Seq(LineSet)
      BY <2>2 DEF y
    <3>2. ASSUME NEW z \in Seq(LineSet) PROVE (z \o b) \o y = z \o (b \o y)
      BY <1>3, <3>1, LinesAssoc
    <3> QED BY <2>3, <3>2
  <2> QED BY <2>1, <2>4, <2>5
<1> QED BY <1>5, <1>6, <1>7 DEF k, a, f, b, p, h

\* It is read as the edited configuration.
LEMMA NewTextSays ==
    ASSUME NEW c \in Seq(EntrySet), NEW t \in Tables, NEW r \in Rules
    PROVE  /\ Says(NewText(c, t, r), Edited(c, t, r))
           /\ Readable(NewText(c, t, r)) /\ Parses(NewText(c, t, r))
<1> DEFINE k == Kept(c, t)
           a == Added(c, t, r)
           q == Preface \o Formatted(k)
           h == <<HashLine>>
           N == NewText(c, t, r)
           none == SubSeq(h, 1, 0)
<1>1. Edited(c, t, r) = Append(k, a) /\ k \in Seq(EntrySet) /\ a \in EntrySet
      /\ Edited(c, t, r) \in Seq(EntrySet)
  BY EditedIs
<1>2. h \in Seq(LineSet) /\ \A i \in 1..Len(h) : h[i].kind = "comment"
  BY PrefaceIs
<1>3. N \in Seq(LineSet) /\ \A x \in Seq(LineSet) : N \o x = q \o (EntryLines(a) \o (h \o x))
  BY NewTextIs
<1>4. none = <<>>
  BY <1>2
<1>5. none \in Seq(LineSet)
  OBVIOUS
<1> HIDE DEF k, a, N, h, none
<1>6. Says(q, k)
  BY <1>1, PrefaceIs, RoundTrip
<1> HIDE DEF q
<1>7. Says(q \o (EntryLines(a) \o h), Append(k, a))
  BY <1>1, <1>2, <1>6, TextAppend
<1>8. N = q \o (EntryLines(a) \o h)
  <2>1. N \o <<>> = N /\ h \o <<>> = h
    BY <1>2, <1>3
  <2>2. N \o none = q \o (EntryLines(a) \o (h \o none))
    BY <1>3, <1>5
  <2> QED BY <1>4, <2>1, <2>2
<1>9. Says(N, Append(k, a))
  BY <1>7, <1>8
<1>10. Heads(N) # {}
  <2> SUFFICES ASSUME Heads(N) = {} PROVE FALSE
    OBVIOUS
  <2> DEFINE E == Entries(N)
  <2>1. E \in Seq({E[i] : i \in 1..Len(N)})
    BY <1>3, EntriesAre
  <2> HIDE DEF E
  <2>2. Selected(E, {}) = <<>>
    <3>1. \A i \in 1..Len(E) : i \notin {}
      OBVIOUS
    <3> QED BY <2>1, <3>1, SelectedNone
  <2>3. Config(N) = <<>>
    BY <2>2 DEF Config, E
  <2>4. Append(k, a) # <<>>
    BY <1>1
  <2> QED BY <1>9, <2>3, <2>4 DEF Says
<1>11. Readable(N) /\ Parses(N)
  BY <1>3, <1>9, <1>10, SoundParses DEF Says
<1> QED BY <1>1, <1>9, <1>11 DEF N

\* What is behind an entry can only lie behind its rules.
LEMMA EntryBehind ==
    ASSUME NEW e \in EntrySet, e.kind = "multi", NEW v \in Seq(LineSet)
    PROVE  /\ 1 \in Heads(EntryLines(e) \o v)
           /\ Entry(Block(EntryLines(e) \o v, 1)).table = e.table
           /\ \E w \in Seq(AllNames) : Entry(Block(EntryLines(e) \o v, 1)).rules = e.rules \o w
<1> DEFINE b == EntryLines(e)
           T == b \o v
<1>1. b \in Seq(LineSet) /\ Laid(b, e)
  BY EntryLinesTyped, EntryLinesLaid
<1> HIDE DEF b
<1>2. /\ T \in Seq(LineSet) /\ Len(T) = Len(b) + Len(v) /\ Len(b) \in Nat /\ Len(v) \in Nat
      /\ \A i \in 1..Len(b) : T[i] = b[i]
      /\ \A n \in Len(b)..Len(T) : SubSeq(T, 1, n) = b \o SubSeq(v, 1, n - Len(b))
  <2>1. /\ T \in Seq(LineSet) /\ Len(T) = Len(b) + Len(v) /\ Len(b) \in Nat /\ Len(v) \in Nat
        /\ \A i \in 1..Len(b) : T[i] = b[i]
        /\ \A i \in 1..Len(v) : T[i + Len(b)] = v[i]
    BY <1>1
  <2> HIDE DEF T
  <2>2. ASSUME NEW n \in Len(b)..Len(T) PROVE SubSeq(T, 1, n) = b \o SubSeq(v, 1, n - Len(b))
    <3> DEFINE z == SubSeq(T, 1, n)
               y == SubSeq(v, 1, n - Len(b))
    <3>1. n - Len(b) \in 0..Len(v) /\ n \in 0..Len(T)
      BY <2>1
    <3>2. z \in Seq(LineSet) /\ Len(z) = n /\ \A i \in 1..n : z[i] = T[i]
      BY <2>1, <3>1
    <3>3. /\ y \in Seq(LineSet) /\ Len(y) = n - Len(b)
          /\ \A i \in 1..(n - Len(b)) : y[i] = v[i]
      BY <3>1
    <3> HIDE DEF z, y
    <3>4. \A i \in 1..Len(b) : z[i] = b[i]
      BY <2>1, <3>1, <3>2
    <3>5. \A i \in 1..Len(y) : z[i + Len(b)] = y[i]
      <4> SUFFICES ASSUME NEW i \in 1..Len(y) PROVE z[i + Len(b)] = y[i]
        OBVIOUS
      <4>1. i \in 1..Len(v) /\ i + Len(b) \in 1..n
        BY <2>1, <3>1, <3>3
      <4> QED BY <2>1, <3>2, <3>3, <4>1
    <3>6. Joins(z, b, y)
      BY <2>1, <3>1, <3>2, <3>3, <3>4, <3>5 DEF Joins
    <3>7. z = b \o y
      BY <1>1, <3>2, <3>3, <3>6, JoinIsConcat
    <3> QED BY <3>7 DEF z, y
  <2> QED BY <2>1, <2>2
<1> HIDE DEF T
<1>3. /\ Len(b) >= 1 /\ b[1].kind \in {"multi", "single"}
      /\ \A i \in 2..Len(b) : b[i].kind \in {"key", "rule", "filter"}
  BY <1>1 DEF Laid, EntrySet
<1>4. 1 \in Heads(T) /\ \A i \in 2..Len(b) : i \notin Heads(T)
  <2>1. \A i \in 1..Len(T) : i \in Heads(T) <=> T[i].kind \in {"multi", "single"}
    BY <1>2, HeadsAt
  <2>2. 1 \in 1..Len(T) /\ 1 \in 1..Len(b) /\ \A i \in 2..Len(b) : i \in 1..Len(T) /\ i \in 1..Len(b)
    BY <1>2, <1>3
  <2> QED BY <1>2, <1>3, <2>1, <2>2
<1>5. PICK n : EndsAt(T, 1, n)
  BY <1>2, <1>4, BlockEnds
<1>6. n \in Len(b)..Len(T)
  <2>1. n \in 1..Len(T) /\ (n = Len(T) \/ n + 1 \in Heads(T))
    BY <1>5 DEF EndsAt
  <2>2. ASSUME n < Len(b) PROVE FALSE
    <3>1. n + 1 \in 2..Len(b) /\ n # Len(T)
      BY <1>2, <2>1, <2>2
    <3> QED BY <1>4, <2>1, <3>1
  <2> QED BY <1>2, <2>1, <2>2
<1> DEFINE y == SubSeq(v, 1, n - Len(b))
<1>7. y \in Seq(LineSet) /\ Block(T, 1) = b \o y
  <2>1. n - Len(b) \in 0..Len(v)
    BY <1>2, <1>6
  <2>2. Block(T, 1) = SubSeq(T, 1, n)
    BY <1>2, <1>5, BlockIs
  <2>3. \A m \in 0..Len(v) : SubSeq(v, 1, m) \in Seq(LineSet)
    OBVIOUS
  <2> QED BY <1>2, <1>6, <2>1, <2>2, <2>3
<1> HIDE DEF y
<1>8. Entry(b \o y).table = e.table /\ Entry(b \o y).rules = e.rules \o Names(Named(y, "rule"))
  BY <1>1, <1>7, ReadRules
<1>9. Names(Named(y, "rule")) \in Seq(AllNames)
  <2>1. ASSUME NEW z, z = Named(y, "rule") PROVE Names(z) \in Seq(AllNames)
    <3>1. z \in Seq(LineSet)
      BY <1>7, <2>1, NamedTyped
    <3> QED BY <3>1, NamesTyped
  <2> QED BY <2>1
<1> QED BY <1>4, <1>7, <1>8, <1>9 DEF b, T

\* n is the kept entries, and then one that begins with the rules of the added
\* one.
Follows(n, c, t, r) ==
    \E Y \in Seq(EntrySet) :
       /\ n = Kept(c, t) \o Y
       /\ Y # <<>> /\ Y[1].table = t
       /\ \E w \in Seq(AllNames) : Y[1].rules = Transformations(c, t, r) \o w

\* Old text behind the new one is read into its last entry, or behind it.
LEMMA NewTextBehind ==
    ASSUME NEW c \in Seq(EntrySet), NEW t \in Tables, NEW r \in Rules, NEW x \in Seq(LineSet)
    PROVE  Follows(Config(NewText(c, t, r) \o x), c, t, r)
<1> DEFINE k == Kept(c, t)
           a == Added(c, t, r)
           q == Preface \o Formatted(k)
           h == <<HashLine>>
           N == NewText(c, t, r)
           v == h \o x
           T == EntryLines(a) \o v
           Y == Config(T)
<1>1. k \in Seq(EntrySet) /\ a \in EntrySet
  BY EditedIs
<1>2. a.kind = "multi" /\ a.table = t /\ a.rules = Transformations(c, t, r)
  BY DEF Added
<1>3. N \o x = q \o T
  BY NewTextIs
<1>4. v \in Seq(LineSet)
  BY PrefaceIs
<1> HIDE DEF v
<1>5. T \in Seq(LineSet)
  BY <1>1, <1>4, EntryLinesTyped
<1>6. /\ 1 \in Heads(T) /\ Entry(Block(T, 1)).table = t
      /\ \E w \in Seq(AllNames) : Entry(Block(T, 1)).rules = a.rules \o w
  <2> HIDE DEF a
  <2>1. /\ 1 \in Heads(T) /\ Entry(Block(T, 1)).table = a.table
        /\ \E w \in Seq(AllNames) : Entry(Block(T, 1)).rules = a.rules \o w
    BY <1>1, <1>2, <1>4, EntryBehind
  <2> QED BY <1>2, <2>1
<1> HIDE DEF k, N
<1>7. Says(q, k)
  BY <1>1, PrefaceIs, RoundTrip
<1> HIDE DEF q, T, a
<1>8. q \in Seq(LineSet) /\ Config(q) = k
  BY <1>7 DEF Says
<1>9. Config(q \o T) = k \o Y
  BY <1>5, <1>6, <1>8, ConfigConcat
<1>10. Y # <<>> /\ Y[1] = Entry(Block(T, 1))
  BY <1>5, <1>6, ConfigFirst
<1>11. Y \in Seq(EntrySet)
  BY <1>5, ConfigTyped
<1> HIDE DEF Y
<1>12. \E w \in Seq(AllNames) : Y[1].rules = Transformations(c, t, r) \o w
  BY <1>2, <1>6, <1>10
<1>13. Config(N \o x) = k \o Y
  BY <1>3, <1>9
<1> QED BY <1>6, <1>10, <1>11, <1>12, <1>13 DEF k, N, Follows

\* A prefix, and what is appended.
LEMMA PrefixOfConcat ==
    ASSUME NEW S, NEW s \in Seq(S), NEW w
    PROVE  \A T : w \in Seq(T) => IsPrefix(s, s \o w)
<1> SUFFICES ASSUME NEW T, w \in Seq(T) PROVE IsPrefix(s, s \o w)
  OBVIOUS
<1> DEFINE v == s \o w
<1>1. s \in Seq(S \cup T) /\ w \in Seq(S \cup T)
  OBVIOUS
<1>2. /\ v \in Seq(S \cup T) /\ Len(v) = Len(s) + Len(w) /\ Len(s) \in Nat /\ Len(w) \in Nat
      /\ \A i \in 1..Len(s) : v[i] = s[i]
  BY <1>1
<1> HIDE DEF v
<1> DEFINE p == SubSeq(s, 1, Len(s))
           q == SubSeq(v, 1, Len(s))
<1>3. p \in Seq(S \cup T) /\ Len(p) = Len(s) /\ \A i \in 1..Len(s) : p[i] = s[i]
  BY <1>1
<1>4. q \in Seq(S \cup T) /\ Len(q) = Len(s) /\ \A i \in 1..Len(s) : q[i] = v[i]
  BY <1>2
<1> HIDE DEF p, q
<1>5. p = q
  BY <1>2, <1>3, <1>4, SeqEqual
<1>6. IsPrefix(s, v)
  BY <1>2, <1>5 DEF IsPrefix, p, q
<1> QED BY <1>6 DEF v

\* What NoRuleLost says of a configuration that was, d, and one that is, n.
NoneLost(d, n, t, r) ==
    /\ \A u \in Tables \ {t} : \A old \in Found(d, u) : Found(n, u) = {old}
    /\ \E e \in Found(n, t) :
          /\ r \in ToSet(e.rules)
          /\ \A old \in Found(d, t) : IsPrefix(Append(old.rules, r), e.rules)

\* So nothing is lost.
LEMMA NewTextKeeps ==
    ASSUME NEW c \in Seq(EntrySet), NEW t \in Tables, NEW r \in Rules, NEW x \in Seq(LineSet)
    PROVE  NoneLost(c, Config(NewText(c, t, r) \o x), t, r)
<1> DEFINE k == Kept(c, t)
           n == Config(NewText(c, t, r) \o x)
           f == Transformations(c, t, r)
<1>1. PICK Y \in Seq(EntrySet) :
              /\ n = k \o Y
              /\ Y # <<>> /\ Y[1].table = t
              /\ \E w \in Seq(AllNames) : Y[1].rules = f \o w
  <2>1. Follows(n, c, t, r)
    BY NewTextBehind
  <2> HIDE DEF n
  <2> QED BY <2>1 DEF Follows
<1> HIDE DEF n
<1>2. k \in Seq(EntrySet) /\ Without(k, t)
  BY KeptTyped
<1>3. ASSUME NEW u \in Tables \ {t}, NEW old \in Found(c, u) PROVE Found(n, u) = {old}
  <2>1. PICK m : FirstAt(c, u, m) /\ old = c[m]
    BY <1>3, FoundHas
  <2>2. PICK i : FirstAt(k, u, i) /\ k[i] = old
    BY <1>3, <2>1, KeptFirst
  <2> HIDE DEF k
  <2>3. Found(k \o Y, u) = {k[i]}
    BY <1>2, <2>2, FoundBefore
  <2> QED BY <1>1, <2>2, <2>3
<1>4. Found(n, t) = {Y[1]}
  <2> HIDE DEF k
  <2>1. ASSUME NEW y \in Seq(EntrySet), y # <<>>, y[1].table = t
        PROVE  Found(k \o y, t) = {y[1]}
    BY <1>2, <2>1, FoundBehind
  <2> QED BY <1>1, <2>1
<1>5. f \in Seq(Rules)
  <2>1. Added(c, t, r) \in EntrySet
    BY EditedIs
  <2>2. Added(c, t, r).rules = f
    BY DEF Added
  <2> HIDE DEF f
  <2> QED BY <2>1, <2>2 DEF EntrySet
<1>6. (\A old \in Found(c, t) : f = Append(old.rules, r)) /\ (\E i \in 1..Len(f) : f[i] = r)
  BY AddedRules
<1> HIDE DEF f, k
<1>7. PICK w \in Seq(AllNames) : Y[1].rules = f \o w
  BY <1>1
<1>8. IsPrefix(f, f \o w)
  BY <1>5, PrefixOfConcat
<1>9. r \in ToSet(f \o w)
  <2>1. PICK i \in 1..Len(f) : f[i] = r
    BY <1>6
  <2>2. i \in DOMAIN (f \o w) /\ (f \o w)[i] = r
    BY <1>5, <2>1
  <2> QED BY <2>2 DEF ToSet
<1> QED BY <1>3, <1>4, <1>6, <1>7, <1>8, <1>9 DEF NoneLost, n

----------------------------------------------------------------------------
\* What lies where while the generator writes.

\* The text f of a file, written up to pos, begins with p; what is left of the
\* old text o lies behind it.
Lies(f, pos, o, p) ==
    /\ Len(p) <= Len(f) /\ SubSeq(f, 1, Len(p)) = p /\ pos = Len(p)
    /\ Len(f) = Len(p) \/ Len(f) = Len(o)

\* The same of the file, as long as every write was whole.
Written(p) == whole => Lies(file, position, original, p)

\* The lines of the tables.
TableLines == Formatted(Edited(Loaded(original), table, rule))

\* The first two lines change nothing if they are there.
HeaderSame == whole /\ Generated(original) => file = original

\* What is written and what is still to be written.
Progress ==
    \/ /\ chunks = <<<<HashLine>>, <<GeneratedBy>>, TableLines, <<HashLine>>>>
       /\ Written(<<>>) /\ HeaderSame
    \/ /\ chunks = <<<<GeneratedBy>>, TableLines, <<HashLine>>>>
       /\ Written(<<HashLine>>) /\ HeaderSame
    \/ chunks = <<TableLines, <<HashLine>>>> /\ Written(Preface) /\ HeaderSame
    \/ chunks = <<<<HashLine>>>> /\ Written(Preface \o TableLines)
    \/ chunks = <<>> /\ Written((Preface \o TableLines) \o <<HashLine>>)

\* The inductive invariant.  After a short write it says nothing of the file.
GeneratorInv ==
    /\ TypeOK
    /\ stage \in {"write", "killed", "done"} => Progress
    /\ stage = "write" => chunks # <<>>
    /\ stage = "done" => chunks = <<>>

\* What is loaded is a configuration.
LEMMA LoadedTyped ==
    ASSUME NEW text \in Seq(LineSet)
    PROVE  Loaded(text) \in Seq(EntrySet)
<1>1. <<>> \in Seq(EntrySet)
  OBVIOUS
<1> QED BY <1>1, ConfigTyped DEF Loaded

\* The lines of an edited configuration: there is at least one.
LEMMA TableLinesTyped ==
    ASSUME NEW c \in Seq(EntrySet), NEW t \in Tables, NEW r \in Rules
    PROVE  /\ Formatted(Edited(c, t, r)) \in Seq(LineSet)
           /\ Len(Formatted(Edited(c, t, r))) >= 1
<1> DEFINE k == Kept(c, t)
           a == Added(c, t, r)
<1>1. Edited(c, t, r) = Append(k, a) /\ k \in Seq(EntrySet) /\ a \in EntrySet
  BY EditedIs
<1> HIDE DEF k, a
<1>2. Formatted(Edited(c, t, r)) = Formatted(k) \o EntryLines(a)
  BY <1>1, FormattedAppend
<1>3. Formatted(k) \in Seq(LineSet)
  BY <1>1, FormattedTyped
<1>4. EntryLines(a) \in Seq(LineSet) /\ Len(EntryLines(a)) >= 1
  BY <1>1, EntryLinesLaid DEF Laid
<1>5. ASSUME NEW f \in Seq(LineSet), NEW b \in Seq(LineSet), Len(b) >= 1
      PROVE  f \o b \in Seq(LineSet) /\ Len(f \o b) >= 1
  BY <1>5
<1> QED BY <1>2, <1>3, <1>4, <1>5

\* A cut line is a line.
LEMMA CutTyped ==
    ASSUME NEW l \in LineSet
    PROVE  Cut(l) \subseteq LineSet
BY LinesTyped DEF Cut

\* f is the text b with s from n on, and maybe a line cut.
LiesOver(f, b, n, s) ==
    /\ f \in Seq(LineSet) /\ n + Len(s) <= Len(f)
    /\ SubSeq(f, 1, n + Len(s)) = SubSeq(b, 1, n) \o s
    /\ Len(f) = n + Len(s) \/ Len(f) = Len(b)

\* A text of three parts.
LEMMA OverIs ==
    ASSUME NEW a \in Seq(LineSet), NEW s \in Seq(LineSet), NEW rest \in Seq(LineSet)
    PROVE  LET f == (a \o s) \o rest
           IN  /\ f \in Seq(LineSet) /\ Len(f) = Len(a) + Len(s) + Len(rest)
               /\ SubSeq(f, 1, Len(a) + Len(s)) = a \o s
<1> DEFINE p == a \o s
           f == p \o rest
           m == Len(a) + Len(s)
           q == SubSeq(f, 1, m)
<1>1. p \in Seq(LineSet) /\ Len(p) = m /\ m \in Nat /\ Len(rest) \in Nat
  OBVIOUS
<1> HIDE DEF p, m
<1>2. f \in Seq(LineSet) /\ Len(f) = m + Len(rest) /\ \A i \in 1..m : f[i] = p[i]
  <2>1. f \in Seq(LineSet) /\ Len(f) = Len(p) + Len(rest) /\ \A i \in 1..Len(p) : f[i] = p[i]
    <3>1. ASSUME NEW u \in Seq(LineSet)
          PROVE  /\ u \o rest \in Seq(LineSet) /\ Len(u \o rest) = Len(u) + Len(rest)
                 /\ \A i \in 1..Len(u) : (u \o rest)[i] = u[i]
      OBVIOUS
    <3> QED BY <1>1, <3>1
  <2> HIDE DEF f
  <2> QED BY <1>1, <2>1
<1> HIDE DEF f
<1>3. q \in Seq(LineSet) /\ Len(q) = m /\ \A i \in 1..m : q[i] = f[i]
  BY <1>1, <1>2
<1> HIDE DEF q
<1>4. q = p
  BY <1>1, <1>2, <1>3, SeqEqual
<1> QED BY <1>1, <1>2, <1>4 DEF f, p, q, m

\* Overwritten is that.
LEMMA OverwrittenIs ==
    ASSUME file \in Seq(LineSet), position \in 0..Len(file),
           NEW s \in Seq(LineSet), NEW f \in Overwritten(s)
    PROVE  LiesOver(f, file, position, s)
<1> DEFINE a == SubSeq(file, 1, position)
           end == position + Len(s)
           rest == SubSeq(file, end + 1, Len(file))
<1>1. a \in Seq(LineSet) /\ Len(a) = position
  OBVIOUS
<1>2. Len(s) \in Nat /\ Len(file) \in Nat /\ position \in Nat /\ end \in Nat
  OBVIOUS
<1>3. /\ rest \in Seq(LineSet)
      /\ Len(rest) = IF end <= Len(file) THEN Len(file) - end ELSE 0
  BY <1>2
<1>4. f = (a \o s) \o rest
      \/ (rest # <<>> /\ \E l \in Cut(Head(rest)) : f = ((a \o s) \o <<l>>) \o Tail(rest))
  BY DEF Overwritten
<1> HIDE DEF a, rest
<1>5. \E v \in Seq(LineSet) : Len(v) = Len(rest) /\ f = (a \o s) \o v
  <2>1. CASE f = (a \o s) \o rest
    BY <1>3, <2>1
  <2>2. ASSUME rest # <<>>, NEW l \in Cut(Head(rest)), f = ((a \o s) \o <<l>>) \o Tail(rest)
        PROVE  \E v \in Seq(LineSet) : Len(v) = Len(rest) /\ f = (a \o s) \o v
    <3>1. Head(rest) \in LineSet /\ Tail(rest) \in Seq(LineSet) /\ Len(Tail(rest)) = Len(rest) - 1
      BY <1>3, <2>2
    <3>2. l \in LineSet
      BY <3>1, CutTyped
    <3> DEFINE w == Tail(rest)
               p == a \o s
               c == <<l>>
    <3>3. w \in Seq(LineSet) /\ p \in Seq(LineSet) /\ c \in Seq(LineSet)
      BY <1>1, <3>1, <3>2
    <3>4. c \o w \in Seq(LineSet) /\ Len(c \o w) = Len(rest)
      BY <1>3, <3>1, <3>2
    <3>5. f = (p \o c) \o w
      BY <2>2
    <3> HIDE DEF w, p, c
    <3>6. (p \o c) \o w = p \o (c \o w)
      BY <3>3, LinesAssoc
    <3>7. f = p \o (c \o w)
      BY <3>5, <3>6
    <3> QED BY <3>4, <3>7 DEF p
  <2> QED BY <1>4, <2>1, <2>2
<1>6. PICK v \in Seq(LineSet) : Len(v) = Len(rest) /\ f = (a \o s) \o v
  BY <1>5
<1>7. /\ f \in Seq(LineSet) /\ Len(f) = Len(a) + Len(s) + Len(v)
      /\ SubSeq(f, 1, Len(a) + Len(s)) = a \o s
  BY <1>1, <1>6, OverIs
<1>8. Len(f) = end + Len(v) /\ Len(v) \in Nat
  BY <1>1, <1>2, <1>6, <1>7
<1>9. end <= Len(f) /\ (Len(f) = end \/ Len(f) = Len(file))
  <2> HIDE DEF end
  <2>1. CASE end <= Len(file)
    BY <1>2, <1>3, <1>6, <1>8, <2>1
  <2>2. CASE ~(end <= Len(file))
    BY <1>2, <1>3, <1>6, <1>8, <2>2
  <2> QED BY <2>1, <2>2
<1>10. SubSeq(f, 1, end) = SubSeq(file, 1, position) \o s
  BY <1>1, <1>7 DEF a
<1> QED BY <1>7, <1>9, <1>10 DEF LiesOver

\* A whole write.
LEMMA WholeWrite ==
    ASSUME file \in Seq(LineSet), NEW p \in Seq(LineSet), NEW s \in Seq(LineSet),
           NEW f, LiesOver(f, file, position, s),
           original \in Seq(LineSet), Lies(file, position, original, p)
    PROVE  Lies(f, position + Len(s), original, p \o s)
<1>1. /\ f \in Seq(LineSet) /\ position + Len(s) <= Len(f)
      /\ SubSeq(f, 1, position + Len(s)) = SubSeq(file, 1, position) \o s
      /\ Len(f) = position + Len(s) \/ Len(f) = Len(file)
  BY DEF LiesOver
<1>2. /\ Len(p) <= Len(file) /\ SubSeq(file, 1, Len(p)) = p /\ position = Len(p)
      /\ Len(file) = Len(p) \/ Len(file) = Len(original)
  BY DEF Lies
<1>3. /\ Len(p) \in Nat /\ Len(s) \in Nat /\ Len(f) \in Nat /\ Len(file) \in Nat
      /\ Len(original) \in Nat /\ Len(p \o s) = Len(p) + Len(s)
  BY <1>1
<1>4. SubSeq(f, 1, Len(p \o s)) = p \o s
  BY <1>1, <1>2, <1>3
<1>5. Len(f) = Len(p \o s) \/ Len(f) = Len(original)
  BY <1>1, <1>2, <1>3
<1> QED BY <1>1, <1>2, <1>3, <1>4, <1>5 DEF Lies

\* A line that is there already is written over itself.
LEMMA SameLine ==
    ASSUME file \in Seq(LineSet), NEW n \in Nat, n < Len(file), position = n,
           NEW f \in Overwritten(<<file[n + 1]>>)
    PROVE  f = file
<1> DEFINE s == <<file[n + 1]>>
           a == SubSeq(file, 1, n)
           rest == SubSeq(file, n + 2, Len(file))
<1>1. Len(s) = 1 /\ s \in Seq(LineSet) /\ s[1] = file[n + 1]
  OBVIOUS
<1>2. s = SubSeq(file, n + 1, n + 1)
  <2> DEFINE q == SubSeq(file, n + 1, n + 1)
  <2>1. q \in Seq(LineSet) /\ Len(q) = 1 /\ q[1] = file[n + 1]
    OBVIOUS
  <2> HIDE DEF q, s
  <2>2. \A i \in 1..1 : q[i] = s[i]
    BY <1>1, <2>1
  <2> QED BY <1>1, <2>1, <2>2, SeqEqual DEF q
<1>3. (n + 1) + 1 = n + 2
  OBVIOUS
<1>4. f \in {(a \o s) \o rest}
  <2> HIDE DEF s
  <2>1. position + Len(s) = n + 1 /\ position + 1 = n + 1
    BY <1>1
  <2>2. f \in Overwritten(s)
    BY DEF s
  <2> QED BY <1>2, <1>3, <2>1, <2>2 DEF Overwritten
<1>5. a \o s = SubSeq(file, 1, n + 1)
  <2> DEFINE q == SubSeq(file, 1, n + 1)
  <2>1. a \in Seq(LineSet) /\ Len(a) = n /\ \A i \in 1..n : a[i] = file[i]
    OBVIOUS
  <2>2. q \in Seq(LineSet) /\ Len(q) = n + 1 /\ \A i \in 1..(n + 1) : q[i] = file[i]
    OBVIOUS
  <2> HIDE DEF a, q, s
  <2>3. Joins(q, a, s)
    <3>1. \A i \in 1..1 : q[i + n] = s[i]
      BY <1>1, <2>2
    <3> QED BY <1>1, <2>1, <2>2, <3>1 DEF Joins
  <2>4. q = a \o s
    BY <1>1, <2>1, <2>2, <2>3, JoinIsConcat
  <2> QED BY <2>4 DEF q
<1>6. file = SubSeq(file, 1, n + 1) \o rest
  <2> DEFINE m == n + 1
  <2>1. m \in 0..Len(file) /\ m + 1 = n + 2
    OBVIOUS
  <2> HIDE DEF m
  <2>2. file = SubSeq(file, 1, m) \o SubSeq(file, m + 1, Len(file))
    BY <2>1, SplitAt
  <2> QED BY <2>1, <2>2 DEF m
<1> QED BY <1>4, <1>5, <1>6

\* How a generated file begins.
LEMMA GeneratedStarts ==
    ASSUME NEW text \in Seq(LineSet), Generated(text)
    PROVE  Len(text) > 2 /\ text[1] = HashLine /\ text[2] = GeneratedBy
<1> DEFINE p == SubSeq(text, 1, 2)
<1>1. Len(text) > 2 /\ p = <<HashLine, GeneratedBy>>
  BY DEF Generated
<1>2. p[1] = text[1] /\ p[2] = text[2]
  BY <1>1
<1> HIDE DEF p
<1>3. p[1] = HashLine /\ p[2] = GeneratedBy
  BY <1>1
<1> QED BY <1>1, <1>2, <1>3

\* Initially: the generator has not run.
LEMMA GeneratorInit == Init => GeneratorInv
<1> SUFFICES ASSUME Init PROVE GeneratorInv
  OBVIOUS
<1>1. file \in Seq(LineSet) /\ MaxEdits \in Nat
  BY FilesAssumption DEF Init
<1>2. table \in Tables /\ rule \in Rules
  BY FilesAssumption DEF Init
<1>3. chunks = <<>> /\ position = 0 /\ stage = "off"
  BY DEF Init
<1>4. <<>> \in Seq(Seq(LineSet)) /\ Len(<<>>) = 0 /\ Len(file) \in Nat
  BY <1>1
<1>5. TypeOK
  BY <1>1, <1>2, <1>3, <1>4 DEF Init, TypeOK
<1> QED BY <1>3, <1>5 DEF GeneratorInv

\* The answers are given: nothing is written yet.
LEMMA GeneratorEdit ==
    ASSUME GeneratorInv, NEW t \in Tables, NEW r \in Rules, Edit(t, r)
    PROVE  GeneratorInv'
<1>1. TypeOK
  BY DEF GeneratorInv
<1>2. /\ edits' = edits + 1 /\ edits < MaxEdits
      /\ table' = t /\ rule' = r /\ original' = file /\ whole' = TRUE
  BY DEF Edit
<1>3. file \in Seq(LineSet) /\ edits' \in 0..MaxEdits
  BY <1>1, <1>2, FilesAssumption DEF TypeOK
<1>4. CASE stage' = "panicked" /\ UNCHANGED <<file, chunks, position>>
  <2>1. TypeOK'
    BY <1>1, <1>2, <1>3, <1>4 DEF TypeOK
  <2> QED BY <1>4, <2>1 DEF GeneratorInv
<1> DEFINE F == Formatted(Edited(Loaded(file), t, r))
           A == <<<<HashLine>>, <<GeneratedBy>>, F, <<HashLine>>>>
<1>5. ASSUME stage' = "write", file' = Opened, chunks' = A, position' = 0
      PROVE  GeneratorInv'
  <2>1. F \in Seq(LineSet)
    <3>1. Loaded(file) \in Seq(EntrySet)
      BY <1>3, LoadedTyped
    <3> QED BY <3>1, TableLinesTyped
  <2>2. TableLines' = F
    BY <1>2 DEF TableLines
  <2> HIDE DEF F
  <2>3. A \in Seq(Seq(LineSet)) /\ Len(A) = 4 /\ A # <<>>
    <3>1. <<HashLine>> \in Seq(LineSet) /\ <<GeneratedBy>> \in Seq(LineSet)
      BY LinesTyped
    <3> QED BY <2>1, <3>1
  <2>4. file' = file
    BY <1>5 DEF Opened
  <2>5. position' \in 0..Len(file')
    BY <1>3, <1>5, <2>4
  <2>6. TypeOK'
    BY <1>2, <1>3, <1>5, <2>3, <2>4, <2>5 DEF TypeOK
  <2>7. Lies(file', position', original', <<>>)
    <3>1. Len(<<>>) = 0 /\ SubSeq(file, 1, 0) = <<>> /\ Len(file) >= 0
      BY <1>3
    <3> QED BY <1>2, <1>5, <2>4, <3>1 DEF Lies
  <2>8. HeaderSame'
    BY <1>2, <2>4 DEF HeaderSame
  <2>9. Progress'
    BY <1>5, <2>2, <2>7, <2>8 DEF Progress, Written
  <2> QED BY <1>5, <2>3, <2>6, <2>9 DEF GeneratorInv
<1> QED BY <1>4, <1>5 DEF Edit

\* A write of any length keeps the types.
LEMMA WriteTyped ==
    ASSUME TypeOK, Write, chunks # <<>>
    PROVE  /\ TypeOK'
           /\ \A m \in Nat : Len(chunks) = m + 1 => Len(chunks') = m
<1>1. PICK n \in 0..Len(Head(chunks)) :
          /\ file' \in Overwritten(SubSeq(Head(chunks), 1, n))
          /\ position' = position + n
          /\ whole' = (whole /\ n = Len(Head(chunks)))
  BY DEF Write
<1>2. /\ chunks' = Tail(chunks) /\ stage' \in {"done", "write"}
      /\ table' = table /\ rule' = rule /\ original' = original /\ edits' = edits
  BY DEF Write, answers
<1>3. Head(chunks) \in Seq(LineSet) /\ Tail(chunks) \in Seq(Seq(LineSet))
      /\ Len(Tail(chunks)) = Len(chunks) - 1 /\ Len(chunks) \in Nat
  BY DEF TypeOK
<1> DEFINE s == SubSeq(Head(chunks), 1, n)
<1>4. s \in Seq(LineSet) /\ Len(s) = n
  <2>1. ASSUME NEW c \in Seq(LineSet), NEW k \in 0..Len(c)
        PROVE  SubSeq(c, 1, k) \in Seq(LineSet) /\ Len(SubSeq(c, 1, k)) = k
    OBVIOUS
  <2> QED BY <1>3, <2>1
<1> HIDE DEF s
<1>5. LiesOver(file', file, position, s)
  <2>1. file \in Seq(LineSet) /\ position \in 0..Len(file) /\ file' \in Overwritten(s)
    BY <1>1 DEF TypeOK, s
  <2> QED BY <1>4, <2>1, OverwrittenIs
<1>6. file' \in Seq(LineSet) /\ position + n <= Len(file')
  BY <1>4, <1>5 DEF LiesOver
<1>7. position' \in 0..Len(file')
  <2>1. position \in Nat /\ n \in Nat
    BY <1>3 DEF TypeOK
  <2> QED BY <1>1, <1>6, <2>1
<1>8. TypeOK'
  BY <1>1, <1>2, <1>3, <1>6, <1>7 DEF TypeOK
<1>9. \A m \in Nat : Len(chunks) = m + 1 => Len(chunks') = m
  BY <1>2, <1>3
<1> QED BY <1>8, <1>9

\* A chunk behind p: then the file begins with p and the chunk.
LEMMA WriteWritten ==
    ASSUME TypeOK, Write, NEW p \in Seq(LineSet), NEW s \in Seq(LineSet),
           chunks # <<>>, Head(chunks) = s, Written(p)
    PROVE  /\ whole' => Lies(file', position', original', p \o s)
           /\ whole' => whole /\ file' \in Overwritten(s)
<1> SUFFICES ASSUME whole'
             PROVE  /\ Lies(file', position', original', p \o s)
                    /\ whole /\ file' \in Overwritten(s)
  OBVIOUS
<1>1. PICK n \in 0..Len(s) :
          /\ file' \in Overwritten(SubSeq(s, 1, n))
          /\ position' = position + n
          /\ whole' = (whole /\ n = Len(s))
  BY DEF Write
<1>2. whole /\ n = Len(s)
  BY <1>1
<1>3. SubSeq(s, 1, n) = s
  BY <1>2
<1>4. file' \in Overwritten(s) /\ position' = position + Len(s)
  BY <1>1, <1>2, <1>3
<1>5. LiesOver(file', file, position, s)
  BY <1>4, OverwrittenIs DEF TypeOK
<1>6. Lies(file, position, original, p)
  BY <1>2 DEF Written
<1>7. Lies(file', position + Len(s), original, p \o s)
  BY <1>5, <1>6, WholeWrite DEF TypeOK
<1>8. original' = original
  BY DEF Write, answers
<1> QED BY <1>2, <1>4, <1>7, <1>8

\* The first two lines of a generated file are written over themselves.
LEMMA WriteHeader ==
    ASSUME TypeOK, HeaderSame, NEW n \in 0..1, whole => position = n,
           NEW l, l = IF n = 0 THEN HashLine ELSE GeneratedBy,
           original' = original, whole' => whole /\ file' \in Overwritten(<<l>>)
    PROVE  HeaderSame'
<1> SUFFICES ASSUME whole', Generated(original) PROVE file' = original
  BY DEF HeaderSame
<1>1. whole /\ file = original /\ file' \in Overwritten(<<l>>) /\ position = n
  BY DEF HeaderSame
<1>2. file \in Seq(LineSet)
  BY DEF TypeOK
<1>3. Len(file) > 2 /\ file[1] = HashLine /\ file[2] = GeneratedBy
  BY <1>1, <1>2, GeneratedStarts
<1>4. n < Len(file) /\ n \in Nat /\ l = file[n + 1]
  <2>1. n = 0 \/ n = 1
    OBVIOUS
  <2>2. n < Len(file) /\ n \in Nat
    BY <1>2, <1>3, <2>1
  <2>3. CASE n = 0
    BY <1>3, <2>2, <2>3
  <2>4. CASE n = 1
    BY <1>3, <2>2, <2>4
  <2> QED BY <2>1, <2>2, <2>3, <2>4
<1>5. file' \in Overwritten(<<file[n + 1]>>)
  BY <1>1, <1>4
<1>6. file' = file
  BY <1>1, <1>2, <1>4, <1>5, SameLine
<1> QED BY <1>1, <1>6

\* The parts of the text.
LEMMA LinesConcat ==
    ASSUME NEW f \in Seq(LineSet)
    PROVE  /\ <<HashLine>> \in Seq(LineSet) /\ <<GeneratedBy>> \in Seq(LineSet)
           /\ <<>> \in Seq(LineSet) /\ <<>> \o <<HashLine>> = <<HashLine>>
           /\ <<HashLine>> \o <<GeneratedBy>> = Preface
           /\ Preface \in Seq(LineSet) /\ Preface \o f \in Seq(LineSet)
           /\ Len(Preface) = 2
<1>1. <<HashLine>> \in Seq(LineSet) /\ <<GeneratedBy>> \in Seq(LineSet) /\ <<>> \in Seq(LineSet)
  BY LinesTyped
<1>2. Preface \in Seq(LineSet) /\ Len(Preface) = 2
  BY PrefaceIs
<1>3. Preface \o f \in Seq(LineSet)
  BY <1>2
<1> QED BY <1>1, <1>2, <1>3 DEF Preface

\* A write, whole or not, keeps the invariant.
LEMMA GeneratorWrite ==
    ASSUME GeneratorInv, Write
    PROVE  GeneratorInv'
<1> DEFINE h == <<HashLine>>
           g == <<GeneratedBy>>
           F == TableLines
<1>1. TypeOK /\ Progress /\ chunks # <<>> /\ stage = "write"
  BY DEF GeneratorInv, Write
<1>2. F \in Seq(LineSet)
  <2>1. Loaded(original) \in Seq(EntrySet)
    BY <1>1, LoadedTyped DEF TypeOK
  <2> QED BY <1>1, <2>1, TableLinesTyped DEF TypeOK, TableLines
<1>3. /\ h \in Seq(LineSet) /\ g \in Seq(LineSet) /\ <<>> \in Seq(LineSet)
      /\ <<>> \o h = h /\ h \o g = Preface /\ Preface \in Seq(LineSet)
      /\ Preface \o F \in Seq(LineSet)
  BY <1>2, LinesConcat
<1>4. TableLines' = F /\ original' = original
  BY DEF Write, answers, TableLines
<1>5. TypeOK' /\ \A m \in Nat : Len(chunks) = m + 1 => Len(chunks') = m
  BY <1>1, WriteTyped
<1>6. /\ chunks' = Tail(chunks)
      /\ stage' = IF Len(chunks) = 1 THEN "done" ELSE "write"
  BY DEF Write
<1> DEFINE Next3 == /\ Progress'
                    /\ stage' = "write" => chunks' # <<>>
                    /\ stage' = "done" => chunks' = <<>>
<1>7. ASSUME chunks = <<h, g, F, h>>, Written(<<>>), HeaderSame
      PROVE  Next3
  <2>1. /\ chunks' = <<g, F, h>> /\ chunks' # <<>> /\ Head(chunks) = h
        /\ stage' = "write"
    <3> HIDE DEF h, g, F
    <3> QED BY <1>6, <1>7
  <2>2. whole' => Lies(file', position', original', <<>> \o h)
    BY <1>1, <1>3, <1>7, <2>1, WriteWritten
  <2>3. whole' => whole /\ file' \in Overwritten(h)
    BY <1>1, <1>3, <1>7, <2>1, WriteWritten
  <2>4. whole => position = 0
    BY <1>7 DEF Written, Lies
  <2>5. HeaderSame'
    BY <1>1, <1>4, <1>7, <2>3, <2>4, WriteHeader
  <2>6. Written(h)'
    BY <1>3, <2>2 DEF Written
  <2> QED BY <1>4, <2>1, <2>5, <2>6 DEF Progress
<1>8. ASSUME chunks = <<g, F, h>>, Written(h), HeaderSame
      PROVE  Next3
  <2>1. /\ chunks' = <<F, h>> /\ chunks' # <<>> /\ Head(chunks) = g
        /\ stage' = "write"
    <3> HIDE DEF h, g, F
    <3> QED BY <1>6, <1>8
  <2>2. whole' => Lies(file', position', original', h \o g)
    BY <1>1, <1>3, <1>8, <2>1, WriteWritten
  <2>3. whole' => whole /\ file' \in Overwritten(g)
    BY <1>1, <1>3, <1>8, <2>1, WriteWritten
  <2>4. whole => position = 1
    BY <1>8 DEF Written, Lies
  <2>5. HeaderSame'
    BY <1>1, <1>4, <1>8, <2>3, <2>4, WriteHeader
  <2>6. Written(Preface)'
    BY <1>3, <2>2 DEF Written
  <2> QED BY <1>4, <2>1, <2>5, <2>6 DEF Progress
<1>9. ASSUME chunks = <<F, h>>, Written(Preface), HeaderSame
      PROVE  Next3
  <2>1. /\ chunks' = <<h>> /\ chunks' # <<>> /\ Head(chunks) = F
        /\ stage' = "write"
    <3> HIDE DEF h, g, F
    <3> QED BY <1>6, <1>9
  <2>2. whole' => Lies(file', position', original', Preface \o F)
    BY <1>1, <1>2, <1>3, <1>9, <2>1, WriteWritten
  <2>3. Written(Preface \o TableLines)'
    BY <1>4, <2>2 DEF Written
  <2> QED BY <1>4, <2>1, <2>3 DEF Progress
<1>10. ASSUME chunks = <<h>>, Written(Preface \o F)
       PROVE  Next3
  <2>1. /\ chunks' = <<>> /\ Head(chunks) = h
        /\ stage' = "done"
    <3> HIDE DEF h, g, F
    <3> QED BY <1>6, <1>10
  <2>2. whole' => Lies(file', position', original', (Preface \o F) \o h)
    BY <1>1, <1>2, <1>3, <1>10, <2>1, WriteWritten
  <2>3. Written((Preface \o TableLines) \o h)'
    BY <1>4, <2>2 DEF Written
  <2> QED BY <1>4, <2>1, <2>3 DEF Progress
<1>11. Next3
  <2> HIDE DEF Next3
  <2> QED BY <1>1, <1>7, <1>8, <1>9, <1>10 DEF Progress
<1> QED BY <1>5, <1>11 DEF GeneratorInv

\* So do a kill and a stutter.
LEMMA GeneratorKilled ==
    ASSUME GeneratorInv, Killed \/ Over \/ UNCHANGED vars
    PROVE  GeneratorInv'
<1>1. /\ file' = file /\ table' = table /\ rule' = rule /\ original' = original
      /\ chunks' = chunks /\ position' = position /\ whole' = whole /\ edits' = edits
      /\ stage' = stage \/ (stage = "write" /\ stage' = "killed")
  BY DEF Killed, Over, vars, answers
<1>2. TypeOK' /\ (TypeOK => TypeOK)
  BY <1>1 DEF GeneratorInv, TypeOK
<1>3. Progress => Progress'
  BY <1>1 DEF Progress, Written, HeaderSame, TableLines
<1> QED BY <1>1, <1>2, <1>3 DEF GeneratorInv

\* The invariant is inductive.
LEMMA GeneratorStep == GeneratorInv /\ [Next]_vars => GeneratorInv'
<1> SUFFICES ASSUME GeneratorInv, [Next]_vars PROVE GeneratorInv'
  OBVIOUS
<1>1. ASSUME NEW t \in Tables, NEW r \in Rules, Edit(t, r) PROVE GeneratorInv'
  BY <1>1, GeneratorEdit
<1>2. CASE Write
  BY <1>2, GeneratorWrite
<1>3. CASE Killed \/ Over \/ UNCHANGED vars
  BY <1>3, GeneratorKilled
<1> QED BY <1>1, <1>2, <1>3 DEF Next

\* The generator keeps the invariant, for any tables, rules and files.
THEOREM GeneratorInvariance == Spec => []GeneratorInv
BY GeneratorInit, GeneratorStep, PTL DEF Spec

\* TypeOK: what the variables hold; the position never leaves the file.
THEOREM TypeCorrect == Spec => []TypeOK
<1>1. GeneratorInv => TypeOK
  BY DEF GeneratorInv
<1> QED BY <1>1, GeneratorInvariance, PTL

\* Once all is written, the file begins with the new text.
LEMMA FinishedFile ==
    ASSUME GeneratorInv, Finished
    PROVE  /\ file \in Seq(LineSet) /\ original \in Seq(LineSet)
           /\ Loaded(original) \in Seq(EntrySet) /\ table \in Tables /\ rule \in Rules
           /\ Lies(file, position, original, NewText(Loaded(original), table, rule))
<1>1. TypeOK /\ Progress /\ chunks = <<>> /\ whole
  BY DEF GeneratorInv, Finished
<1>2. \A x, y : <<x>> # <<>> /\ <<x, y>> # <<>>
  OBVIOUS
<1>3. Written((Preface \o TableLines) \o <<HashLine>>)
  BY <1>1 DEF Progress
<1>4. Loaded(original) \in Seq(EntrySet)
  BY <1>1, LoadedTyped DEF TypeOK
<1>5. NewText(Loaded(original), table, rule) = (Preface \o TableLines) \o <<HashLine>>
  BY DEF NewText, TableLines
<1> QED BY <1>1, <1>3, <1>4, <1>5 DEF TypeOK, Written

\* Of a file that begins with p, the rest.
LEMMA LiesBehind ==
    ASSUME NEW f \in Seq(LineSet), NEW o, NEW pos, NEW p \in Seq(LineSet), Lies(f, pos, o, p)
    PROVE  \E x \in Seq(LineSet) : f = p \o x
<1>1. Len(p) \in 0..Len(f) /\ SubSeq(f, 1, Len(p)) = p
  BY DEF Lies
<1> DEFINE m == Len(p)
           x == SubSeq(f, m + 1, Len(f))
<1>2. m \in 0..Len(f) /\ SubSeq(f, 1, m) = p
  BY <1>1
<1> HIDE DEF m
<1>3. f = SubSeq(f, 1, m) \o x /\ x \in Seq(LineSet)
  BY <1>2, SplitAt
<1> HIDE DEF x
<1> QED BY <1>2, <1>3

\* Lengths of two and of three parts.
LEMMA ThreeLengths ==
    ASSUME NEW p \in Seq(LineSet), NEW f \in Seq(LineSet), NEW h \in Seq(LineSet)
    PROVE  /\ Len(p \o f) = Len(p) + Len(f)
           /\ Len((p \o f) \o h) = Len(p) + Len(f) + Len(h)
           /\ Len(p) \in Nat /\ Len(f) \in Nat /\ Len(h) \in Nat
<1>1. Len(p \o f) = Len(p) + Len(f) /\ Len(p) \in Nat /\ Len(f) \in Nat /\ Len(h) \in Nat
  OBVIOUS
<1>2. Len((p \o f) \o h) = Len(p) + Len(f) + Len(h)
  BY OverIs
<1> QED BY <1>1, <1>2

\* HeaderSafe: a generator that has not got to the tables has changed nothing
\* of a file that begins with the lines it writes first.
THEOREM HeaderSafeCorrect == Spec => []HeaderSafe
<1>1. ASSUME GeneratorInv PROVE HeaderSafe
  <2> SUFFICES ASSUME stage \in {"write", "killed"}, Generated(original), whole, position <= 2
               PROVE  file = original
    BY DEF HeaderSafe
  <2>1. TypeOK /\ Progress
    BY <1>1 DEF GeneratorInv
  <2>2. CASE HeaderSame
    BY <2>2 DEF HeaderSame
  <2>3. TableLines \in Seq(LineSet) /\ Len(TableLines) >= 1
    <3>1. Loaded(original) \in Seq(EntrySet)
      BY <2>1, LoadedTyped DEF TypeOK
    <3> QED BY <2>1, <3>1, TableLinesTyped DEF TypeOK, TableLines
  <2>4. /\ Preface \in Seq(LineSet) /\ <<HashLine>> \in Seq(LineSet) /\ Len(Preface) = 2
    BY <2>3, LinesConcat
  <2>5. ASSUME NEW f \in Seq(LineSet), NEW p \in Seq(LineSet), NEW h \in Seq(LineSet),
               Len(f) >= 1, Len(p) = 2
        PROVE  Len(p \o f) > 2 /\ Len((p \o f) \o h) > 2
    <3>1. Len(p \o f) = Len(p) + Len(f) /\ Len(f) \in Nat /\ Len(h) \in Nat
      OBVIOUS
    <3>2. Len((p \o f) \o h) = Len(p) + Len(f) + Len(h)
      BY ThreeLengths
    <3> QED BY <2>5, <3>1, <3>2
  <2>6. Len(Preface \o TableLines) > 2 /\ Len((Preface \o TableLines) \o <<HashLine>>) > 2
    BY <2>3, <2>4, <2>5
  <2>7. CASE Written(Preface \o TableLines)
    <3>1. position = Len(Preface \o TableLines)
      BY <2>7 DEF Written, Lies
    <3>2. position \in Int
      BY <2>1 DEF TypeOK
    <3> QED BY <2>6, <3>1, <3>2
  <2>8. CASE Written((Preface \o TableLines) \o <<HashLine>>)
    <3>1. position = Len((Preface \o TableLines) \o <<HashLine>>)
      BY <2>8 DEF Written, Lies
    <3>2. position \in Int
      BY <2>1 DEF TypeOK
    <3> QED BY <2>6, <3>1, <3>2
  <2> QED BY <2>1, <2>2, <2>7, <2>8 DEF Progress
<1> QED BY <1>1, GeneratorInvariance, PTL

\* NoRuleLost: a file that was written whole and is read says of every other
\* table what the old one said, and of the edited one all it said and the new
\* rule, whatever is left behind the end.
THEOREM NoRuleLostCorrect == Spec => []NoRuleLost
<1>1. ASSUME GeneratorInv PROVE NoRuleLost
  <2> SUFFICES ASSUME Finished, Readable(file), Parses(file)
               PROVE  NoneLost(Loaded(original), Config(file), table, rule)
    BY DEF NoRuleLost, NoneLost
  <2> DEFINE c == Loaded(original)
             N == NewText(c, table, rule)
  <2>1. /\ file \in Seq(LineSet) /\ c \in Seq(EntrySet) /\ table \in Tables /\ rule \in Rules
        /\ Lies(file, position, original, N)
    BY <1>1, FinishedFile
  <2> HIDE DEF c
  <2>2. N \in Seq(LineSet)
    BY <2>1, NewTextIs
  <2> HIDE DEF N
  <2>3. PICK x \in Seq(LineSet) : file = N \o x
    BY <2>1, <2>2, LiesBehind
  <2>4. NoneLost(c, Config(N \o x), table, rule)
    BY <2>1, NewTextKeeps DEF N
  <2> QED BY <2>3, <2>4 DEF c
<1> QED BY <1>1, GeneratorInvariance, PTL

\* ReadsAsEdited: when the new text covers the old one, the file is read as the
\* configuration that was edited.
THEOREM ReadsAsEditedCorrect == Spec => []ReadsAsEdited
<1>1. ASSUME GeneratorInv PROVE ReadsAsEdited
  <2> DEFINE c == Loaded(original)
             d == Edited(c, table, rule)
             N == NewText(c, table, rule)
  <2> SUFFICES ASSUME Finished, Len(original) <= Len(Formatted(d)) + 3
               PROVE  ~Fails(file) /\ Loaded(file) = d
    BY DEF ReadsAsEdited
  <2>1. /\ file \in Seq(LineSet) /\ original \in Seq(LineSet)
        /\ c \in Seq(EntrySet) /\ table \in Tables /\ rule \in Rules
        /\ Lies(file, position, original, N)
    BY <1>1, FinishedFile
  <2> HIDE DEF c
  <2>2. N \in Seq(LineSet) /\ Says(N, d) /\ Readable(N) /\ Parses(N)
    BY <2>1, NewTextIs, NewTextSays
  <2>3. Len(N) = Len(Formatted(d)) + 3
    <3>1. Formatted(d) \in Seq(LineSet)
      BY <2>1, TableLinesTyped
    <3>2. ASSUME NEW f \in Seq(LineSet), NEW p \in Seq(LineSet), Len(p) = 2
          PROVE  Len((p \o f) \o <<HashLine>>) = Len(f) + 3
      <4>1. <<HashLine>> \in Seq(LineSet) /\ Len(<<HashLine>>) = 1
        BY LinesTyped
      <4>2. Len((p \o f) \o <<HashLine>>) = Len(p) + Len(f) + Len(<<HashLine>>) /\ Len(f) \in Nat
        BY <4>1, ThreeLengths
      <4> QED BY <3>2, <4>1, <4>2
    <3>3. Preface \in Seq(LineSet) /\ Len(Preface) = 2
      BY PrefaceIs
    <3> QED BY <3>1, <3>2, <3>3 DEF NewText
  <2> HIDE DEF N, d
  <2>4. Len(file) = Len(N)
    <3>1. Len(file) \in Nat /\ Len(N) \in Nat /\ Len(original) \in Nat
      BY <2>1, <2>2
    <3>2. Len(N) <= Len(file) /\ (Len(file) = Len(N) \/ Len(file) = Len(original))
      BY <2>1 DEF Lies
    <3> QED BY <2>3, <3>1, <3>2
  <2>5. file = N
    <3>1. SubSeq(file, 1, Len(N)) = N
      BY <2>1 DEF Lies
    <3>2. SubSeq(file, 1, Len(file)) = file
      BY <2>1
    <3> QED BY <2>4, <3>1, <3>2
  <2>6. Config(N) = d
    BY <2>2 DEF Says
  <2> QED BY <2>2, <2>5, <2>6 DEF Fails, Loaded
<1> QED BY <1>1, GeneratorInvariance, PTL
==============================================================================
