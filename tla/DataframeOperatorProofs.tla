----------------------- MODULE DataframeOperatorProofs -----------------------
(***************************************************************************)
(* What leaves the operator, for any tables, files, configurations and     *)
(* dataframes.  The proofs follow the call: the shape of dataframes, what  *)
(* happens to them before the chain, one transformator, the chain, what    *)
(* the chain is in terms of a configuration, what a call makes of a file;  *)
(* then the state: the anonymized bucket, the calls, and the properties.   *)
(***************************************************************************)
EXTENDS DataframeOperator, SelectionProofs

----------------------------------------------------------------------------
\* The shape of dataframes.

\* f has the columns C and n rows; nothing is said of the cells.
Shaped(f, C, n) ==
    /\ f = [types |-> f.types, rows |-> f.rows]
    /\ f.types \in [C -> CellTypes]
    /\ f.rows = [i \in 1..n |-> f.rows[i]]
    /\ \A i \in 1..n : f.rows[i] = [c \in C |-> f.rows[i][c]]

LEMMA ShapedRows ==
    ASSUME NEW C, NEW n \in Nat, NEW f, Shaped(f, C, n)
    PROVE  /\ f.rows \in Seq({f.rows[i] : i \in 1..n}) /\ Len(f.rows) = n /\ DOMAIN f.rows = 1..n
           /\ Columns(f) = C
           /\ \A c : Column(f, c) = [i \in 1..n |-> f.rows[i][c]]
<1>1. f.rows = [i \in 1..n |-> f.rows[i]] /\ f.types \in [C -> CellTypes]
  BY DEF Shaped
<1>2. f.rows \in Seq({f.rows[i] : i \in 1..n}) /\ Len(f.rows) = n /\ DOMAIN f.rows = 1..n
  BY <1>1, FunctionIsSequence
<1>3. Columns(f) = C
  BY <1>1 DEF Columns
<1> QED BY <1>2, <1>3 DEF Column

\* A frame is shaped.
LEMMA FrameShaped ==
    ASSUME NEW C, NEW cells, NEW f \in Frames(C, cells)
    PROVE  /\ Len(f.rows) \in Nat /\ Shaped(f, C, Len(f.rows))
           /\ \A i \in 1..Len(f.rows) : \A c \in C : f.rows[i][c] \in cells
<1>1. /\ f = [types |-> f.types, rows |-> f.rows]
      /\ f.types \in [C -> CellTypes] /\ f.rows \in Seq([C -> cells])
  BY DEF Frames
<1>2. Len(f.rows) \in Nat /\ f.rows = [i \in 1..Len(f.rows) |-> f.rows[i]]
  BY <1>1
<1>3. \A i \in 1..Len(f.rows) : f.rows[i] \in [C -> cells]
  BY <1>1
<1>4. \A i \in 1..Len(f.rows) : /\ f.rows[i] = [c \in C |-> f.rows[i][c]]
                                /\ \A c \in C : f.rows[i][c] \in cells
  BY <1>3
<1> QED BY <1>1, <1>2, <1>4 DEF Shaped

----------------------------------------------------------------------------
\* Before the chain.

LEMMA SlicedShaped ==
    ASSUME NEW C, NEW cells, NEW f \in Frames(C, cells), NEW n \in Nat
    PROVE  /\ Sliced(f, n) \in Frames(C, cells)
           /\ Len(Sliced(f, n).rows) <= n /\ Len(Sliced(f, n).rows) <= Len(f.rows)
<1> DEFINE m == IF n < Len(f.rows) THEN n ELSE Len(f.rows)
           r == SubSeq(f.rows, 1, m)
<1>1. /\ f = [types |-> f.types, rows |-> f.rows]
      /\ f.types \in [C -> CellTypes] /\ f.rows \in Seq([C -> cells])
  BY DEF Frames
<1>2. m \in Nat /\ m <= n /\ m <= Len(f.rows)
  BY <1>1
<1>3. r \in Seq([C -> cells]) /\ Len(r) = m
  BY <1>1, <1>2
<1>4. Sliced(f, n) = [f EXCEPT !.rows = r]
  BY DEF Sliced, WithRows
<1> HIDE DEF r, m
<1> QED BY <1>1, <1>2, <1>3, <1>4 DEF Frames

LEMMA SanitizedShaped ==
    ASSUME NEW C, NEW cells, NEW f \in Frames(C, cells), Null \in cells
    PROVE  Sanitized(f) \in Frames(C, cells) /\ Len(Sanitized(f).rows) = Len(f.rows)
<1> DEFINE r == [i \in DOMAIN f.rows |-> [c \in Columns(f) |->
        IF f.types[c] = "str" /\ f.rows[i][c] \in NulBytes
        THEN Null ELSE f.rows[i][c]]]
<1>1. /\ f = [types |-> f.types, rows |-> f.rows]
      /\ f.types \in [C -> CellTypes] /\ f.rows \in Seq([C -> cells])
  BY DEF Frames
<1>2. \A i \in 1..Len(f.rows) : f.rows[i] \in [C -> cells]
  BY <1>1
<1>3. Len(f.rows) \in Nat /\ Columns(f) = C /\ DOMAIN f.rows = 1..Len(f.rows)
  BY <1>1 DEF Columns
<1>4. r \in [1..Len(f.rows) -> [C -> cells]]
  BY <1>2, <1>3
<1> HIDE DEF r
<1>5. r \in Seq([C -> cells]) /\ Len(r) = Len(f.rows)
  BY <1>3, <1>4
<1>6. Sanitized(f) = [f EXCEPT !.rows = r]
  BY DEF Sanitized, WithRows, r
<1> QED BY <1>1, <1>5, <1>6 DEF Frames

\* The rows of g are those of f that the filter keeps.
KeptRows(g, f, filter) ==
    /\ \A i \in 1..Len(g.rows) :
          \E k \in 1..Len(f.rows) : Keeps(filter, f.rows[k]) /\ g.rows[i] = f.rows[k]
    /\ \A k \in 1..Len(f.rows) : Keeps(filter, f.rows[k]) =>
          \E i \in 1..Len(g.rows) : g.rows[i] = f.rows[k]

\* The filter keeps rows of the frame, those that pass, and only them.
LEMMA FilteredShaped ==
    ASSUME NEW C, NEW cells, NEW f \in Frames(C, cells), NEW filter
    PROVE  /\ Filtered(f, filter) \in Frames(C, cells)
           /\ Len(Filtered(f, filter).rows) <= Len(f.rows)
           /\ KeptRows(Filtered(f, filter), f, filter)
<1> DEFINE I == {i \in DOMAIN f.rows : Keeps(filter, f.rows[i])}
           r == Selected(f.rows, I)
<1>1. /\ f = [types |-> f.types, rows |-> f.rows]
      /\ f.types \in [C -> CellTypes] /\ f.rows \in Seq([C -> cells])
  BY DEF Frames
<1>2. \A k : k \in I <=> k \in 1..Len(f.rows) /\ Keeps(filter, f.rows[k])
  BY <1>1
<1>3. Filtered(f, filter) = [f EXCEPT !.rows = r]
  BY DEF Filtered, WithRows
<1> HIDE DEF I
<1>4. r \in Seq([C -> cells]) /\ Len(r) <= Len(f.rows)
  BY <1>1, SelectedAt
<1>5. /\ \A i \in 1..Len(r) : \E k \in I \cap (1..Len(f.rows)) : r[i] = f.rows[k]
      /\ \A k \in I \cap (1..Len(f.rows)) : \E i \in 1..Len(r) : r[i] = f.rows[k]
  BY <1>1, SelectedElements
<1> HIDE DEF r
<1>6. Filtered(f, filter).rows = r /\ Filtered(f, filter) \in Frames(C, cells)
  BY <1>1, <1>3, <1>4 DEF Frames
<1>7. KeptRows(Filtered(f, filter), f, filter)
  BY <1>2, <1>5, <1>6 DEF KeptRows
<1> QED BY <1>4, <1>6, <1>7

----------------------------------------------------------------------------
\* One transformator.

\* Where a chain stands: the frame keeps its columns and its number of rows.
Standing(a, C, n) ==
    /\ a = [frame |-> a.frame, rng |-> a.rng, panic |-> a.panic]
    /\ Shaped(a.frame, C, n)

\* The cells of row i that x makes of a, when it works.
NewCell(a, x, i) ==
    Transformed(x, Advanced(a.rng, x, SubSeq(Column(a.frame, x.column), 1, i - 1)),
                a.frame.rows[i][x.column],
                IF x.kind = "idEmail" THEN a.frame.rows[i]["id"] ELSE Null)

\* x has worked on a: it has changed the cells of its column, and drawn.
Worked(a, x, C, n) ==
    /\ ~a.panic /\ x.column \in C
    /\ Apply(a, x).rng = Advanced(a.rng, x, Column(a.frame, x.column))
    /\ \A i \in 1..n : \A c \in C :
          Apply(a, x).frame.rows[i][c] =
             IF c = x.column THEN NewCell(a, x, i) ELSE a.frame.rows[i][c]

\* A transformator that does not panic works.
LEMMA ApplyStep ==
    ASSUME NEW C, NEW n \in Nat, NEW a, Standing(a, C, n), NEW x
    PROVE  /\ Standing(Apply(a, x), C, n)
           /\ ~Apply(a, x).panic => Worked(a, x, C, n)
<1> DEFINE f    == a.frame
           old  == Column(f, x.column)
           id   == [i \in DOMAIN old |-> IF x.kind = "idEmail" THEN f.rows[i]["id"] ELSE Null]
           new  == [i \in DOMAIN old |->
                      Transformed(x, Advanced(a.rng, x, SubSeq(old, 1, i - 1)), old[i], id[i])]
           type == IF x.kind = "nullify" THEN f.types[x.column] ELSE "str"
<1>1. a = [frame |-> f, rng |-> a.rng, panic |-> a.panic] /\ Shaped(f, C, n)
  BY DEF Standing
<1>2. DOMAIN f.rows = 1..n /\ Columns(f) = C /\ old = [i \in 1..n |-> f.rows[i][x.column]]
  <2>1. DOMAIN f.rows = 1..n /\ Columns(f) = C
    BY <1>1, ShapedRows
  <2>2. old = [i \in 1..n |-> f.rows[i][x.column]]
    BY <2>1 DEF Column
  <2> QED BY <2>1, <2>2
<1>3. CASE a.panic \/ Fails(f, x)
  <2>1. Apply(a, x) = [a EXCEPT !.panic = TRUE]
    BY <1>3 DEF Apply
  <2>2. Apply(a, x) = [frame |-> f, rng |-> a.rng, panic |-> TRUE]
    BY <1>1, <2>1
  <2> QED BY <1>1, <2>2 DEF Standing, Worked
<1>4. CASE ~(a.panic \/ Fails(f, x))
  <2>1. x.column \in C
    BY <1>2, <1>4 DEF Fails
  <2>2. Apply(a, x) = [a EXCEPT !.frame = WithColumn(@, x.column, type, new),
                                !.rng = Advanced(@, x, old)]
    BY <1>4 DEF Apply
  <2>3. /\ DOMAIN new = 1..n
        /\ \A i \in 1..n : new[i] = NewCell(a, x, i)
    BY <1>2 DEF NewCell
  <2> HIDE DEF new, type, old
  <2> DEFINE g == WithColumn(f, x.column, type, new)
  <2>4. Apply(a, x) = [frame |-> g, rng |-> Advanced(a.rng, x, old), panic |-> a.panic]
    BY <1>1, <2>2
  <2>5. /\ g.types = [f.types EXCEPT ![x.column] = type]
        /\ g.rows = [i \in 1..n |-> [f.rows[i] EXCEPT ![x.column] = new[i]]]
        /\ g = [types |-> g.types, rows |-> g.rows]
    BY <1>2 DEF WithColumn
  <2> HIDE DEF g
  <2>6. type \in CellTypes /\ f.types \in [C -> CellTypes]
    BY <1>1, <2>1 DEF Shaped, type, CellTypes
  <2>7. \A i \in 1..n : f.rows[i] = [c \in C |-> f.rows[i][c]]
    BY <1>1 DEF Shaped
  <2>8. \A i \in 1..n :
           /\ g.rows[i] = [c \in C |-> IF c = x.column THEN new[i] ELSE f.rows[i][c]]
    BY <2>1, <2>5, <2>7
  <2>9. Shaped(g, C, n)
    BY <2>5, <2>6, <2>8 DEF Shaped
  <2>10. Standing(Apply(a, x), C, n)
    BY <2>4, <2>9 DEF Standing
  <2>11. /\ Apply(a, x).frame = g /\ Apply(a, x).panic = a.panic
         /\ Apply(a, x).rng = Advanced(a.rng, x, old)
    BY <2>4
  <2>12. \A i \in 1..n : \A c \in C :
            g.rows[i][c] = IF c = x.column THEN NewCell(a, x, i) ELSE f.rows[i][c]
    <3> SUFFICES ASSUME NEW i \in 1..n, NEW c \in C
                 PROVE  g.rows[i][c] = IF c = x.column THEN NewCell(a, x, i) ELSE f.rows[i][c]
      OBVIOUS
    <3>1. g.rows[i] = [d \in C |-> IF d = x.column THEN new[i] ELSE f.rows[i][d]]
      BY <2>8
    <3>2. g.rows[i][c] = IF c = x.column THEN new[i] ELSE f.rows[i][c]
      BY <3>1
    <3> QED BY <2>3, <3>2
  <2> QED BY <1>4, <2>1, <2>10, <2>11, <2>12 DEF old, Worked
<1> QED BY <1>3, <1>4

----------------------------------------------------------------------------
\* A chain of transformators.

\* The recursion of Run has a solution.
LEMMA RunDef ==
    ASSUME NEW start, NEW chain, Len(chain) \in Nat
    PROVE  Run(start, chain) =
             [n \in 0..Len(chain) |->
                IF n = 0 THEN start ELSE Apply(Run(start, chain)[n - 1], chain[n])]
<1> DEFINE Def(g, N) == [n \in 0..N |-> IF n = 0 THEN start ELSE Apply(g[n - 1], chain[n])]
           S == {N \in Nat : \E g : g = Def(g, N)}
<1>1. 0 \in S
  <2>1. [n \in 0..0 |-> start] = Def([n \in 0..0 |-> start], 0)
    OBVIOUS
  <2> QED BY <2>1
<1>2. ASSUME NEW N \in Nat, N \in S PROVE N + 1 \in S
  <2>1. PICK g : g = Def(g, N)
    BY <1>2
  <2> DEFINE h == [n \in 0..(N + 1) |-> IF n <= N THEN g[n] ELSE Apply(g[n - 1], chain[n])]
  <2>2. \A n \in 0..N : h[n] = g[n]
    OBVIOUS
  <2>3. h = Def(h, N + 1)
    <3> SUFFICES ASSUME NEW n \in 0..(N + 1)
                 PROVE  h[n] = IF n = 0 THEN start ELSE Apply(h[n - 1], chain[n])
      OBVIOUS
    <3>1. CASE n = 0
      BY <2>1, <3>1
    <3>2. CASE n # 0 /\ n <= N
      <4>1. n \in 0..N /\ n - 1 \in 0..N
        BY <3>2
      <4>2. h[n] = g[n] /\ h[n - 1] = g[n - 1]
        BY <2>2, <4>1
      <4>3. g[n] = Def(g, N)[n]
        BY <2>1
      <4> HIDE DEF h
      <4> QED BY <3>2, <4>1, <4>2, <4>3
    <3>3. CASE n = N + 1
      BY <3>3
    <3> QED BY <3>1, <3>2, <3>3
  <2> HIDE DEF h, Def
  <2>4. \E f : f = Def(f, N + 1)
    BY <2>3
  <2> QED BY <2>4
<1>3. Len(chain) \in S
  <2> HIDE DEF S
  <2> QED BY <1>1, <1>2, NatSetInduction
<1>4. Run(start, chain) = CHOOSE g : g = Def(g, Len(chain))
  BY DEF Run
<1>5. \E g : g = Def(g, Len(chain))
  BY <1>3
<1> HIDE DEF Def
<1>6. Run(start, chain) = Def(Run(start, chain), Len(chain))
  BY <1>4, <1>5
<1> QED BY <1>6 DEF Def

LEMMA RunStep ==
    ASSUME NEW start, NEW chain, Len(chain) \in Nat
    PROVE  /\ Run(start, chain)[0] = start
           /\ \A n \in 1..Len(chain) :
                 Run(start, chain)[n] = Apply(Run(start, chain)[n - 1], chain[n])
<1> DEFINE U == Run(start, chain)
<1>1. U = [n \in 0..Len(chain) |-> IF n = 0 THEN start ELSE Apply(U[n - 1], chain[n])]
  BY RunDef
<1> HIDE DEF U
<1>2. \A n \in 0..Len(chain) : U[n] = IF n = 0 THEN start ELSE Apply(U[n - 1], chain[n])
  BY <1>1, Zenon
<1>3. 0 \in 0..Len(chain) /\ \A n \in 1..Len(chain) : n \in 0..Len(chain) /\ n # 0
  OBVIOUS
<1>4. U[0] = start /\ \A n \in 1..Len(chain) : U[n] = Apply(U[n - 1], chain[n])
  BY <1>2, <1>3, Zenon
<1> QED BY <1>4 DEF U

\* The chain keeps the shape, and once it has panicked it stays so.
LEMMA RunStands ==
    ASSUME NEW C, NEW n \in Nat, NEW start, Standing(start, C, n),
           NEW chain, Len(chain) \in Nat
    PROVE  \A m \in 0..Len(chain) :
              /\ Standing(Run(start, chain)[m], C, n)
              /\ ~Run(start, chain)[m].panic => \A j \in 0..m : ~Run(start, chain)[j].panic
<1> DEFINE U == Run(start, chain)
           Good(m) == /\ Standing(U[m], C, n)
                      /\ ~U[m].panic => \A j \in 0..m : ~U[j].panic
           G == {m \in Nat : m <= Len(chain) => Good(m)}
<1>1. U[0] = start /\ \A m \in 1..Len(chain) : U[m] = Apply(U[m - 1], chain[m])
  BY RunStep
<1> HIDE DEF U
<1>2. 0 \in G
  BY <1>1
<1>3. ASSUME NEW m \in Nat, m \in G PROVE m + 1 \in G
  <2> SUFFICES ASSUME m + 1 <= Len(chain) PROVE Good(m + 1)
    OBVIOUS
  <2>1. m + 1 \in 1..Len(chain) /\ (m + 1) - 1 = m /\ Good(m)
    BY <1>3
  <2>2. U[m + 1] = Apply(U[m], chain[m + 1])
    BY <1>1, <2>1
  <2>3. ASSUME NEW a, a = U[m], NEW x, x = chain[m + 1]
        PROVE  Standing(Apply(a, x), C, n) /\ (~Apply(a, x).panic => ~a.panic)
    BY <2>1, <2>3, ApplyStep DEF Worked
  <2>5. Standing(U[m + 1], C, n) /\ (~U[m + 1].panic => ~U[m].panic)
    BY <2>2, <2>3
  <2>4. \A j \in 0..(m + 1) : j = m + 1 \/ j \in 0..m
    OBVIOUS
  <2> QED BY <2>1, <2>4, <2>5
<1>4. \A m \in Nat : m \in G
  <2> HIDE DEF G
  <2> QED BY <1>2, <1>3, NatSetInduction
<1>5. \A m \in 0..Len(chain) : m \in Nat /\ m <= Len(chain)
  OBVIOUS
<1>6. \A m \in 0..Len(chain) : Good(m)
  BY <1>4, <1>5
<1> QED BY <1>6 DEF U

\* A transformator that worked has found its column.
LEMMA RunColumn ==
    ASSUME NEW C, NEW n \in Nat, NEW start, Standing(start, C, n),
           NEW chain, Len(chain) \in Nat, ~Run(start, chain)[Len(chain)].panic,
           NEW k \in 1..Len(chain)
    PROVE  chain[k].column \in C
<1> DEFINE U == Run(start, chain)
<1>1. k - 1 \in 0..Len(chain) /\ k \in 0..Len(chain) /\ Len(chain) \in 0..Len(chain)
  OBVIOUS
<1>2. ~U[k].panic /\ Standing(U[k - 1], C, n)
  BY <1>1, RunStands
<1>3. U[k] = Apply(U[k - 1], chain[k])
  BY RunStep
<1> HIDE DEF U
<1>4. ASSUME NEW a, a = U[k - 1], NEW x, x = chain[k] PROVE Worked(a, x, C, n)
  <2>1. Standing(a, C, n) /\ ~Apply(a, x).panic
    BY <1>2, <1>3, <1>4
  <2> QED BY <2>1, ApplyStep
<1>5. Worked(U[k - 1], chain[k], C, n)
  BY <1>4
<1> QED BY <1>5 DEF Worked

\* After the first k transformators, up to the m-th, none works on column c.
Unworked(chain, k, m, c) == \A j \in (k + 1)..m : chain[j].column # c

\* Column c of the n rows is the same in a and b.
SameCells(a, b, c, n) == \A i \in 1..n : a.frame.rows[i][c] = b.frame.rows[i][c]

\* The cells of a column stay as they are while no transformator works on it.
LEMMA RunUntouched ==
    ASSUME NEW C, NEW n \in Nat, NEW start, Standing(start, C, n),
           NEW chain, Len(chain) \in Nat, NEW c \in C, NEW k \in 0..Len(chain)
    PROVE  \A m \in k..Len(chain) :
              ~Run(start, chain)[m].panic /\ Unworked(chain, k, m, c) =>
                 SameCells(Run(start, chain)[m], Run(start, chain)[k], c, n)
<1> DEFINE U == Run(start, chain)
           Pre(m) == ~U[m].panic /\ Unworked(chain, k, m, c)
           Same(m) == SameCells(U[m], U[k], c, n)
           G == {m \in Nat : m \in k..Len(chain) /\ Pre(m) => Same(m)}
<1>1. \A m \in 1..Len(chain) : U[m] = Apply(U[m - 1], chain[m])
  BY RunStep
<1>2. \A m \in 0..Len(chain) : Standing(U[m], C, n)
  BY RunStands
<1> HIDE DEF U
<1>3. 0 \in G
  <2>1. 0 \in k..Len(chain) => k = 0
    OBVIOUS
  <2> QED BY <2>1 DEF SameCells
<1>4. ASSUME NEW m \in Nat, m \in G PROVE m + 1 \in G
  <2> SUFFICES ASSUME m + 1 \in k..Len(chain), Pre(m + 1) PROVE Same(m + 1)
    OBVIOUS
  <2>1. CASE m + 1 = k
    BY <2>1 DEF SameCells
  <2>2. CASE m + 1 # k
    <3>1. /\ m \in k..Len(chain) /\ m \in 0..Len(chain) /\ m + 1 \in 1..Len(chain)
          /\ m + 1 \in (k + 1)..(m + 1) /\ (m + 1) - 1 = m
          /\ \A j \in (k + 1)..m : j \in (k + 1)..(m + 1)
      BY <2>2
    <3>2. U[m + 1] = Apply(U[m], chain[m + 1])
      BY <1>1, <3>1
    <3>3. ASSUME NEW a, a = U[m], NEW x, x = chain[m + 1]
          PROVE  ~Apply(a, x).panic =>
                    /\ ~a.panic
                    /\ x.column # c => \A i \in 1..n : Apply(a, x).frame.rows[i][c] = a.frame.rows[i][c]
      <4>1. Standing(a, C, n)
        BY <1>2, <3>1, <3>3
      <4>2. ~Apply(a, x).panic => Worked(a, x, C, n)
        BY <4>1, ApplyStep
      <4>3. ASSUME ~Apply(a, x).panic, x.column # c, NEW i \in 1..n
            PROVE  Apply(a, x).frame.rows[i][c] = a.frame.rows[i][c]
        BY <4>2, <4>3 DEF Worked
      <4> QED BY <4>2, <4>3 DEF Worked
    <3>4. ~U[m + 1].panic /\ chain[m + 1].column # c
      BY <3>1 DEF Unworked
    <3>5. ~U[m].panic /\ \A i \in 1..n : U[m + 1].frame.rows[i][c] = U[m].frame.rows[i][c]
      BY <3>2, <3>3, <3>4
    <3>6. Pre(m)
      BY <3>1, <3>5 DEF Unworked
    <3>7. Same(m)
      BY <1>4, <3>1, <3>6
    <3> QED BY <3>5, <3>7 DEF SameCells
  <2> QED BY <2>1, <2>2
<1>5. \A m \in Nat : m \in G
  <2> HIDE DEF G
  <2> QED BY <1>3, <1>4, NatSetInduction
<1>6. \A m \in k..Len(chain) : m \in Nat
  OBVIOUS
<1>7. \A m \in k..Len(chain) : Pre(m) => Same(m)
  BY <1>5, <1>6
<1> QED BY <1>7 DEF U

\* A transformator that does not draw leaves the generator alone.
LEMMA NotAdvanced ==
    ASSUME NEW x, x.kind \notin Drawing, NEW S, NEW s \in Seq(S)
    PROVE  Advanced(<<>>, x, s) = <<>>
<1> DEFINE drawn == Selected(s, {i \in DOMAIN s : Draws(x, s[i])})
<1>1. \A v : ~Draws(x, v)
  BY DEF Draws, Drawing
<1>2. \A i \in 1..Len(s) : i \notin {j \in DOMAIN s : Draws(x, s[j])}
  BY <1>1
<1>3. drawn = <<>>
  BY <1>2, SelectedNone
<1>4. Advanced(<<>>, x, s) = <<>> \o [i \in DOMAIN drawn |-> Draw(x, drawn[i])]
  BY DEF Advanced
<1>5. [i \in DOMAIN drawn |-> Draw(x, drawn[i])] = <<>>
  <2>1. DOMAIN drawn = {}
    BY <1>3
  <2> HIDE DEF drawn
  <2>2. [i \in DOMAIN drawn |-> Draw(x, drawn[i])] \in [1..0 -> {}]
    BY <2>1
  <2> QED BY <2>2
<1> QED BY <1>4, <1>5

LEMMA RunUndrawn ==
    ASSUME NEW C, NEW n \in Nat, NEW start, Standing(start, C, n), start.rng = <<>>,
           NEW chain, Len(chain) \in Nat
    PROVE  \A m \in 0..Len(chain) :
              /\ ~Run(start, chain)[m].panic
              /\ \A j \in 1..m : chain[j].kind \notin Drawing
              => Run(start, chain)[m].rng = <<>>
<1> DEFINE U == Run(start, chain)
           Pre(m) == ~U[m].panic /\ \A j \in 1..m : chain[j].kind \notin Drawing
           G == {m \in Nat : m \in 0..Len(chain) /\ Pre(m) => U[m].rng = <<>>}
<1>1. U[0] = start /\ \A m \in 1..Len(chain) : U[m] = Apply(U[m - 1], chain[m])
  BY RunStep
<1>2. \A m \in 0..Len(chain) : Standing(U[m], C, n)
  BY RunStands
<1> HIDE DEF U
<1>3. 0 \in G
  BY <1>1
<1>4. ASSUME NEW m \in Nat, m \in G PROVE m + 1 \in G
  <2> SUFFICES ASSUME m + 1 \in 0..Len(chain), Pre(m + 1) PROVE U[m + 1].rng = <<>>
    OBVIOUS
  <2>1. /\ m \in 0..Len(chain) /\ m + 1 \in 1..Len(chain)
        /\ m + 1 \in 1..(m + 1) /\ (m + 1) - 1 = m
        /\ \A j \in 1..m : j \in 1..(m + 1)
    OBVIOUS
  <2>2. U[m + 1] = Apply(U[m], chain[m + 1])
    BY <1>1, <2>1
  <2>3. ASSUME NEW a, a = U[m], NEW x, x = chain[m + 1], ~Apply(a, x).panic,
               x.kind \notin Drawing, a.rng = <<>>
        PROVE  Apply(a, x).rng = <<>>
    <3>1. Standing(a, C, n) /\ Shaped(a.frame, C, n)
      BY <1>2, <2>1, <2>3 DEF Standing
    <3>2. Worked(a, x, C, n)
      BY <3>1, <2>3, ApplyStep
    <3>3. Column(a.frame, x.column) = [i \in 1..n |-> a.frame.rows[i][x.column]]
      BY <3>1, ShapedRows DEF Column
    <3> DEFINE s == Column(a.frame, x.column)
    <3>4. s = [i \in 1..n |-> s[i]]
      BY <3>3
    <3> HIDE DEF s
    <3>5. s \in Seq({s[i] : i \in 1..n})
      BY <3>4, FunctionIsSequence
    <3>6. Advanced(<<>>, x, s) = <<>>
      BY <2>3, <3>5, NotAdvanced
    <3> QED BY <2>3, <3>2, <3>6 DEF s, Worked
  <2>4. ASSUME NEW a, a = U[m], NEW x, x = chain[m + 1]
        PROVE  ~Apply(a, x).panic => ~a.panic
    BY <1>2, <2>1, <2>4, ApplyStep DEF Worked
  <2>5. ~U[m + 1].panic /\ chain[m + 1].kind \notin Drawing
    BY <2>1
  <2>6. ~U[m].panic
    BY <2>2, <2>4, <2>5
  <2>7. Pre(m)
    BY <2>1, <2>6
  <2>8. U[m].rng = <<>>
    BY <1>4, <2>1, <2>7
  <2> QED BY <2>2, <2>3, <2>5, <2>8
<1>5. \A m \in Nat : m \in G
  <2> HIDE DEF G
  <2> QED BY <1>3, <1>4, NatSetInduction
<1>6. \A m \in 0..Len(chain) : m \in Nat
  OBVIOUS
<1>7. \A m \in 0..Len(chain) : Pre(m) => U[m].rng = <<>>
  BY <1>5, <1>6
<1> QED BY <1>7 DEF U

\* What a transformator makes of a cell is a fake, what it spares, or a number
\* without digits.
LEMMA TransformedCell ==
    ASSUME NEW x, x.kind \in Kinds, NEW r, NEW v, NEW id
    PROVE  \/ Transformed(x, r, v, id)[1] # "source"
           \/ Transformed(x, r, v, id) \in Spared(x)
           \/ x.kind = "phone" /\ Transformed(x, r, v, id) \notin Digits
<1> DEFINE w == Transformed(x, r, v, id)
<1>1. CASE x.kind = "replace"
  <2>1. w = <<"replaced", x.column>>
    BY <1>1 DEF Transformed
  <2> QED BY <2>1
<1>2. CASE x.kind = "nullify"
  <2>1. w = Null /\ Spared(x) = {Null}
    BY <1>2 DEF Transformed, Spared
  <2> QED BY <2>1
<1>3. CASE x.kind \in {"name", "md5"}
  <2>1. w = Fake(x, r, v) /\ Spared(x) = IF x.retain THEN {Null, Blank} ELSE {}
    BY <1>3 DEF Transformed, Spared
  <2>2. \/ x.retain /\ Fake(x, r, v) \in {Null, Blank}
        \/ Fake(x, r, v) = <<"random">>
        \/ Fake(x, r, v) = <<x.kind, r, v>>
    BY DEF Fake, Fresh
  <2>3. <<"random">>[1] # "source" /\ <<x.kind, r, v>>[1] # "source"
    BY <1>3
  <2> QED BY <2>1, <2>2, <2>3
<1>4. CASE x.kind = "phone"
  <2>1. w = IF v \in Digits THEN <<"phone", r, v>> ELSE v
    BY <1>4 DEF Transformed, Phone
  <2> QED BY <1>4, <2>1
<1>5. CASE x.kind = "multiEmail"
  <2>1. /\ w = IF v \in Short \cup {Null} THEN v ELSE <<"emails", r, v>>
        /\ Spared(x) = Short \cup {Null}
    BY <1>5 DEF Transformed, Emails, Spared
  <2> QED BY <2>1
<1>6. CASE x.kind = "idEmail"
  <2>1. w = <<"idEmail", r, IF v = Null THEN Blank ELSE v, id>>
    BY <1>6 DEF Transformed, IdEmail
  <2> QED BY <2>1
<1> QED BY <1>1, <1>2, <1>3, <1>4, <1>5, <1>6 DEF Kinds

\* A cell another transformator works on stays, becomes a fake or, nullified, null.
LEMMA TransformedAgain ==
    ASSUME NEW x, x.kind \in Kinds, NEW r, NEW v, NEW id
    PROVE  \/ Transformed(x, r, v, id) = v
           \/ Transformed(x, r, v, id)[1] # "source"
           \/ x.kind = "nullify" /\ Transformed(x, r, v, id) = Null
<1> DEFINE w == Transformed(x, r, v, id)
<1>1. CASE x.kind = "replace"
  <2>1. w = <<"replaced", x.column>>
    BY <1>1 DEF Transformed
  <2> QED BY <2>1
<1>2. CASE x.kind = "nullify"
  BY <1>2 DEF Transformed
<1>3. CASE x.kind \in {"name", "md5"}
  <2>1. w = Fake(x, r, v)
    BY <1>3 DEF Transformed
  <2>2. \/ Fake(x, r, v) = v
        \/ Fake(x, r, v) = <<"random">>
        \/ Fake(x, r, v) = <<x.kind, r, v>>
    BY DEF Fake, Fresh
  <2>3. <<"random">>[1] # "source" /\ <<x.kind, r, v>>[1] # "source"
    BY <1>3
  <2> QED BY <2>1, <2>2, <2>3
<1>4. CASE x.kind = "phone"
  <2>1. w = IF v \in Digits THEN <<"phone", r, v>> ELSE v
    BY <1>4 DEF Transformed, Phone
  <2> QED BY <2>1
<1>5. CASE x.kind = "multiEmail"
  <2>1. w = IF v \in Short \cup {Null} THEN v ELSE <<"emails", r, v>>
    BY <1>5 DEF Transformed, Emails
  <2> QED BY <2>1
<1>6. CASE x.kind = "idEmail"
  <2>1. w = <<"idEmail", r, IF v = Null THEN Blank ELSE v, id>>
    BY <1>6 DEF Transformed, IdEmail
  <2> QED BY <2>1
<1> QED BY <1>1, <1>2, <1>3, <1>4, <1>5, <1>6 DEF Kinds

\* w may stand in the column of the k-th transformator after the first m.
Hidden(chain, k, m, w) ==
    \/ w[1] # "source"
    \/ w \in Spared(chain[k])
    \/ chain[k].kind = "phone" /\ w \notin Digits
    \/ /\ w = Null
       /\ \E j \in (k + 1)..m : chain[j].column = chain[k].column /\ chain[j].kind = "nullify"

\* From the transformator of a column on, nothing else stands there.
LEMMA RunHides ==
    ASSUME NEW C, NEW n \in Nat, NEW start, Standing(start, C, n),
           NEW chain, Len(chain) \in Nat, \A j \in 1..Len(chain) : chain[j].kind \in Kinds,
           NEW k \in 1..Len(chain)
    PROVE  \A m \in k..Len(chain) :
              ~Run(start, chain)[m].panic =>
                 \A i \in 1..n : Hidden(chain, k, m, Run(start, chain)[m].frame.rows[i][chain[k].column])
<1> DEFINE U == Run(start, chain)
           c == chain[k].column
           Good(m) == \A i \in 1..n : Hidden(chain, k, m, U[m].frame.rows[i][c])
           G == {m \in Nat : m \in k..Len(chain) /\ ~U[m].panic => Good(m)}
<1>1. \A m \in 1..Len(chain) : U[m] = Apply(U[m - 1], chain[m])
  BY RunStep
<1>2. \A m \in 0..Len(chain) : Standing(U[m], C, n)
  BY RunStands
<1> HIDE DEF U
<1>3. 0 \in G
  OBVIOUS
<1>4. ASSUME NEW m \in Nat, m \in G PROVE m + 1 \in G
  <2> SUFFICES ASSUME m + 1 \in k..Len(chain), ~U[m + 1].panic, NEW i \in 1..n
               PROVE  Hidden(chain, k, m + 1, U[m + 1].frame.rows[i][c])
    <3>1. (m + 1 \in k..Len(chain) /\ ~U[m + 1].panic => Good(m + 1)) => m + 1 \in G
      <4> HIDE DEF Good
      <4> QED OBVIOUS
    <3> HIDE DEF G
    <3> QED BY <3>1
  <2>1. m \in 0..Len(chain) /\ m + 1 \in 1..Len(chain) /\ (m + 1) - 1 = m
    OBVIOUS
  <2>2. U[m + 1] = Apply(U[m], chain[m + 1])
    BY <1>1, <2>1
  <2>3. ASSUME NEW a, a = U[m], NEW x, x = chain[m + 1]
        PROVE  /\ ~a.panic /\ x.column \in C
               /\ \A d \in C : Apply(a, x).frame.rows[i][d] =
                     IF d = x.column THEN NewCell(a, x, i) ELSE a.frame.rows[i][d]
    <3>1. Standing(a, C, n) /\ ~Apply(a, x).panic
      BY <1>2, <2>1, <2>2, <2>3
    <3>2. Worked(a, x, C, n)
      BY <3>1, ApplyStep
    <3> QED BY <3>2 DEF Worked
  <2> DEFINE x == chain[m + 1]
             v == U[m].frame.rows[i][x.column]
             r == Advanced(U[m].rng, x, SubSeq(Column(U[m].frame, x.column), 1, i - 1))
             id == IF x.kind = "idEmail" THEN U[m].frame.rows[i]["id"] ELSE Null
             w == Transformed(x, r, v, id)
  <2>4. /\ ~U[m].panic /\ x.column \in C
        /\ \A d \in C : U[m + 1].frame.rows[i][d] = IF d = x.column THEN w ELSE U[m].frame.rows[i][d]
    BY <2>2, <2>3 DEF NewCell
  <2>5. x.kind \in Kinds
    BY <2>1
  <2>6. CASE m + 1 = k
    <3>1. x = chain[k] /\ U[m + 1].frame.rows[i][c] = w
      BY <2>4, <2>6
    <3>2. w[1] # "source" \/ w \in Spared(x) \/ (x.kind = "phone" /\ w \notin Digits)
      BY <2>5, TransformedCell
    <3> HIDE DEF x, w, c
    <3> QED BY <3>1, <3>2 DEF Hidden
  <2>7. CASE m + 1 # k
    <3>1. m \in k..Len(chain) /\ k + 1 \in Nat /\ m + 1 \in (k + 1)..(m + 1)
          /\ \A j \in (k + 1)..m : j \in (k + 1)..(m + 1)
      BY <2>7
    <3>2. Hidden(chain, k, m, U[m].frame.rows[i][c])
      BY <1>4, <2>4, <3>1
    <3>3. ASSUME NEW u, Hidden(chain, k, m, u) PROVE Hidden(chain, k, m + 1, u)
      BY <3>1, <3>3 DEF Hidden
    <3>4. CASE x.column # c
      <4>1. c \in C
        <5>1. k \in 1..Len(chain) /\ k - 1 \in 0..Len(chain) /\ k \in 0..m
          BY <3>1
        <5>2. ~U[k].panic
          BY <2>4, <2>1, <5>1, RunStands DEF U
        <5>3. U[k] = Apply(U[k - 1], chain[k]) /\ Standing(U[k - 1], C, n)
          BY <1>1, <1>2, <5>1
        <5>4. ASSUME NEW a, a = U[k - 1], NEW y, y = chain[k] PROVE Worked(a, y, C, n)
          <6>1. Standing(a, C, n) /\ ~Apply(a, y).panic
            BY <5>2, <5>3, <5>4
          <6> QED BY <6>1, ApplyStep
        <5>5. Worked(U[k - 1], chain[k], C, n)
          BY <5>4
        <5> QED BY <5>5 DEF Worked
      <4>2. U[m + 1].frame.rows[i][c] = U[m].frame.rows[i][c]
        BY <2>4, <3>4, <4>1
      <4> QED BY <3>2, <3>3, <4>2
    <3>5. CASE x.column = c
      <4>1. U[m + 1].frame.rows[i][c] = w /\ v = U[m].frame.rows[i][c]
        BY <2>4, <3>5
      <4>2. w = v \/ w[1] # "source" \/ (x.kind = "nullify" /\ w = Null)
        BY <2>5, TransformedAgain
      <4>3. CASE w = v
        BY <3>2, <3>3, <4>1, <4>3
      <4>4. CASE w[1] # "source"
        BY <4>1, <4>4 DEF Hidden
      <4>5. CASE x.kind = "nullify" /\ w = Null
        BY <3>1, <3>5, <4>1, <4>5 DEF Hidden
      <4> QED BY <4>2, <4>3, <4>4, <4>5
    <3> QED BY <3>4, <3>5
  <2> QED BY <2>6, <2>7
<1>5. \A m \in Nat : m \in G
  <2> HIDE DEF G
  <2> QED BY <1>3, <1>4, NatSetInduction
<1>6. \A m \in k..Len(chain) : m \in Nat
  OBVIOUS
<1>7. \A m \in k..Len(chain) : ~U[m].panic => Good(m)
  BY <1>5, <1>6
<1> QED BY <1>7 DEF U

\* The k-th transformator is a seeded faker, first to draw and last on its column.
Alone(chain, k) ==
    /\ chain[k].kind = "name"
    /\ \A j \in 1..(k - 1) : chain[j].kind \notin Drawing
    /\ Unworked(chain, k, Len(chain), chain[k].column)

\* In the n rows of a the column of x holds fakes of the generator's first state.
FirstFakes(a, x, n) == \A i \in 1..n : \E v : a.frame.rows[i][x.column] = Fake(x, <<>>, v)

\* What such a faker leaves: the generator is in its first state for all cells.
LEMMA RunFakes ==
    ASSUME NEW C, NEW n \in Nat, NEW start, Standing(start, C, n), start.rng = <<>>,
           NEW chain, Len(chain) \in Nat, NEW k \in 1..Len(chain), Alone(chain, k),
           ~Run(start, chain)[Len(chain)].panic
    PROVE  FirstFakes(Run(start, chain)[Len(chain)], chain[k], n)
<1> DEFINE U == Run(start, chain)
           x == chain[k]
           a == U[k - 1]
           s == Column(a.frame, x.column)
<1>1. k \in 0..Len(chain) /\ k - 1 \in 0..Len(chain) /\ Len(chain) \in k..Len(chain)
      /\ Len(chain) \in 0..Len(chain) /\ k \in 0..Len(chain) /\ x.kind \notin Drawing
  BY DEF Drawing, Alone
<1>2. U[k] = Apply(a, x)
  BY RunStep
<1>3. Standing(a, C, n)
  BY <1>1, RunStands
<1>4. ~U[k].panic /\ ~a.panic
  BY <1>1, RunStands
<1>5. a.rng = <<>>
  BY <1>1, <1>4, RunUndrawn DEF Alone
<1> HIDE DEF a
<1>6. Worked(a, x, C, n)
  <2> HIDE DEF U, x
  <2>1. ~Apply(a, x).panic
    BY <1>2, <1>4
  <2> QED BY <1>3, <2>1, ApplyStep
<1>7. s = [i \in 1..n |-> s[i]]
  <2>1. DOMAIN a.frame.rows = 1..n
    BY <1>3, ShapedRows DEF Standing
  <2>2. s = [i \in 1..n |-> a.frame.rows[i][x.column]]
    BY <2>1 DEF Column
  <2> HIDE DEF s
  <2> QED BY <2>2
<1> HIDE DEF s
<1>8. s \in Seq({s[i] : i \in 1..n}) /\ Len(s) = n
  BY <1>7, FunctionIsSequence
<1>9. ASSUME NEW i \in 1..n PROVE Advanced(<<>>, x, SubSeq(s, 1, i - 1)) = <<>>
  <2>1. SubSeq(s, 1, i - 1) \in Seq({s[j] : j \in 1..n})
    BY <1>8
  <2> QED BY <1>1, <2>1, NotAdvanced
<1> SUFFICES ASSUME NEW i \in 1..n
             PROVE  \E v : U[Len(chain)].frame.rows[i][x.column] = Fake(x, <<>>, v)
  BY DEF FirstFakes
<1>10. U[Len(chain)].frame.rows[i][x.column] = U[k].frame.rows[i][x.column]
  <2>1. x.column \in C
    BY <1>6 DEF Worked
  <2>2. SameCells(U[Len(chain)], U[k], x.column, n)
    BY <1>1, <2>1, RunUntouched DEF Alone
  <2> QED BY <2>2 DEF SameCells
<1>11. U[k].frame.rows[i][x.column] = NewCell(a, x, i)
  <2> HIDE DEF U, x
  <2> QED BY <1>2, <1>6 DEF Worked
<1>12. NewCell(a, x, i) = Fake(x, <<>>, a.frame.rows[i][x.column])
  <2> DEFINE id == IF x.kind = "idEmail" THEN a.frame.rows[i]["id"] ELSE Null
             v  == a.frame.rows[i][x.column]
  <2>1. x.kind = "name" /\ NewCell(a, x, i) = Transformed(x, <<>>, v, id)
    BY <1>5, <1>9 DEF NewCell, s, Alone
  <2> QED BY <2>1 DEF Transformed
<1> QED BY <1>10, <1>11, <1>12

----------------------------------------------------------------------------
\* The transformators of a table.

\* g is the frame f of the columns C, anonymized as c says: the rows stay; a
\* column that is missing is named by nullify and replace only; the cells of a
\* column nobody works on stay; of the others only hidden cells are left, and of
\* a seeded faker that comes first and last the fakes of its first state.
AnonymizedAs(g, f, c, C) ==
    LET s == Transformators(c)
        n == Len(f.rows)
    IN  /\ Shaped(g, C, n)
        /\ \A k \in 1..Len(s) : ~SingleColumn(s[k]) => s[k].column \in C
        /\ \A d \in C : (\A k \in 1..Len(s) : s[k].column # d) =>
              \A i \in 1..n : g.rows[i][d] = f.rows[i][d]
        /\ \A k \in 1..Len(s) : s[k].column \in C =>
              \A i \in 1..n : Hidden(s, k, Len(s), g.rows[i][s[k].column])
        /\ \A k \in 1..Len(s) : s[k].column \in C /\ Undrawn(c, k) =>
              \A i \in 1..n : \E v : g.rows[i][s[k].column] = Fake(s[k], <<>>, v)

\* That is what the chain makes of it, unless it panics.
LEMMA AnonymizedFrame ==
    ASSUME NEW C, NEW cells, NEW f \in Frames(C, cells), NEW c,
           Transformators(c) \in Seq(Range(Transformators(c))),
           ~Anonymized(f, c).panic,
           NEW g, g = Anonymized(f, c).frame,
           NEW s, s = Transformators(c)
    PROVE  AnonymizedAs(g, f, c, C)
<1> DEFINE n     == Len(f.rows)
           I     == {k \in DOMAIN s : Applicable(f, s[k])}
           chain == Selected(s, I)
           start == Start(f, c)
           L     == Len(chain)
           U     == Run(start, chain)
<1>1. n \in Nat /\ Shaped(f, C, n) /\ Columns(f) = C
  BY FrameShaped, ShapedRows
<1>2. start.frame = f /\ start.rng = <<>> /\ start.panic = Misspelt(c) /\ Standing(start, C, n)
  BY <1>1 DEF Start, Standing
<1>3. Anonymized(f, c) = U[L]
  BY DEF Anonymized, Chain
<1>4. s \in Seq(Range(s)) /\ DOMAIN s = 1..Len(s) /\ Len(s) \in Nat
  OBVIOUS
<1>5. \A k \in 1..Len(s) : s[k].column \in C \/ ~SingleColumn(s[k]) => k \in I
  BY <1>1, <1>4 DEF Applicable
<1> HIDE DEF I
<1>6. PICK at : Positions(chain, s, Len(s), I, at)
  BY <1>4, SelectedAt
<1>7. chain \in Seq(Range(s)) /\ L \in Nat
  BY <1>4, SelectedAt
<1>8. /\ \A j \in 1..L : at[j] \in 1..Len(s) /\ chain[j] = s[at[j]]
      /\ \A i, j \in 1..L : i < j => at[i] < at[j]
      /\ \A k \in 1..Len(s) : s[k].column \in C \/ ~SingleColumn(s[k]) => \E j \in 1..L : at[j] = k
  <2>1. \A k \in I \cap (1..Len(s)) : \E j \in 1..L : at[j] = k
    BY <1>6 DEF Positions
  <2>2. \A k \in 1..Len(s) : s[k].column \in C \/ ~SingleColumn(s[k]) => \E j \in 1..L : at[j] = k
    BY <1>5, <2>1
  <2>3. /\ \A j \in 1..L : at[j] \in 1..Len(s) /\ chain[j] = s[at[j]]
        /\ \A i, j \in 1..L : i < j => at[i] < at[j]
    BY <1>6 DEF Positions
  <2> QED BY <2>2, <2>3
<1> HIDE DEF chain, start, n
<1>9. ~U[L].panic /\ g = U[L].frame
  BY <1>3
<1>10. L \in 0..L /\ 0 \in 0..L
  BY <1>7
<1>11. U[0] = start /\ ~U[0].panic
  <2>1. U[0] = start
    BY <1>7, RunStep
  <2>2. \A j \in 0..L : ~U[j].panic
    BY <1>1, <1>2, <1>7, <1>9, <1>10, RunStands
  <2> QED BY <1>10, <2>1, <2>2
<1>12. \A j \in 1..Len(s) : s[j].kind \in Kinds
  BY <1>2, <1>4, <1>11 DEF Misspelt
<1>13. Shaped(g, C, n)
  <2>1. Standing(U[L], C, n)
    BY <1>1, <1>2, <1>7, <1>10, RunStands
  <2> QED BY <1>9, <2>1 DEF Standing
<1>14. ASSUME NEW d \in C, \A k \in 1..Len(s) : s[k].column # d, NEW i \in 1..n
       PROVE  g.rows[i][d] = f.rows[i][d]
  <2>1. Unworked(chain, 0, L, d)
    BY <1>8, <1>14 DEF Unworked
  <2>2. SameCells(U[L], U[0], d, n)
    BY <1>1, <1>2, <1>7, <1>9, <1>10, <2>1, RunUntouched
  <2> QED BY <1>2, <1>9, <1>11, <2>2 DEF SameCells
<1>15. ASSUME NEW k \in 1..Len(s), s[k].column \in C, NEW i \in 1..n
       PROVE  Hidden(s, k, Len(s), g.rows[i][s[k].column])
  <2>1. PICK h \in 1..L : at[h] = k
    BY <1>8, <1>15
  <2>2. chain[h] = s[k]
    BY <1>8, <2>1
  <2>3. \A j \in 1..L : chain[j].kind \in Kinds
    BY <1>8, <1>12
  <2>4. L \in h..L
    BY <1>7
  <2>5. Hidden(chain, h, L, U[L].frame.rows[i][chain[h].column])
    BY <1>1, <1>2, <1>7, <1>9, <2>3, <2>4, RunHides
  <2> DEFINE w == g.rows[i][s[k].column]
  <2>6. Hidden(chain, h, L, w)
    BY <1>9, <2>2, <2>5
  <2> HIDE DEF w
  <2>7. ASSUME NEW j \in (h + 1)..L, chain[j].column = chain[h].column, chain[j].kind = "nullify"
        PROVE  \E l \in (k + 1)..Len(s) : s[l].column = s[k].column /\ s[l].kind = "nullify"
    <3>1. j \in 1..L /\ h < j /\ h \in 1..L
      BY <1>7
    <3>2. at[j] \in 1..Len(s) /\ k < at[j] /\ chain[j] = s[at[j]]
      BY <1>8, <2>1, <3>1
    <3>3. at[j] \in (k + 1)..Len(s)
      BY <3>2
    <3> QED BY <2>2, <2>7, <3>2, <3>3
  <2>8. Hidden(s, k, Len(s), w)
    BY <2>2, <2>6, <2>7 DEF Hidden
  <2> QED BY <2>8 DEF w
<1>16. ASSUME NEW k \in 1..Len(s), s[k].column \in C, Undrawn(c, k), NEW i \in 1..n
       PROVE  \E v : g.rows[i][s[k].column] = Fake(s[k], <<>>, v)
  <2>1. PICK h \in 1..L : at[h] = k
    BY <1>8, <1>16
  <2>2. chain[h] = s[k] /\ s[k].kind = "name"
    BY <1>8, <1>16, <2>1 DEF Undrawn
  <2>3. /\ \A j \in 1..Len(s) : j < k => s[j].kind \notin Drawing
        /\ \A j \in 1..Len(s) : j > k => s[j].column # s[k].column
    BY <1>4, <1>16 DEF Undrawn
  <2>4. ASSUME NEW j \in 1..(h - 1) PROVE chain[j].kind \notin Drawing
    <3>1. j \in 1..L /\ j < h
      BY <1>7
    <3>2. at[j] \in 1..Len(s) /\ at[j] < k /\ chain[j] = s[at[j]]
      BY <1>8, <2>1, <3>1
    <3> QED BY <2>3, <3>2
  <2>5. ASSUME NEW j \in (h + 1)..L PROVE chain[j].column # chain[h].column
    <3>1. j \in 1..L /\ h < j
      BY <1>7
    <3>2. at[j] \in 1..Len(s) /\ at[j] > k /\ chain[j] = s[at[j]]
      BY <1>8, <2>1, <3>1
    <3> QED BY <2>2, <2>3, <3>2
  <2>6. Alone(chain, h)
    BY <2>2, <2>4, <2>5 DEF Alone, Unworked
  <2>7. FirstFakes(U[L], chain[h], n)
    BY <1>1, <1>2, <1>7, <1>9, <2>6, RunFakes
  <2> QED BY <1>9, <2>2, <2>7 DEF FirstFakes
<1>17. ASSUME NEW k \in 1..Len(s), ~SingleColumn(s[k]) PROVE s[k].column \in C
  <2>1. PICK h \in 1..L : at[h] = k
    BY <1>8, <1>17
  <2>2. chain[h].column \in C
    BY <1>1, <1>2, <1>7, <1>9, RunColumn
  <2> QED BY <1>8, <2>1, <2>2
<1> QED BY <1>13, <1>14, <1>15, <1>16, <1>17 DEF n, AnonymizedAs

----------------------------------------------------------------------------
\* What a call makes of a file.

LEMMA ConfigKnown ==
    ASSUME NEW c \in AnyConfig, c # NoTable
    PROVE  /\ Transformators(c) \in Seq(Range(Transformators(c)))
           /\ c.keep # NoLimit => c.keep \in Nat
<1>1. PICK t \in Tables : c \in Configs[t]
  BY DEF AnyConfig
<1>2. \A d \in Configs[t] : /\ Transformators(d) \in Seq(Range(Transformators(d)))
                            /\ d.keep # NoLimit => d.keep \in Nat
  BY ConfigsAssumption, Zenon
<1> QED BY <1>1, <1>2, Zenon

\* Before the filter: a frame of the file's columns, within the row limit.
LEMMA SaneFrame ==
    ASSUME NEW p \in Parquet, NEW c \in AnyConfig
    PROVE  /\ Sane(p, c) \in Frames(Columns(Source[p]), Originals)
           /\ Len(Sane(p, c).rows) <= Len(Source[p].rows)
           /\ reduction /\ c # NoTable /\ p \in FirstLoad /\ c.keep # NoLimit
                 => Len(Sane(p, c).rows) <= c.keep
<1> DEFINE C == Columns(Source[p])
           Limited == reduction /\ c # NoTable /\ p \in FirstLoad /\ c.keep # NoLimit
<1>1. Source[p] \in Frames(C, Originals) /\ Len(Source[p].rows) \in Nat
  <2>1. Source[p] \in Frames(C, Originals)
    BY SourceAssumption
  <2> HIDE DEF C
  <2> QED BY <2>1, FrameShaped
<1> HIDE DEF C
<1>2. /\ Read(p, c) \in Frames(C, Originals)
      /\ Len(Read(p, c).rows) <= Len(Source[p].rows)
      /\ Limited => Len(Read(p, c).rows) <= c.keep
  <2>1. CASE Limited
    <3>1. c.keep \in Nat /\ Read(p, c) = Sliced(Source[p], c.keep)
      BY <2>1, ConfigKnown DEF Read
    <3> QED BY <1>1, <3>1, SlicedShaped
  <2>2. CASE ~Limited
    <3>1. Read(p, c) = Source[p]
      BY <2>2 DEF Read
    <3> QED BY <1>1, <2>2, <3>1
  <2> QED BY <2>1, <2>2
<1>3. Null \in Originals
  BY StringsAssumption
<1>4. Sane(p, c) = Sanitized(Read(p, c)) \/ Sane(p, c) = Read(p, c)
  BY DEF Sane
<1>5. /\ Sane(p, c) \in Frames(C, Originals)
      /\ Len(Sane(p, c).rows) = Len(Read(p, c).rows)
  <2>1. CASE Sane(p, c) = Sanitized(Read(p, c))
    BY <1>2, <1>3, <2>1, SanitizedShaped
  <2> QED BY <1>2, <1>4, <2>1
<1> QED BY <1>2, <1>5 DEF C

\* A table that is configured is filtered and anonymized.
LEMMA ConfiguredOutcome ==
    ASSUME NEW p \in Parquet, NEW c \in AnyConfig, c # NoTable, ~Outcome(p, c).panic,
           NEW f, f = Filtered(Sane(p, c), c.filter)
    PROVE  /\ Outcome(p, c) = Anonymized(f, c)
           /\ f \in Frames(Columns(Source[p]), Originals)
           /\ Len(f.rows) <= Len(Sane(p, c).rows)
<1>1. ~FilterFails(Sane(p, c), c.filter)
  <2>1. FilterFails(Sane(p, c), c.filter) => Outcome(p, c).panic
    BY DEF Outcome
  <2> QED BY <2>1
<1>2. Outcome(p, c) = Anonymized(f, c)
  BY <1>1 DEF Outcome
<1>3. Sane(p, c) \in Frames(Columns(Source[p]), Originals)
  BY SaneFrame
<1> DEFINE C == Columns(Source[p])
<1> HIDE DEF C
<1>4. f \in Frames(C, Originals) /\ Len(f.rows) <= Len(Sane(p, c).rows)
  BY <1>3, FilteredShaped DEF C
<1> QED BY <1>2, <1>4 DEF C

\* Configured or not, the dataframe has the columns of the file and no more
\* rows than the file or the limit.
LEMMA OutcomeFrame ==
    ASSUME NEW p \in Parquet, NEW c \in AnyConfig, ~Outcome(p, c).panic
    PROVE  \E n \in Nat :
              /\ Shaped(Outcome(p, c).frame, Columns(Source[p]), n)
              /\ n <= Len(Source[p].rows)
              /\ reduction /\ c # NoTable /\ p \in FirstLoad /\ c.keep # NoLimit => n <= c.keep
<1> DEFINE C == Columns(Source[p])
           g == Outcome(p, c).frame
           Limited == reduction /\ c # NoTable /\ p \in FirstLoad /\ c.keep # NoLimit
           m == Len(Sane(p, c).rows)
<1>1. /\ Sane(p, c) \in Frames(C, Originals)
      /\ m <= Len(Source[p].rows)
      /\ Limited => m <= c.keep
  BY SaneFrame
<1>2. Limited => c.keep \in Nat
  BY ConfigKnown
<1>3. Len(Source[p].rows) \in Nat
  <2>1. Source[p] \in Frames(C, Originals)
    BY SourceAssumption
  <2> QED BY <2>1, FrameShaped
<1>4. CASE c = NoTable
  <2>1. g = Sane(p, c)
    BY <1>4 DEF Outcome
  <2>2. m \in Nat /\ Shaped(g, C, m)
    BY <1>1, <2>1, FrameShaped
  <2> QED BY <1>1, <2>2
<1>5. CASE c # NoTable
  <2> DEFINE f == Filtered(Sane(p, c), c.filter)
  <2>1. /\ Outcome(p, c) = Anonymized(f, c)
        /\ f \in Frames(C, Originals) /\ Len(f.rows) <= m
    BY <1>5, ConfiguredOutcome
  <2>2. Transformators(c) \in Seq(Range(Transformators(c)))
    BY <1>5, ConfigKnown
  <2> HIDE DEF f, C
  <2>3. Len(f.rows) \in Nat
    BY <2>1, FrameShaped
  <2>4. Shaped(g, C, Len(f.rows))
    BY <2>1, <2>2, AnonymizedFrame DEF AnonymizedAs
  <2>5. m \in Nat
    BY <1>1, FrameShaped
  <2>6. Len(f.rows) <= Len(Source[p].rows) /\ (Limited => Len(f.rows) <= c.keep)
    BY <1>1, <1>2, <1>3, <2>1, <2>3, <2>5
  <2> QED BY <2>3, <2>4, <2>6 DEF C
<1> QED BY <1>4, <1>5

----------------------------------------------------------------------------
\* The anonymized bucket.

InvShape ==
    /\ stage \in [Parquet -> Stages]
    /\ DOMAIN config = Parquet /\ DOMAIN frame = Parquet /\ DOMAIN object = Parquet

\* Only a file whose table is not configured is copied, and its dataframe is
\* then the file; before a call has anything to release nothing of it is in the
\* bucket, and while one is under way the old object is still there.
InvBucket ==
    \A p \in Parquet :
       /\ stage[p] = "copy" => config[p] = NoTable /\ frame[p] = Source[p]
       /\ stage[p] \in {"idle", "download", "skipped"} => object[p] = OldObject

BucketInv == InvShape /\ InvBucket /\ ObjectIsFrame

\* A table without a configuration is neither limited nor anonymized.
LEMMA UnconfiguredAsRead ==
    ASSUME NEW p \in Parquet
    PROVE  Outcome(p, NoTable).frame = Source[p]
BY DEF Outcome, Sane, Read

\* A step that leaves the buckets and dataframes alone and lets no file be copied.
LEMMA StageOnly ==
    ASSUME BucketInv, NEW p \in Parquet, stage[p] = "idle",
           NEW s \in {"skipped", "download"}, stage' = [stage EXCEPT ![p] = s],
           NEW c, config' = [config EXCEPT ![p] = c], UNCHANGED <<frame, object>>
    PROVE  BucketInv'
BY DEF BucketInv, InvShape, InvBucket, ObjectIsFrame, Stages

LEMMA InitBucketInv == Init => BucketInv
BY DEF Init, BucketInv, InvShape, InvBucket, ObjectIsFrame, Stages

LEMMA NextBucketInv == BucketInv /\ [Next]_vars => BucketInv'
<1> SUFFICES ASSUME BucketInv, [Next]_vars PROVE BucketInv'
  OBVIOUS
<1>1. ASSUME NEW p \in Parquet, Skip(p) PROVE BucketInv'
  BY <1>1, StageOnly DEF Skip, Due
<1>2. ASSUME NEW p \in Parquet, Request(p) PROVE BucketInv'
  BY <1>2, StageOnly DEF Request, Due
<1>3. ASSUME NEW p \in Parquet, Download(p) PROVE BucketInv'
  <2> DEFINE out == Outcome(p, config[p])
  <2>1. /\ stage[p] = "download" /\ frame' = [frame EXCEPT ![p] = out.frame]
        /\ UNCHANGED <<config, object>>
    BY <1>3 DEF Download
  <2>2. PICK s \in {"returned", "copy", "upload"} :
           /\ stage' = [stage EXCEPT ![p] = s]
           /\ s = "copy" => config[p] = NoTable
    BY <1>3 DEF Download
  <2>3. s = "copy" => out.frame = Source[p]
    BY <2>2, UnconfiguredAsRead
  <2>4. object[p] = OldObject
    BY <2>1 DEF BucketInv, InvBucket
  <2> HIDE DEF out
  <2>5. InvShape'
    BY <2>1, <2>2 DEF BucketInv, InvShape, Stages
  <2>6. InvBucket' /\ ObjectIsFrame'
    BY <2>1, <2>2, <2>3, <2>4 DEF BucketInv, InvShape, InvBucket, ObjectIsFrame
  <2> QED BY <2>5, <2>6 DEF BucketInv
<1>4. ASSUME NEW p \in Parquet, Fail(p) PROVE BucketInv'
  BY <1>4 DEF Fail, BucketInv, InvShape, InvBucket, ObjectIsFrame
<1>5. ASSUME NEW p \in Parquet, Copy(p) PROVE BucketInv'
  BY <1>5 DEF Copy, BucketInv, InvShape, InvBucket, ObjectIsFrame, Stages
<1>6. ASSUME NEW p \in Parquet, Upload(p) PROVE BucketInv'
  BY <1>6 DEF Upload, BucketInv, InvShape, InvBucket, ObjectIsFrame, Stages
<1>7. CASE Die
  <2>1. UNCHANGED <<stage, config, frame>>
    BY <1>7 DEF Die
  <2>2. PICK S \in SUBSET {p \in Parquet : stage[p] \in {"copy", "upload"}} :
           object' = [p \in Parquet |->
                        IF p \in S THEN IF stage[p] = "copy" THEN Source[p] ELSE frame[p]
                        ELSE object[p]]
    BY <1>7 DEF Die, InFlight
  <2> QED BY <2>1, <2>2 DEF BucketInv, InvShape, InvBucket, ObjectIsFrame
<1>8. CASE UNCHANGED vars
  BY <1>8 DEF vars, BucketInv, InvShape, InvBucket, ObjectIsFrame
<1> QED
  BY <1>1, <1>2, <1>3, <1>4, <1>5, <1>6, <1>7, <1>8 DEF Next, Progress

----------------------------------------------------------------------------
\* The state of the calls.

\* After it has read the configuration a call has been told to go on or to skip
\* the file, and a dataframe is what Outcome says, for the configuration it has read.
InvConfig ==
    /\ configured \in [Tables -> AnyConfig]
    /\ reduction \in BOOLEAN /\ upload \in BOOLEAN /\ dead \in BOOLEAN
    /\ config \in [Parquet -> AnyConfig]
    /\ \A p \in Parquet : config[p] \in {configured[Table(p)], NoTable}
    /\ \A p \in Parquet : \A c \in AnyConfig :
          config[p] = c /\ stage[p] \notin {"idle", "skipped"} => ~Skips(p, c)

Made == {"copy", "upload", "returned"}

InvFrame ==
    \A p \in Parquet : \A c \in AnyConfig :
       /\ stage[p] \in Made /\ config[p] = c
             => ~Outcome(p, c).panic /\ frame[p] = Outcome(p, c).frame
       /\ stage[p] \notin Made => frame[p] = NoFrame

FrameInv == BucketInv /\ InvConfig /\ InvFrame

\* Every file has a table.
LEMMA TableKnown ==
    ASSUME NEW p \in Parquet
    PROVE  Table(p) \in Tables /\ p \in Range(FilesOf[Table(p)])
BY FilesOfAssumption DEF Table

\* What a call makes of a file depends on no variable but the row limits.
LEMMA OutcomeConstant ==
    ASSUME reduction' = reduction, NEW p, NEW c
    PROVE  Outcome(p, c)' = Outcome(p, c) /\ Skips(p, c)' = Skips(p, c)
BY DEF Outcome, Sane, Read, Skips

LEMMA InitFrameInv == Init => FrameInv
<1> SUFFICES ASSUME Init PROVE FrameInv
  OBVIOUS
<1>1. BucketInv
  BY InitBucketInv
<1>2. NoTable \in AnyConfig
  BY DEF AnyConfig
<1>3. InvConfig
  BY <1>2 DEF Init, InvConfig
<1>4. InvFrame
  BY DEF Init, InvFrame, Made
<1> QED BY <1>1, <1>3, <1>4 DEF FrameInv

\* A call that reads its configuration: to skip the file, or to download it.
LEMMA ConfigRead ==
    ASSUME FrameInv, NEW p \in Parquet, stage[p] = "idle",
           NEW s \in {"skipped", "download"}, stage' = [stage EXCEPT ![p] = s],
           NEW c \in ReadConfig(p), s = "download" => ~Skips(p, c),
           config' = [config EXCEPT ![p] = c],
           UNCHANGED <<configured, reduction, upload, frame, dead>>
    PROVE  InvConfig' /\ InvFrame'
<1>1. c \in {configured[Table(p)], NoTable}
  BY DEF ReadConfig
<1>2. c \in AnyConfig
  BY <1>1, TableKnown DEF FrameInv, InvConfig, AnyConfig
<1>3. config \in [Parquet -> AnyConfig] /\ stage \in [Parquet -> Stages]
  BY DEF FrameInv, BucketInv, InvShape, InvConfig
<1>4. \A q \in Parquet : /\ config'[q] = IF q = p THEN c ELSE config[q]
                         /\ stage'[q] = IF q = p THEN s ELSE stage[q]
  BY <1>3
<1>5. \A q \in Parquet : \A d \in AnyConfig : config'[q] = d /\ stage'[q] \notin {"idle", "skipped"}
         => ~Skips(q, d)
  BY <1>4 DEF FrameInv, InvConfig
<1>6. \A q \in Parquet : \A d \in AnyConfig : config'[q] = d /\ stage'[q] \notin {"idle", "skipped"}
         => ~Skips(q, d)'
  BY <1>5, OutcomeConstant
<1>7. InvConfig'
  <2>1. config' \in [Parquet -> AnyConfig]
    BY <1>2, <1>3
  <2>2. \A q \in Parquet : config'[q] \in {configured'[Table(q)], NoTable}
    BY <1>1, <1>4 DEF FrameInv, InvConfig
  <2> QED BY <1>6, <2>1, <2>2 DEF FrameInv, InvConfig
<1>8. \A q \in Parquet : \A d \in AnyConfig :
         /\ stage'[q] \in Made /\ config'[q] = d
             => ~Outcome(q, d).panic /\ frame'[q] = Outcome(q, d).frame
         /\ stage'[q] \notin Made => frame'[q] = NoFrame
  BY <1>4 DEF FrameInv, InvFrame, Made
<1>9. InvFrame'
  <2>1. \A q \in Parquet : \A d \in AnyConfig : Outcome(q, d)' = Outcome(q, d)
    BY OutcomeConstant
  <2> QED BY <1>8, <2>1 DEF InvFrame
<1> QED BY <1>7, <1>9

\* A step that reads no configuration.
LEMMA ConfigKept ==
    ASSUME FrameInv, UNCHANGED <<configured, reduction, upload, config>>, dead' \in BOOLEAN,
           \A p \in Parquet : stage'[p] \notin {"idle", "skipped"} => stage[p] \notin {"idle", "skipped"}
    PROVE  InvConfig'
<1>1. \A q \in Parquet : \A d \in AnyConfig : config'[q] = d /\ stage'[q] \notin {"idle", "skipped"}
         => ~Skips(q, d)
  BY DEF FrameInv, InvConfig
<1>2. \A q \in Parquet : \A d \in AnyConfig : config'[q] = d /\ stage'[q] \notin {"idle", "skipped"}
         => ~Skips(q, d)'
  BY <1>1, OutcomeConstant
<1> QED BY <1>2 DEF FrameInv, InvConfig

\* A step that makes no dataframe.
LEMMA FrameKept ==
    ASSUME FrameInv, UNCHANGED <<reduction, config, frame>>,
           \A p \in Parquet : stage'[p] \in Made <=> stage[p] \in Made
    PROVE  InvFrame'
<1>1. \A q \in Parquet : \A d \in AnyConfig :
         /\ stage'[q] \in Made /\ config'[q] = d
             => ~Outcome(q, d).panic /\ frame'[q] = Outcome(q, d).frame
         /\ stage'[q] \notin Made => frame'[q] = NoFrame
  BY DEF FrameInv, InvFrame
<1>2. \A q \in Parquet : \A d \in AnyConfig : Outcome(q, d)' = Outcome(q, d)
  BY OutcomeConstant
<1> QED BY <1>1, <1>2 DEF InvFrame

LEMMA NextFrameInv == FrameInv /\ [Next]_vars => FrameInv'
<1> SUFFICES ASSUME FrameInv, [Next]_vars PROVE FrameInv'
  OBVIOUS
<1>1. BucketInv'
  BY NextBucketInv DEF FrameInv
<1>2. stage \in [Parquet -> Stages] /\ dead \in BOOLEAN
  BY DEF FrameInv, BucketInv, InvShape, InvConfig
<1> SUFFICES InvConfig' /\ InvFrame'
  BY <1>1 DEF FrameInv
<1>3. ASSUME NEW p \in Parquet, Skip(p) PROVE InvConfig' /\ InvFrame'
  BY <1>3, ConfigRead DEF Skip, Due
<1>4. ASSUME NEW p \in Parquet, Request(p) PROVE InvConfig' /\ InvFrame'
  BY <1>4, ConfigRead DEF Request, Due
<1>5. ASSUME NEW p \in Parquet, Download(p) PROVE InvConfig' /\ InvFrame'
  <2>1. /\ stage[p] = "download" /\ ~Outcome(p, config[p]).panic
        /\ frame' = [frame EXCEPT ![p] = Outcome(p, config[p]).frame]
        /\ UNCHANGED <<configured, reduction, upload, config, object, dead>>
    BY <1>5 DEF Download
  <2>2. PICK s \in Made : stage' = [stage EXCEPT ![p] = s]
    BY <1>5 DEF Download, Made
  <2>3. InvConfig'
    BY <1>2, <2>1, <2>2, ConfigKept
  <2>4. DOMAIN frame = Parquet
    BY DEF FrameInv, BucketInv, InvShape
  <2>5. \A q \in Parquet : \A d \in AnyConfig :
           /\ stage'[q] \in Made /\ config'[q] = d
               => ~Outcome(q, d).panic /\ frame'[q] = Outcome(q, d).frame
           /\ stage'[q] \notin Made => frame'[q] = NoFrame
    BY <1>2, <2>1, <2>2, <2>4 DEF FrameInv, InvFrame
  <2>6. \A q \in Parquet : \A d \in AnyConfig : Outcome(q, d)' = Outcome(q, d)
    BY <2>1, OutcomeConstant
  <2>7. InvFrame'
    BY <2>5, <2>6 DEF InvFrame
  <2> QED BY <2>3, <2>7
<1>6. ASSUME NEW p \in Parquet, Fail(p) PROVE InvConfig' /\ InvFrame'
  BY <1>6, ConfigKept, FrameKept DEF Fail
<1>7. ASSUME NEW p \in Parquet, Copy(p) \/ Upload(p) PROVE InvConfig' /\ InvFrame'
  <2>1. /\ stage[p] \in {"copy", "upload"} /\ stage' = [stage EXCEPT ![p] = "returned"]
        /\ UNCHANGED <<configured, reduction, upload, config, frame, dead>>
    BY <1>7 DEF Copy, Upload
  <2> QED BY <1>2, <2>1, ConfigKept, FrameKept DEF Made
<1>8. CASE Die
  BY <1>8, ConfigKept, FrameKept DEF Die
<1>9. CASE UNCHANGED vars
  BY <1>2, <1>9, ConfigKept, FrameKept DEF vars
<1> QED
  BY <1>3, <1>4, <1>5, <1>6, <1>7, <1>8, <1>9 DEF Next, Progress

----------------------------------------------------------------------------
\* What leaves the operator.

\* What is released is what Outcome says, to the target and to the bucket.
LEMMA ReleasedOutcome ==
    ASSUME FrameInv, NEW p \in Parquet, NEW f \in Released(p), NEW c, c = config[p]
    PROVE  /\ c \in AnyConfig /\ stage[p] \in Made
           /\ ~Outcome(p, c).panic /\ f = Outcome(p, c).frame
<1>1. c \in AnyConfig
  BY DEF FrameInv, InvConfig
<1>2. f = frame[p] /\ stage[p] \in Made
  BY DEF FrameInv, BucketInv, InvShape, InvBucket, ObjectIsFrame, Released, Made, Stages
<1> QED BY <1>1, <1>2 DEF FrameInv, InvFrame

LEMMA FrameTypeOK == FrameInv => TypeOK
<1> SUFFICES ASSUME FrameInv PROVE TypeOK
  OBVIOUS
<1>1. ASSUME NEW p \in Parquet
      PROVE  /\ frame[p] # NoFrame <=> stage[p] \in {"copy", "upload", "returned"}
             /\ frame[p] # NoFrame =>
                  /\ frame[p].types \in [Columns(Source[p]) -> CellTypes]
                  /\ Len(frame[p].rows) <= Len(Source[p].rows)
  <2> DEFINE C == Columns(Source[p])
             f == frame[p]
  <2>1. CASE stage[p] \notin Made
    <3>1. NoTable \in AnyConfig
      BY DEF AnyConfig
    <3>2. frame[p] = NoFrame
      BY <2>1, <3>1 DEF FrameInv, InvFrame
    <3> QED BY <2>1, <3>2 DEF Made
  <2>2. CASE stage[p] \in Made
    <3>1. PICK c \in AnyConfig : c = config[p]
      BY DEF FrameInv, InvConfig
    <3>2. ~Outcome(p, c).panic /\ f = Outcome(p, c).frame
      BY <2>2, <3>1 DEF FrameInv, InvFrame
    <3>3. PICK n \in Nat : Shaped(f, C, n) /\ n <= Len(Source[p].rows)
      BY <3>2, OutcomeFrame
    <3> HIDE DEF f, C
    <3>4. f.types \in [C -> CellTypes] /\ f = [types |-> f.types, rows |-> f.rows]
      BY <3>3 DEF Shaped
    <3>5. Len(f.rows) = n
      BY <3>3, ShapedRows
    <3>6. f # NoFrame
      <4>1. DOMAIN f = {"types", "rows"}
        BY <3>4
      <4>2. DOMAIN <<>> = {}
        OBVIOUS
      <4> QED BY <4>1, <4>2 DEF NoFrame
    <3> QED BY <2>2, <3>3, <3>4, <3>5, <3>6 DEF Made, f, C
  <2> QED BY <2>1, <2>2
<1> QED BY <1>1 DEF TypeOK, FrameInv, InvConfig, BucketInv, InvShape

\* The dataframe of a configured table is anonymized as the table says.
LEMMA ReleasedConfigured ==
    ASSUME FrameInv, NEW p \in Parquet, NEW f \in Released(p), NEW c, c = config[p], c # NoTable,
           NEW C, C = Columns(Source[p]), NEW g, g = Filtered(Sane(p, c), c.filter)
    PROVE  /\ c \in AnyConfig /\ g \in Frames(C, Originals) /\ AnonymizedAs(f, g, c, C)
           /\ Len(g.rows) \in Nat /\ Columns(f) = C
           /\ DOMAIN Transformators(c) = 1..Len(Transformators(c))
<1>1. c \in AnyConfig /\ ~Outcome(p, c).panic /\ f = Outcome(p, c).frame
  BY ReleasedOutcome
<1>2. Outcome(p, c) = Anonymized(g, c) /\ g \in Frames(C, Originals)
  BY <1>1, ConfiguredOutcome
<1>3. Transformators(c) \in Seq(Range(Transformators(c)))
  BY <1>1, ConfigKnown
<1>4. AnonymizedAs(f, g, c, C)
  <2>1. ~Anonymized(g, c).panic /\ f = Anonymized(g, c).frame
    BY <1>1, <1>2
  <2> QED BY <1>2, <1>3, <2>1, AnonymizedFrame
<1>5. Len(g.rows) \in Nat
  BY <1>2, FrameShaped
<1>6. Columns(f) = C
  <2>1. Shaped(f, C, Len(g.rows))
    BY <1>4 DEF AnonymizedAs
  <2> QED BY <1>5, <2>1, ShapedRows
<1>7. DOMAIN Transformators(c) = 1..Len(Transformators(c))
  BY <1>3
<1> QED BY <1>1, <1>2, <1>4, <1>5, <1>6, <1>7

\* The cells of a column stand in the rows.
LEMMA ColumnCells ==
    ASSUME NEW C, NEW n \in Nat, NEW f, Shaped(f, C, n), NEW c \in C,
           NEW w \in Range(Column(f, c))
    PROVE  \E i \in 1..n : w = f.rows[i][c]
<1>1. DOMAIN f.rows = 1..n
  BY ShapedRows
<1> QED BY <1>1 DEF Column, Range

LEMMA RowCells ==
    ASSUME NEW C, NEW n \in Nat, NEW f, Shaped(f, C, n), NEW c \in C, NEW i \in 1..n
    PROVE  f.rows[i][c] \in Range(Column(f, c))
<1>1. DOMAIN f.rows = 1..n
  BY ShapedRows
<1> QED BY <1>1 DEF Column, Range

LEMMA FrameNothingRaw == FrameInv => NothingRaw
<1> SUFFICES ASSUME FrameInv, NEW p \in Parquet, NEW f \in Released(p), config[p] # NoTable,
                    NEW s, s = Transformators(config[p]), NEW k \in DOMAIN s,
                    s[k].column \in Columns(f),
                    NEW v \in Range(Column(Source[p], s[k].column)),
                    NEW w \in Range(Column(f, s[k].column)), v = w
             PROVE  \/ v \in Spared(s[k])
                    \/ s[k].kind = "phone" /\ v \notin Digits
                    \/ v = Null /\ \E j \in DOMAIN s :
                          j > k /\ s[j].column = s[k].column /\ s[j].kind = "nullify"
  BY DEF NothingRaw
<1> DEFINE c == config[p]
           g == Filtered(Sane(p, c), c.filter)
           C == Columns(Source[p])
           n == Len(g.rows)
           d == s[k].column
<1>1. /\ n \in Nat /\ Shaped(f, C, n) /\ DOMAIN s = 1..Len(s) /\ Columns(f) = C
      /\ \A l \in 1..Len(s) : s[l].column \in C =>
            \A i \in 1..n : Hidden(s, l, Len(s), f.rows[i][s[l].column])
  <2>1. /\ n \in Nat /\ DOMAIN s = 1..Len(s) /\ Columns(f) = C
        /\ AnonymizedAs(f, g, c, C)
    BY ReleasedConfigured
  <2> HIDE DEF g, C
  <2> QED BY <2>1 DEF AnonymizedAs
<1> HIDE DEF n
<1>2. Source[p] \in Frames(C, Originals)
  BY SourceAssumption
<1> HIDE DEF C
<1>3. Columns(f) = C
  BY <1>1
<1>4. /\ Len(Source[p].rows) \in Nat /\ Shaped(Source[p], C, Len(Source[p].rows))
      /\ \A i \in 1..Len(Source[p].rows) : \A e \in C : Source[p].rows[i][e] \in Originals
  BY <1>2, FrameShaped
<1>5. v[1] = "source"
  <2>1. PICK i \in 1..Len(Source[p].rows) : v = Source[p].rows[i][d]
    BY <1>3, <1>4, ColumnCells
  <2>2. v \in Originals
    BY <1>3, <1>4, <2>1
  <2> QED BY <2>2, StringsAssumption
<1>6. Hidden(s, k, Len(s), w)
  <2>1. PICK i \in 1..n : w = f.rows[i][d]
    BY <1>1, <1>3, ColumnCells
  <2> QED BY <1>1, <1>3, <2>1
<1>7. k \in Int /\ Len(s) \in Int /\ \A j \in (k + 1)..Len(s) : j \in 1..Len(s) /\ j > k
  BY <1>1
<1> QED BY <1>1, <1>5, <1>6, <1>7 DEF Hidden

\* Two fakes of the same value from the first state of the generator.
LEMMA SameFirstFake ==
    ASSUME NEW x, x.kind = "name", NEW y, y.kind = "name", NEW v, NEW u,
           NEW a, a = Fake(x, <<>>, v), a \notin {Null, Blank, Fresh},
           NEW b, b = Fake(y, <<>>, u), b \notin {Null, Blank, Fresh},
           a[3] = b[3]
    PROVE  a = b
<1>1. a = <<"name", <<>>, v>> /\ b = <<"name", <<>>, u>>
  BY DEF Fake
<1> QED BY <1>1

\* w is a fake that x makes in the first state of the generator.
FirstFake(x, w) == x.kind = "name" /\ \E v : w = Fake(x, <<>>, v)

\* That is what is released in the column of a faker that comes first and last.
LEMMA ReleasedFake ==
    ASSUME FrameInv, NEW p \in Parquet, NEW f \in Released(p), NEW c, c = config[p], c # NoTable,
           NEW k \in DOMAIN Transformators(c), Undrawn(c, k), NEW x, x = Transformators(c)[k],
           NEW w \in Range(Column(f, x.column))
    PROVE  FirstFake(x, w)
<1> DEFINE g == Filtered(Sane(p, c), c.filter)
           C == Columns(Source[p])
           s == Transformators(c)
<1>1. AnonymizedAs(f, g, c, C) /\ Len(g.rows) \in Nat /\ DOMAIN s = 1..Len(s)
  BY ReleasedConfigured
<1> HIDE DEF g, C
<1>2. Shaped(f, C, Len(g.rows))
  BY <1>1 DEF AnonymizedAs
<1>3. x.kind = "name" /\ ~SingleColumn(x)
  BY DEF Undrawn, SingleColumn
<1>4. x.column \in C
  BY <1>1, <1>3 DEF AnonymizedAs
<1>5. PICK i \in 1..Len(g.rows) : w = f.rows[i][x.column]
  BY <1>1, <1>2, <1>4, ColumnCells
<1> QED BY <1>1, <1>3, <1>4, <1>5 DEF AnonymizedAs, FirstFake

LEMMA FrameSameFake == FrameInv => SameValueSameFake
<1> SUFFICES ASSUME FrameInv, NEW p \in Parquet, NEW q \in Parquet,
                    NEW f \in Released(p), NEW g \in Released(q),
                    config[p] # NoTable, config[q] # NoTable,
                    NEW k \in DOMAIN Transformators(config[p]),
                    NEW l \in DOMAIN Transformators(config[q]),
                    Undrawn(config[p], k), Undrawn(config[q], l),
                    NEW a \in Range(Column(f, Transformators(config[p])[k].column)),
                    NEW b \in Range(Column(g, Transformators(config[q])[l].column)),
                    a \notin {Null, Blank, Fresh}, b \notin {Null, Blank, Fresh}, a[3] = b[3]
             PROVE  a = b
  BY DEF SameValueSameFake
<1> DEFINE x == Transformators(config[p])[k]
           y == Transformators(config[q])[l]
<1>1. ASSUME NEW c, c = config[p], NEW z, z = Transformators(c)[k]
      PROVE  FirstFake(z, a)
  <2>1. c # NoTable /\ k \in DOMAIN Transformators(c) /\ Undrawn(c, k)
        /\ a \in Range(Column(f, z.column))
    BY <1>1
  <2> QED BY <1>1, <2>1, ReleasedFake
<1>2. ASSUME NEW c, c = config[q], NEW z, z = Transformators(c)[l]
      PROVE  FirstFake(z, b)
  <2>1. c # NoTable /\ l \in DOMAIN Transformators(c) /\ Undrawn(c, l)
        /\ b \in Range(Column(g, z.column))
    BY <1>2
  <2> QED BY <1>2, <2>1, ReleasedFake
<1> QED BY <1>1, <1>2, SameFirstFake DEF FirstFake

LEMMA FrameFilter == FrameInv => FilterSeesSource
<1> SUFFICES ASSUME FrameInv, NEW p \in Parquet, NEW f \in Released(p), config[p] # NoTable,
                    NEW d \in Columns(f),
                    \A k \in DOMAIN Transformators(config[p]) :
                       Transformators(config[p])[k].column # d,
                    NEW v
             PROVE  v \in Range(Column(f, d)) <=>
                      \E row \in Range(Sane(p, config[p]).rows) :
                         row[d] = v /\ Keeps(config[p].filter, row)
  BY DEF FilterSeesSource
<1> DEFINE c == config[p]
           t == Sane(p, c)
           g == Filtered(t, c.filter)
           C == Columns(Source[p])
           n == Len(g.rows)
           s == Transformators(c)
<1>1. /\ n \in Nat /\ DOMAIN s = 1..Len(s) /\ c \in AnyConfig
      /\ Columns(f) = C /\ AnonymizedAs(f, g, c, C)
  BY ReleasedConfigured
<1>2. t \in Frames(C, Originals)
  BY <1>1, SaneFrame
<1> HIDE DEF C, t
<1>3. KeptRows(g, t, c.filter)
  BY <1>2, FilteredShaped
<1>4. \A row : row \in Range(t.rows) <=> \E k \in 1..Len(t.rows) : row = t.rows[k]
  <2>1. Len(t.rows) \in Nat /\ Shaped(t, C, Len(t.rows))
    BY <1>2, FrameShaped
  <2>2. DOMAIN t.rows = 1..Len(t.rows)
    BY <2>1, ShapedRows
  <2> QED BY <2>2 DEF Range
<1> HIDE DEF g, n, c, s
<1>5. Shaped(f, C, n)
  BY <1>1 DEF AnonymizedAs, n
<1>6. \A i \in 1..n : f.rows[i][d] = g.rows[i][d]
  <2>1. d \in C /\ \A k \in 1..Len(s) : s[k].column # d
    BY <1>1 DEF s, c
  <2> QED BY <1>1, <2>1 DEF AnonymizedAs, n, s
<1>7. ASSUME v \in Range(Column(f, d))
      PROVE  \E row \in Range(t.rows) : row[d] = v /\ Keeps(c.filter, row)
  <2>1. PICK i \in 1..n : v = f.rows[i][d]
    BY <1>1, <1>5, <1>7, ColumnCells
  <2>2. PICK k \in 1..Len(t.rows) : Keeps(c.filter, t.rows[k]) /\ g.rows[i] = t.rows[k]
    BY <1>3 DEF KeptRows, n
  <2> QED BY <1>4, <1>6, <2>1, <2>2
<1>8. ASSUME NEW row \in Range(t.rows), row[d] = v, Keeps(c.filter, row)
      PROVE  v \in Range(Column(f, d))
  <2>1. PICK k \in 1..Len(t.rows) : row = t.rows[k]
    BY <1>4
  <2>2. PICK i \in 1..n : g.rows[i] = row
    BY <1>3, <1>8, <2>1 DEF KeptRows, n
  <2>3. f.rows[i][d] = v
    BY <1>6, <1>8, <2>2
  <2>4. f.rows[i][d] \in Range(Column(f, d))
    BY <1>1, <1>5, RowCells
  <2> QED BY <2>3, <2>4
<1> QED BY <1>7, <1>8 DEF t, c

\* The rows of no file, and of one.
LEMMA RowsOfNone ==
    ASSUME NEW S, S = {}
    PROVE  Rows(S) = 0
<1> DEFINE Def(g) == [s \in SUBSET S |->
                        IF s = {} THEN 0
                        ELSE LET x == CHOOSE y \in s : TRUE
                             IN  Len(frame[x].rows) + g[s \ {x}]]
<1>1. \E g : g = Def(g)
  <2>1. [s \in SUBSET S |-> 0] = Def([s \in SUBSET S |-> 0])
    OBVIOUS
  <2> HIDE DEF Def
  <2> QED BY <2>1
<1>2. Rows(S) = (CHOOSE g : g = Def(g))[S]
  BY DEF Rows, FoldSet, MapThenFoldSet
<1> DEFINE g == CHOOSE g : g = Def(g)
<1>3. g = Def(g)
  <2> HIDE DEF Def
  <2> QED BY <1>1
<1> HIDE DEF g
<1>4. g[S] = 0
  BY <1>3
<1> QED BY <1>2, <1>4 DEF g

LEMMA RowsOfOne ==
    ASSUME NEW q, Len(frame[q].rows) \in Nat
    PROVE  Rows({q}) = Len(frame[q].rows)
<1> DEFINE Def(g) == [s \in SUBSET {q} |->
                        IF s = {} THEN 0
                        ELSE LET x == CHOOSE y \in s : TRUE
                             IN  Len(frame[x].rows) + g[s \ {x}]]
           f == [s \in SUBSET {q} |-> IF s = {} THEN 0 ELSE Len(frame[q].rows)]
<1>1. f = Def(f)
  <2> SUFFICES ASSUME NEW s \in SUBSET {q}
               PROVE  f[s] = IF s = {} THEN 0
                             ELSE LET x == CHOOSE y \in s : TRUE
                                  IN  Len(frame[x].rows) + f[s \ {x}]
    OBVIOUS
  <2>1. CASE s = {}
    BY <2>1
  <2>2. CASE s = {q}
    <3> DEFINE x == CHOOSE y \in s : TRUE
    <3>1. x = q
      BY <2>2
    <3>2. s \ {q} = {} /\ s # {}
      BY <2>2
    <3>3. f[{}] = 0 /\ f[s] = Len(frame[q].rows)
      BY <2>2
    <3> HIDE DEF f, x
    <3>4. Len(frame[x].rows) + f[s \ {x}] = Len(frame[q].rows)
      <4>1. s \ {x} = {}
        BY <3>1, <3>2
      <4>2. f[s \ {x}] = 0
        BY <3>3, <4>1
      <4> QED BY <3>1, <4>2
    <3> QED BY <3>2, <3>3, <3>4 DEF x
  <2>3. s = {} \/ s = {q}
    OBVIOUS
  <2> QED BY <2>1, <2>2, <2>3
<1> HIDE DEF f
<1>2. Rows({q}) = (CHOOSE g : g = Def(g))[{q}]
  BY DEF Rows, FoldSet, MapThenFoldSet
<1> DEFINE g == CHOOSE g : g = Def(g)
<1>3. g = Def(g)
  <2> HIDE DEF Def
  <2>1. \E h : h = Def(h)
    BY <1>1
  <2> QED BY <2>1
<1> HIDE DEF g
<1>4. g[{}] = 0
  BY <1>3
<1>5. g[{q}] = Len(frame[q].rows)
  <2>1. (CHOOSE y \in {q} : TRUE) = q
    OBVIOUS
  <2>2. {q} \ {q} = {} /\ {q} # {} /\ {q} \in SUBSET {q}
    OBVIOUS
  <2>3. g[{q}] = Len(frame[q].rows) + g[{}]
    BY <1>3, <2>1, <2>2
  <2> QED BY <1>4, <2>3
<1> QED BY <1>2, <1>5 DEF g

\* A file belongs to the table whose files it is among.
LEMMA TableOf ==
    ASSUME NEW t \in Tables, NEW p \in Parquet, p \in Range(FilesOf[t])
    PROVE  Table(p) = t
<1>1. Table(p) \in Tables /\ p \in Range(FilesOf[Table(p)])
  BY TableKnown
<1>2. PICK i \in DOMAIN FilesOf[t] : FilesOf[t][i] = p
  BY DEF Range
<1>3. PICK j \in DOMAIN FilesOf[Table(p)] : FilesOf[Table(p)][j] = p
  BY <1>1 DEF Range
<1> QED BY <1>1, <1>2, <1>3, FilesOfAssumption

LEMMA FrameRowLimit == FrameInv => RowLimit
<1> SUFFICES ASSUME FrameInv, NEW t \in Tables,
                    NEW kept, kept = {p \in Range(FilesOf[t]) :
                                        stage[p] = "returned" /\ config[p] # NoTable},
                    reduction, configured[t] # NoTable, configured[t].keep # NoLimit
             PROVE  Rows(kept) <= configured[t].keep
  BY DEF RowLimit
<1> DEFINE c == configured[t]
<1>1. c \in AnyConfig /\ c.keep \in Nat
  <2>1. c \in AnyConfig
    BY DEF FrameInv, InvConfig
  <2> QED BY <2>1, ConfigKnown
<1>2. ASSUME NEW p \in kept
      PROVE  /\ p \in Range(FilesOf[t]) \cap FirstLoad
             /\ Len(frame[p].rows) \in Nat /\ Len(frame[p].rows) <= c.keep
  <2>1. p \in Parquet
    <3>1. FilesOf[t] \in Seq(Parquet)
      BY FilesOfAssumption
    <3> QED BY <1>2, <3>1 DEF Range
  <2>2. config[p] = c /\ stage[p] = "returned"
    BY <1>2, <2>1, TableOf DEF FrameInv, InvConfig
  <2>3. ~Skips(p, c) /\ ~Outcome(p, c).panic /\ frame[p] = Outcome(p, c).frame
    BY <1>1, <2>1, <2>2 DEF FrameInv, InvConfig, InvFrame, Made
  <2>4. p \in FirstLoad
    BY <2>3 DEF Skips
  <2>5. PICK n \in Nat : Shaped(frame[p], Columns(Source[p]), n) /\ n <= c.keep
    BY <1>1, <2>1, <2>3, <2>4, OutcomeFrame
  <2>6. Len(frame[p].rows) = n
    BY <2>5, ShapedRows
  <2> QED BY <1>2, <2>4, <2>5, <2>6
<1>3. CASE kept = {}
  BY <1>1, <1>3, RowsOfNone
<1>4. CASE kept # {}
  <2>1. PICK q : q \in kept
    BY <1>4
  <2>2. kept = {q}
    BY <1>2, <2>1, FilesOfAssumption
  <2> QED BY <1>2, <2>1, <2>2, RowsOfOne
<1> QED BY <1>3, <1>4

----------------------------------------------------------------------------

\* Whatever is configured and wherever the process dies, an object this run has
\* put into the bucket is the dataframe of its file.
THEOREM ObjectIsFrameCorrect == Spec => []ObjectIsFrame
<1>1. BucketInv => ObjectIsFrame
  BY DEF BucketInv
<1> QED BY <1>1, InitBucketInv, NextBucketInv, PTL DEF Spec

\* The calls keep to the configuration they have read, and their dataframes to
\* what the operator makes of the file for it.
THEOREM FrameInvariance == Spec => []FrameInv
BY InitFrameInv, NextFrameInv, PTL DEF Spec

\* The state of the calls is well formed, and their dataframes have the columns
\* of the file and no more rows.
THEOREM TypeCorrect == Spec => []TypeOK
BY FrameInvariance, FrameTypeOK, PTL

\* For any chain of transformators, any dataframe and any limit or filter, no
\* original leaves in a column that is configured, but for what is spared.
THEOREM NothingRawCorrect == Spec => []NothingRaw
BY FrameInvariance, FrameNothingRaw, PTL

\* For any files of any tables, equal originals leave as equal fakes where the
\* faker is the first to draw and the last on its column.
THEOREM SameValueSameFakeCorrect == Spec => []SameValueSameFake
BY FrameInvariance, FrameSameFake, PTL

\* Of any dataframe those rows leave that pass the filter as they were read.
THEOREM FilterSeesSourceCorrect == Spec => []FilterSeesSource
BY FrameInvariance, FrameFilter, PTL

\* For any number of files of a table, their rows stay within its limit.
THEOREM RowLimitCorrect == Spec => []RowLimit
BY FrameInvariance, FrameRowLimit, PTL
=============================================================================
