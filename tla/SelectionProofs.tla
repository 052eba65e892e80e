--------------------------- MODULE SelectionProofs ---------------------------
(***************************************************************************)
(* What the proofs of the components share: induction over the naturals    *)
(* for a set (the theorems of the library ask it of a predicate), what a   *)
(* selection holds, and how it grows.                                      *)
(***************************************************************************)
EXTENDS Selection, WellFoundedInduction, SequenceTheorems, TLAPS

\* Induction over the naturals, with a set in place of a predicate.
LEMMA NatSetInduction ==
    ASSUME NEW S, 0 \in S, \A n \in Nat : n \in S => n + 1 \in S
    PROVE  \A n \in Nat : n \in S
<1> DEFINE T == {n \in Nat : n \notin S}
<1> SUFFICES ASSUME T # {} PROVE FALSE
  OBVIOUS
<1>1. PICK m \in T : \A n \in T : <<n, m>> \notin OpToRel(<, Nat)
  <2>1. T \subseteq Nat
    OBVIOUS
  <2> HIDE DEF T
  <2> QED BY <2>1, WFMin, NatLessThanWellFounded
<1>2. m \in Nat /\ m # 0 /\ m \notin S
  OBVIOUS
<1>3. m - 1 \in Nat /\ m - 1 < m
  BY <1>2
<1>4. m - 1 \in T
  BY <1>2, <1>3
<1> QED BY <1>1, <1>2, <1>3, <1>4 DEF OpToRel

\* The least member of a set of naturals.
LEMMA LeastNatural ==
    ASSUME NEW S, S \subseteq Nat, S # {}
    PROVE  \E m \in S : \A n \in S : m <= n
<1>1. PICK m \in S : \A n \in S : <<n, m>> \notin OpToRel(<, Nat)
  BY WFMin, NatLessThanWellFounded
<1>2. \A n \in S : n \in Nat /\ ~(n < m)
  BY <1>1 DEF OpToRel
<1>3. \A n \in S : m <= n
  BY <1>2
<1> QED BY <1>3

\* A function of 1..n is a sequence of length n, of what it takes for values.
LEMMA FunctionIsSequence ==
    ASSUME NEW n \in Nat, NEW s, s = [i \in 1..n |-> s[i]]
    PROVE  s \in Seq({s[i] : i \in 1..n}) /\ Len(s) = n /\ DOMAIN s = 1..n
<1> DEFINE S == {s[i] : i \in 1..n}
<1>1. s \in [1..n -> S]
  OBVIOUS
<1> HIDE DEF S
<1>2. s \in Seq(S) /\ Len(s) = n /\ DOMAIN s = 1..n
  BY <1>1
<1> QED BY <1>2 DEF S

\* Concatenation is associative.
LEMMA ConcatAssoc ==
    ASSUME NEW S, NEW a \in Seq(S), NEW b \in Seq(S), NEW c \in Seq(S)
    PROVE  (a \o b) \o c = a \o (b \o c)
OBVIOUS

\* What is appended to the second of two sequences is appended to both.
Associates(S) ==
    \A x, y \in Seq(S), z \in S : Append(x \o y, z) = x \o Append(y, z)

LEMMA AppendConcat == ASSUME NEW S PROVE Associates(S)
BY DEF Associates

\* The recursion of SelectedUpTo has a solution.
LEMMA UpToDef ==
    ASSUME NEW s, Len(s) \in Nat, NEW I
    PROVE  SelectedUpTo(s, I) =
             [n \in 0..Len(s) |->
                IF n = 0 THEN <<>>
                ELSE IF n \in I THEN Append(SelectedUpTo(s, I)[n - 1], s[n])
                ELSE SelectedUpTo(s, I)[n - 1]]
<1> DEFINE Def(g, N) == [n \in 0..N |->
                IF n = 0 THEN <<>>
                ELSE IF n \in I THEN Append(g[n - 1], s[n]) ELSE g[n - 1]]
<1> DEFINE S == {N \in Nat : \E g : g = Def(g, N)}
<1>1. 0 \in S
  <2>1. [n \in 0..0 |-> <<>>] = Def([n \in 0..0 |-> <<>>], 0)
    OBVIOUS
  <2> QED BY <2>1
<1>2. ASSUME NEW N \in Nat, N \in S PROVE N + 1 \in S
  <2>1. PICK g : g = Def(g, N)
    BY <1>2
  <2> DEFINE h == [n \in 0..(N + 1) |->
                     IF n <= N THEN g[n]
                     ELSE IF n \in I THEN Append(g[n - 1], s[n]) ELSE g[n - 1]]
  <2>2. \A n \in 0..N : h[n] = g[n]
    OBVIOUS
  <2>3. h = Def(h, N + 1)
    <3> SUFFICES ASSUME NEW n \in 0..(N + 1)
                 PROVE  h[n] = IF n = 0 THEN <<>>
                               ELSE IF n \in I THEN Append(h[n - 1], s[n]) ELSE h[n - 1]
      OBVIOUS
    <3>1. CASE n = 0
      BY <2>1, <3>1
    <3>2. CASE n # 0 /\ n <= N
      <4>1. n \in 0..N /\ n - 1 \in 0..N
        BY <3>2
      <4>2. h[n] = g[n] /\ h[n - 1] = g[n - 1]
        BY <2>2, <4>1
      <4>3. g[n] = Def(g, N)[n]
        BY <2>1
      <4> HIDE DEF h
      <4> QED BY <3>2, <4>1, <4>2, <4>3
    <3>3. CASE n = N + 1
      BY <3>3
    <3> QED BY <3>1, <3>2, <3>3
  <2> HIDE DEF h, Def
  <2>4. \E f : f = Def(f, N + 1)
    BY <2>3
  <2> QED BY <2>4
<1>3. Len(s) \in S
  <2> HIDE DEF S
  <2> QED BY <1>1, <1>2, NatSetInduction
<1>4. SelectedUpTo(s, I) = CHOOSE g : g = Def(g, Len(s))
  BY DEF SelectedUpTo
<1>5. \E g : g = Def(g, Len(s))
  BY <1>3
<1> HIDE DEF Def
<1>6. SelectedUpTo(s, I) = Def(SelectedUpTo(s, I), Len(s))
  BY <1>4, <1>5
<1> QED BY <1>6 DEF Def

\* What is selected of the first n elements: nothing of none, and one more at
\* a position in I.
LEMMA UpToStep ==
    ASSUME NEW s, Len(s) \in Nat, NEW I
    PROVE  /\ SelectedUpTo(s, I)[0] = <<>>
           /\ \A n \in 1..Len(s) :
                 SelectedUpTo(s, I)[n] =
                    IF n \in I THEN Append(SelectedUpTo(s, I)[n - 1], s[n])
                    ELSE SelectedUpTo(s, I)[n - 1]
<1> DEFINE U == SelectedUpTo(s, I)
<1>1. U = [n \in 0..Len(s) |->
             IF n = 0 THEN <<>>
             ELSE IF n \in I THEN Append(U[n - 1], s[n]) ELSE U[n - 1]]
  BY UpToDef
<1> HIDE DEF U
<1>2. \A n \in 0..Len(s) :
         U[n] = IF n = 0 THEN <<>>
                ELSE IF n \in I THEN Append(U[n - 1], s[n]) ELSE U[n - 1]
  BY <1>1, Zenon
<1>3. 0 \in 0..Len(s) /\ \A n \in 1..Len(s) : n \in 0..Len(s) /\ n # 0
  OBVIOUS
<1>4. U[0] = <<>> /\ \A n \in 1..Len(s) : U[n] = IF n \in I THEN Append(U[n - 1], s[n]) ELSE U[n - 1]
  BY <1>2, <1>3, Zenon
<1> QED BY <1>4 DEF U

\* What is selected stands at increasing positions of s, which are all those in I.
Positions(t, s, n, I, at) ==
    /\ at \in [1..Len(t) -> I \cap (1..n)]
    /\ \A i, j \in 1..Len(t) : i < j => at[i] < at[j]
    /\ \A k \in I \cap (1..n) : \E i \in 1..Len(t) : at[i] = k
    /\ \A i \in 1..Len(t) : t[i] = s[at[i]]

\* One more element that is selected stands at the end.
LEMMA PositionsGrow ==
    ASSUME NEW S, NEW s \in Seq(S), NEW t \in Seq(S), NEW I,
           NEW n \in 1..Len(s), n \in I, NEW at, Positions(t, s, n - 1, I, at)
    PROVE  \E bt : Positions(Append(t, s[n]), s, n, I, bt)
<1> DEFINE l  == Len(t)
           u  == Append(t, s[n])
           bt == [i \in 1..(l + 1) |-> IF i = l + 1 THEN n ELSE at[i]]
<1>1. /\ l \in Nat /\ Len(u) = l + 1 /\ u[l + 1] = s[n]
      /\ \A i \in 1..l : u[i] = t[i]
  OBVIOUS
<1>2. /\ at \in [1..l -> I \cap (1..(n - 1))]
      /\ \A i, j \in 1..l : i < j => at[i] < at[j]
      /\ \A k \in I \cap (1..(n - 1)) : \E i \in 1..l : at[i] = k
      /\ \A i \in 1..l : t[i] = s[at[i]]
  BY DEF Positions
<1> HIDE DEF l, u
<1>3. \A i \in 1..(l + 1) : i = l + 1 \/ i \in 1..l
  BY <1>1
<1>4. bt[l + 1] = n /\ \A i \in 1..l : bt[i] = at[i] /\ at[i] \in I /\ at[i] \in 1..(n - 1)
  BY <1>1, <1>2
<1>5. bt \in [1..(l + 1) -> I \cap (1..n)]
  <2>1. \A k \in 1..(n - 1) : k \in 1..n
    OBVIOUS
  <2>2. n \in I \cap (1..n)
    OBVIOUS
  <2>3. \A i \in 1..(l + 1) : bt[i] \in I \cap (1..n)
    BY <1>3, <1>4, <2>1, <2>2, Zenon
  <2> QED BY <2>3
<1> HIDE DEF bt
<1>6. \A i, j \in 1..(l + 1) : i < j => bt[i] < bt[j]
  <2> SUFFICES ASSUME NEW i \in 1..(l + 1), NEW j \in 1..(l + 1), i < j
               PROVE  bt[i] < bt[j]
    OBVIOUS
  <2>1. i \in 1..l
    BY <1>1
  <2>2. CASE j = l + 1
    BY <2>1, <2>2, <1>4
  <2>3. CASE j \in 1..l
    BY <2>1, <2>3, <1>2, <1>4
  <2> QED BY <2>2, <2>3, <1>3
<1>7. \A k \in I \cap (1..n) : \E i \in 1..(l + 1) : bt[i] = k
  <2> SUFFICES ASSUME NEW k \in I \cap (1..n) PROVE \E i \in 1..(l + 1) : bt[i] = k
    OBVIOUS
  <2>1. CASE k = n
    BY <2>1, <1>1, <1>4
  <2>2. CASE k # n
    <3>1. PICK i \in 1..l : at[i] = k
      BY <2>2, <1>2
    <3>2. i \in 1..(l + 1) /\ bt[i] = k
      BY <3>1, <1>1, <1>4
    <3> QED BY <3>2
  <2> QED BY <2>1, <2>2
<1>8. \A i \in 1..(l + 1) : u[i] = s[bt[i]]
  BY <1>1, <1>2, <1>3, <1>4
<1>9. Positions(u, s, n, I, bt)
  BY <1>1, <1>5, <1>6, <1>7, <1>8 DEF Positions
<1> QED BY <1>9 DEF u

\* A selection is a sequence no longer than s, of the positions in I.
LEMMA SelectedAt ==
    ASSUME NEW S, NEW s \in Seq(S), NEW I
    PROVE  /\ Selected(s, I) \in Seq(S)
           /\ Len(Selected(s, I)) <= Len(s)
           /\ \E at : Positions(Selected(s, I), s, Len(s), I, at)
<1> DEFINE U == SelectedUpTo(s, I)
           Good(n) == /\ U[n] \in Seq(S) /\ Len(U[n]) <= n
                      /\ \E at : Positions(U[n], s, n, I, at)
           G == {n \in Nat : n <= Len(s) => Good(n)}
<1>1. /\ U[0] = <<>>
      /\ \A n \in 1..Len(s) : U[n] = IF n \in I THEN Append(U[n - 1], s[n]) ELSE U[n - 1]
  <2>1. Len(s) \in Nat
    OBVIOUS
  <2> QED BY <2>1, UpToStep
<1> HIDE DEF U
<1>2. 0 \in G
  <2>1. Positions(<<>>, s, 0, I, <<>>)
    BY DEF Positions
  <2>2. <<>> \in Seq(S) /\ Len(<<>>) = 0
    OBVIOUS
  <2>3. Good(0)
    BY <1>1, <2>1, <2>2
  <2> HIDE DEF Good
  <2> QED BY <2>3
<1>3. ASSUME NEW n \in 1..Len(s), Good(n - 1) PROVE Good(n)
  <2>1. U[n - 1] \in Seq(S) /\ Len(U[n - 1]) <= n - 1 /\ s[n] \in S
    BY <1>3
  <2>2. PICK at : Positions(U[n - 1], s, n - 1, I, at)
    BY <1>3
  <2>3. CASE n \notin I
    <3>1. U[n] = U[n - 1]
      BY <1>1, <2>3
    <3>2. I \cap (1..n) = I \cap (1..(n - 1))
      BY <2>3
    <3>3. Positions(U[n], s, n, I, at)
      BY <3>1, <3>2, <2>2 DEF Positions
    <3> QED BY <2>1, <3>1, <3>3
  <2>4. CASE n \in I
    <3>1. U[n] = Append(U[n - 1], s[n])
      BY <1>1, <2>4
    <3>2. \E bt : Positions(U[n], s, n, I, bt)
      BY <3>1, <2>1, <2>2, <2>4, PositionsGrow
    <3>3. U[n] \in Seq(S) /\ Len(U[n]) = Len(U[n - 1]) + 1
      BY <3>1, <2>1
    <3> QED BY <2>1, <3>2, <3>3
  <2> QED BY <2>3, <2>4
<1>4. \A m \in Nat : m \in G => m + 1 \in G
  <2> HIDE DEF Good
  <2> SUFFICES ASSUME NEW m \in Nat, m \in G, m + 1 <= Len(s) PROVE Good(m + 1)
    OBVIOUS
  <2>1. m + 1 \in 1..Len(s) /\ (m + 1) - 1 = m /\ Good(m)
    OBVIOUS
  <2> QED BY <2>1, <1>3
<1>5. Len(s) \in G
  <2>1. Len(s) \in Nat
    OBVIOUS
  <2> HIDE DEF G
  <2> QED BY <1>2, <1>4, <2>1, NatSetInduction
<1>6. Good(Len(s))
  BY <1>5
<1> QED BY <1>6 DEF Selected, U

\* The elements that are selected are those at the positions in I.
LEMMA SelectedElements ==
    ASSUME NEW S, NEW s \in Seq(S), NEW I
    PROVE  /\ \A i \in 1..Len(Selected(s, I)) :
                 \E k \in I \cap (1..Len(s)) : Selected(s, I)[i] = s[k]
           /\ \A k \in I \cap (1..Len(s)) :
                 \E i \in 1..Len(Selected(s, I)) : Selected(s, I)[i] = s[k]
<1> DEFINE l == Len(Selected(s, I))
<1>1. PICK at : Positions(Selected(s, I), s, Len(s), I, at)
  BY SelectedAt
<1>2. \A i \in 1..l : at[i] \in I \cap (1..Len(s)) /\ Selected(s, I)[i] = s[at[i]]
  BY <1>1 DEF Positions
<1>3. \A k \in I \cap (1..Len(s)) : \E i \in 1..l : at[i] = k
  BY <1>1 DEF Positions
<1> HIDE DEF l
<1>4. \A k \in I \cap (1..Len(s)) : \E i \in 1..l : Selected(s, I)[i] = s[k]
  BY <1>2, <1>3
<1> QED BY <1>2, <1>4 DEF l

\* Among the first n positions I and J select the same of s and of t.
Alike(s, I, t, J, n) == \A k \in 1..n : (k \in I <=> k \in J) /\ (k \in I => s[k] = t[k])

\* What is selected of the first n elements depends on nothing else.
LEMMA UpToSame ==
    ASSUME NEW s, Len(s) \in Nat, NEW t, Len(t) \in Nat, NEW I, NEW J,
           NEW n \in Nat, n <= Len(s), n <= Len(t), Alike(s, I, t, J, n)
    PROVE  SelectedUpTo(s, I)[n] = SelectedUpTo(t, J)[n]
<1> DEFINE U == SelectedUpTo(s, I)
           V == SelectedUpTo(t, J)
           G == {m \in Nat : m <= n => U[m] = V[m]}
<1>1. /\ U[0] = <<>>
      /\ \A m \in 1..Len(s) : U[m] = IF m \in I THEN Append(U[m - 1], s[m]) ELSE U[m - 1]
  BY UpToStep
<1>2. /\ V[0] = <<>>
      /\ \A m \in 1..Len(t) : V[m] = IF m \in J THEN Append(V[m - 1], t[m]) ELSE V[m - 1]
  BY UpToStep
<1> HIDE DEF U, V
<1>3. 0 \in G
  BY <1>1, <1>2
<1>4. ASSUME NEW m \in Nat, m \in G PROVE m + 1 \in G
  <2> SUFFICES ASSUME m + 1 <= n PROVE U[m + 1] = V[m + 1]
    OBVIOUS
  <2>1. U[m] = V[m] /\ m + 1 \in 1..n /\ m + 1 \in 1..Len(s) /\ m + 1 \in 1..Len(t)
        /\ (m + 1) - 1 = m
    BY <1>4
  <2>2. (m + 1 \in I <=> m + 1 \in J) /\ (m + 1 \in I => s[m + 1] = t[m + 1])
    BY <2>1 DEF Alike
  <2> QED BY <1>1, <1>2, <2>1, <2>2
<1>5. n \in G
  <2> HIDE DEF G
  <2> QED BY <1>3, <1>4, NatSetInduction
<1> QED BY <1>5 DEF U, V

\* Nothing is selected by positions outside of s.
LEMMA SelectedNone ==
    ASSUME NEW S, NEW s \in Seq(S), NEW I, \A k \in 1..Len(s) : k \notin I
    PROVE  Selected(s, I) = <<>>
<1>1. PICK at : Positions(Selected(s, I), s, Len(s), I, at)
  BY SelectedAt
<1>2. Selected(s, I) \in Seq(S) /\ I \cap (1..Len(s)) = {}
  BY SelectedAt
<1>3. Len(Selected(s, I)) = 0
  BY <1>1, <1>2 DEF Positions
<1> QED BY <1>2, <1>3

\* Only the positions within s count.
LEMMA SelectedSame ==
    ASSUME NEW S, NEW s \in Seq(S), NEW I, NEW J, \A k \in 1..Len(s) : k \in I <=> k \in J
    PROVE  Selected(s, I) = Selected(s, J)
<1>1. Len(s) \in Nat
  OBVIOUS
<1>2. Alike(s, I, s, J, Len(s))
  BY DEF Alike
<1> QED BY <1>1, <1>2, UpToSame DEF Selected

\* An element at the end is selected last, or not.
LEMMA SelectedAppend ==
    ASSUME NEW S, NEW s \in Seq(S), NEW e \in S, NEW I
    PROVE  Selected(Append(s, e), I) =
              IF Len(s) + 1 \in I THEN Append(Selected(s, I), e) ELSE Selected(s, I)
<1> DEFINE t == Append(s, e)
           l == Len(s)
<1>1. /\ l \in Nat /\ Len(t) = l + 1 /\ t[l + 1] = e
      /\ \A k \in 1..l : t[k] = s[k]
  OBVIOUS
<1> HIDE DEF t
<1>2. SelectedUpTo(t, I)[l] = SelectedUpTo(s, I)[l]
  <2>1. Alike(t, I, s, I, l)
    BY <1>1 DEF Alike
  <2>2. Len(t) \in Nat /\ Len(s) \in Nat /\ l <= Len(t) /\ l <= Len(s)
    BY <1>1
  <2> QED BY <1>1, <2>1, <2>2, UpToSame
<1>3. l + 1 \in 1..Len(t) /\ (l + 1) - 1 = l /\ Len(t) \in Nat
  BY <1>1
<1>4. SelectedUpTo(t, I)[l + 1] =
         IF l + 1 \in I THEN Append(SelectedUpTo(t, I)[l], e) ELSE SelectedUpTo(t, I)[l]
  BY <1>1, <1>3, UpToStep
<1> QED BY <1>1, <1>2, <1>4 DEF Selected, t

\* What is not selected does not count.
LEMMA SelectedAgree ==
    ASSUME NEW s, NEW t, NEW n \in Nat, Len(s) = n, Len(t) = n, NEW I,
           \A k \in 1..n : k \in I => s[k] = t[k]
    PROVE  Selected(s, I) = Selected(t, I)
<1>1. Alike(s, I, t, I, n) /\ n <= Len(s) /\ n <= Len(t)
  BY DEF Alike
<1>2. SelectedUpTo(s, I)[n] = SelectedUpTo(t, I)[n]
  BY <1>1, UpToSame
<1> QED BY <1>2 DEF Selected

\* What is selected of the first n elements is what is selected of that prefix.
LEMMA UpToPrefix ==
    ASSUME NEW S, NEW s \in Seq(S), NEW I, NEW n \in 0..Len(s)
    PROVE  SelectedUpTo(s, I)[n] = Selected(SubSeq(s, 1, n), I)
<1> DEFINE t == SubSeq(s, 1, n)
<1>1. Len(t) = n /\ n \in Nat /\ Len(s) \in Nat /\ n <= Len(s) /\ \A k \in 1..n : s[k] = t[k]
  OBVIOUS
<1> HIDE DEF t
<1>2. Alike(s, I, t, I, n) /\ Len(t) \in Nat /\ n <= Len(t)
  BY <1>1 DEF Alike
<1>3. SelectedUpTo(s, I)[n] = SelectedUpTo(t, I)[n]
  BY <1>1, <1>2, UpToSame
<1> QED BY <1>1, <1>3 DEF Selected, t

\* A selection of s and t is one of s and one of t.
LEMMA SelectedConcat ==
    ASSUME NEW S, NEW s \in Seq(S), NEW t \in Seq(S), NEW I, NEW J,
           \A k \in 1..Len(t) : k \in J <=> k + Len(s) \in I
    PROVE  Selected(s \o t, I) = Selected(s, I) \o Selected(t, J)
<1> DEFINE u == s \o t
           m == Len(s)
           U == SelectedUpTo(u, I)
           V == SelectedUpTo(t, J)
           a == Selected(s, I)
           G == {n \in Nat : n <= Len(t) => U[m + n] = a \o V[n]}
<1>1. /\ m \in Nat /\ Len(u) = m + Len(t) /\ Len(t) \in Nat /\ u \in Seq(S)
      /\ \A k \in 1..m : u[k] = s[k]
      /\ \A k \in 1..Len(t) : u[m + k] = t[k]
  OBVIOUS
<1>2. a \in Seq(S)
  BY SelectedAt
<1>3. \A n \in 0..Len(t) : V[n] \in Seq(S)
  <2> SUFFICES ASSUME NEW n \in 0..Len(t) PROVE V[n] \in Seq(S)
    OBVIOUS
  <2>1. V[n] = Selected(SubSeq(t, 1, n), J)
    BY UpToPrefix
  <2>2. ASSUME NEW r, r = SubSeq(t, 1, n) PROVE Selected(r, J) \in Seq(S)
    <3>1. r \in Seq(S)
      BY <2>2
    <3> QED BY <3>1, SelectedAt
  <2> QED BY <2>1, <2>2
<1> HIDE DEF u
<1>4. /\ V[0] = <<>>
      /\ \A n \in 1..Len(t) : V[n] = IF n \in J THEN Append(V[n - 1], t[n]) ELSE V[n - 1]
  BY <1>1, UpToStep
<1>5. \A n \in 1..Len(u) : U[n] = IF n \in I THEN Append(U[n - 1], u[n]) ELSE U[n - 1]
  BY <1>1, UpToStep
<1>6. U[m] = a
  <2>1. SubSeq(u, 1, m) = s
    BY <1>1
  <2>2. m \in 0..Len(u)
    BY <1>1
  <2>3. U[m] = Selected(SubSeq(u, 1, m), I)
    BY <1>1, <2>2, UpToPrefix
  <2> QED BY <2>1, <2>3
<1> HIDE DEF U, V, a, m
<1>7. 0 \in G
  BY <1>1, <1>2, <1>4, <1>6
<1>8. ASSUME NEW n \in Nat, n \in G PROVE n + 1 \in G
  <2> SUFFICES ASSUME n + 1 <= Len(t) PROVE U[m + (n + 1)] = a \o V[n + 1]
    OBVIOUS
  <2>1. /\ U[m + n] = a \o V[n] /\ n + 1 \in 1..Len(t) /\ (n + 1) - 1 = n
        /\ m + (n + 1) \in 1..Len(u) /\ (m + (n + 1)) - 1 = m + n /\ n \in 0..Len(t)
    BY <1>8, <1>1
  <2>2. n + 1 \in J <=> m + (n + 1) \in I
    <3>1. (n + 1) + m = m + (n + 1)
      BY <1>1
    <3> QED BY <2>1, <3>1 DEF m
  <2>3. u[m + (n + 1)] = t[n + 1] /\ t[n + 1] \in S
    BY <1>1, <2>1
  <2>4. V[n] \in Seq(S)
    BY <1>3, <2>1
  <2>5. Append(a \o V[n], t[n + 1]) = a \o Append(V[n], t[n + 1])
    <3>1. Associates(S)
      BY AppendConcat
    <3>2. \A x, y \in Seq(S), z \in S : Append(x \o y, z) = x \o Append(y, z)
      BY <3>1 DEF Associates
    <3> QED BY <1>2, <2>3, <2>4, <3>2
  <2>6. U[m + (n + 1)] = IF m + (n + 1) \in I THEN Append(U[m + n], t[n + 1]) ELSE U[m + n]
    BY <1>5, <2>1, <2>3
  <2>7. V[n + 1] = IF n + 1 \in J THEN Append(V[n], t[n + 1]) ELSE V[n]
    BY <1>4, <2>1
  <2> QED BY <2>1, <2>2, <2>5, <2>6, <2>7
<1>9. Len(t) \in G
  <2> HIDE DEF G
  <2> QED BY <1>1, <1>7, <1>8, NatSetInduction
<1>10. U[m + Len(t)] = a \o V[Len(t)]
  BY <1>1, <1>9
<1> QED BY <1>1, <1>10 DEF Selected, U, V, a, u

\* v consists of a and then b.
Joins(v, a, b) ==
    /\ Len(v) = Len(a) + Len(b)
    /\ \A i \in 1..Len(a) : v[i] = a[i]
    /\ \A i \in 1..Len(b) : v[i + Len(a)] = b[i]

LEMMA ConcatJoins ==
    ASSUME NEW S, NEW a \in Seq(S), NEW b \in Seq(S)
    PROVE  a \o b \in Seq(S) /\ Joins(a \o b, a, b)
BY DEF Joins

LEMMA JoinIsConcat ==
    ASSUME NEW S, NEW a \in Seq(S), NEW b \in Seq(S), NEW v \in Seq(S), Joins(v, a, b)
    PROVE  v = a \o b
<1> DEFINE w == a \o b
<1>1. /\ w \in Seq(S) /\ Len(w) = Len(a) + Len(b) /\ Len(a) \in Nat /\ Len(b) \in Nat
      /\ \A i \in 1..Len(a) : w[i] = a[i]
      /\ \A i \in 1..Len(b) : w[i + Len(a)] = b[i]
  OBVIOUS
<1> HIDE DEF w
<1>2. \A i \in 1..Len(w) : w[i] = v[i]
  <2> SUFFICES ASSUME NEW i \in 1..Len(w) PROVE w[i] = v[i]
    OBVIOUS
  <2>1. CASE i <= Len(a)
    BY <1>1, <2>1 DEF Joins
  <2>2. CASE i > Len(a)
    <3>1. i - Len(a) \in 1..Len(b) /\ (i - Len(a)) + Len(a) = i
      BY <1>1, <2>2
    <3> QED BY <1>1, <3>1 DEF Joins
  <2> QED BY <1>1, <2>1, <2>2
<1>3. Len(v) = Len(w)
  BY <1>1 DEF Joins
<1>4. w = v
  BY <1>1, <1>2, <1>3, SeqEqual
<1> QED BY <1>4 DEF w

\* What H selects of e is what I selects of c and then what J selects of d.
Joined(e, H, c, I, d, J) ==
    /\ Len(e) = Len(c) + Len(d)
    /\ \A k \in 1..Len(c) : (k \in H <=> k \in I) /\ (k \in H => e[k] = c[k])
    /\ \A k \in 1..Len(d) : (k \in J <=> k + Len(c) \in H) /\ (k \in J => e[k + Len(c)] = d[k])

LEMMA SelectedJoin ==
    ASSUME NEW S, NEW c \in Seq(S), NEW d \in Seq(S), NEW e, NEW H, NEW I, NEW J,
           Joined(e, H, c, I, d, J)
    PROVE  Selected(e, H) = Selected(c, I) \o Selected(d, J)
<1> DEFINE f == c \o d
           n == Len(c) + Len(d)
<1>1. /\ n \in Nat /\ Len(c) \in Nat /\ Len(d) \in Nat /\ Len(f) = n
      /\ \A i \in 1..Len(c) : f[i] = c[i]
      /\ \A i \in 1..Len(d) : f[i + Len(c)] = d[i]
  OBVIOUS
<1>2. Selected(f, H) = Selected(c, H) \o Selected(d, J)
  BY SelectedConcat DEF Joined
<1>3. Selected(c, H) = Selected(c, I)
  BY SelectedSame DEF Joined
<1> HIDE DEF f
<1>4. \A k \in 1..n : k \in H => e[k] = f[k]
  <2> SUFFICES ASSUME NEW k \in 1..n, k \in H PROVE e[k] = f[k]
    OBVIOUS
  <2>1. CASE k <= Len(c)
    BY <1>1, <2>1 DEF Joined
  <2>2. CASE k > Len(c)
    <3>1. k - Len(c) \in 1..Len(d) /\ (k - Len(c)) + Len(c) = k
      BY <1>1, <2>2
    <3> QED BY <1>1, <3>1 DEF Joined
  <2> QED BY <1>1, <2>1, <2>2
<1>5. Len(e) = n
  BY DEF Joined
<1> HIDE DEF n
<1>6. Selected(e, H) = Selected(f, H)
  BY <1>1, <1>4, <1>5, SelectedAgree
<1> QED BY <1>2, <1>3, <1>6

\* All of s may be selected.
LEMMA SelectedAll ==
    ASSUME NEW S, NEW s \in Seq(S), NEW I, \A k \in 1..Len(s) : k \in I
    PROVE  Selected(s, I) = s
<1> DEFINE U == SelectedUpTo(s, I)
           G == {n \in Nat : n <= Len(s) => U[n] = SubSeq(s, 1, n)}
<1>1. /\ Len(s) \in Nat /\ U[0] = <<>>
      /\ \A n \in 1..Len(s) : U[n] = IF n \in I THEN Append(U[n - 1], s[n]) ELSE U[n - 1]
  BY UpToStep
<1> HIDE DEF U
<1>2. 0 \in G
  <2>1. SubSeq(s, 1, 0) = <<>>
    OBVIOUS
  <2> QED BY <1>1, <2>1
<1>3. ASSUME NEW n \in Nat, n \in G PROVE n + 1 \in G
  <2> SUFFICES ASSUME n + 1 <= Len(s) PROVE U[n + 1] = SubSeq(s, 1, n + 1)
    OBVIOUS
  <2>1. U[n] = SubSeq(s, 1, n) /\ n + 1 \in 1..Len(s) /\ (n + 1) - 1 = n
    BY <1>3
  <2>2. U[n + 1] = Append(SubSeq(s, 1, n), s[n + 1])
    BY <1>1, <2>1
  <2>3. Append(SubSeq(s, 1, n), s[n + 1]) = SubSeq(s, 1, n + 1)
    BY <2>1
  <2> QED BY <2>2, <2>3
<1>4. Len(s) \in G
  <2> HIDE DEF G
  <2> QED BY <1>1, <1>2, <1>3, NatSetInduction
<1>5. U[Len(s)] = s
  <2>1. SubSeq(s, 1, Len(s)) = s
    OBVIOUS
  <2> QED BY <1>1, <1>4, <2>1
<1> QED BY <1>5 DEF Selected, U
=============================================================================
