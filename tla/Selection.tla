------------------------------ MODULE Selection ------------------------------
(***************************************************************************)
(* Filters of iterators and of dataframes, as the components use them: the *)
(* elements of a sequence at some of its positions.                        *)
(***************************************************************************)
EXTENDS Integers, Sequences

\* SelectedUpTo(s, I)[n]: of the first n elements of s, those at a position in I.
SelectedUpTo(s, I) ==
    LET upTo[n \in 0..Len(s)] ==
          IF n = 0 THEN <<>>
          ELSE IF n \in I THEN Append(upTo[n - 1], s[n]) ELSE upTo[n - 1]
    IN  upTo

\* The elements of s at the positions I, in their order: SelectSeq, told by
\* positions instead of by a test.
Selected(s, I) == SelectedUpTo(s, I)[Len(s)]
=============================================================================
