--------------------------- MODULE MCShellCommand ---------------------------
(***************************************************************************)
(* A pipe of one line and up to two lines on each stream: the child blocks *)
(* on either pipe while the other is empty, full or closed.                *)
(***************************************************************************)
EXTENDS ShellCommand

MCPipeCapacity == 1
MCMaxLines     == 2

\* Selected is SelectSeq.
ASSUME SelectedIsSelectSeq ==
    \A s \in UNION {[1..n -> Lines] : n \in 0..4} :
       Selected(s, {i \in DOMAIN s : Flagged(s[i])}) = SelectSeq(s, Flagged)
=============================================================================
