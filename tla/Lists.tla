------------------------------- MODULE Lists -------------------------------
(* The lists that loops of the code fill: each goes over another list and    *)
(* pushes the elements that pass a test.                                     *)
EXTENDS SequencesExt

\* The elements of s that are in T, in the order of s.
Picked(s, T) ==
    FoldLeft(LAMBDA list, x : IF x \in T THEN Append(list, x) ELSE list, <<>>, s)

\* The elements of s, without those that an earlier one which is kept covers:
\* <<y, x>> \in Covers says that x is left out once y is in.
Uncovered(s, Covers) ==
    FoldLeft(LAMBDA list, x : IF \E y \in ToSet(list) : <<y, x>> \in Covers
                              THEN list ELSE Append(list, x), <<>>, s)

\* Every element of s once, where it comes first.
Once(s) == Uncovered(s, {<<x, x>> : x \in ToSet(s)})
=============================================================================
