----------------------------- MODULE MCForward -----------------------------
(***************************************************************************)
(* Forward with its properties, for TLC.  Documents are interchangeable    *)
(* model values; so are positions, but where they are on different lines.  *)
(***************************************************************************)
EXTENDS ForwardProperties

\* All cursors are on line 1.
OneLine == [p \in Position |-> 1]
\* Two cursors are on lines 1 and 2.
TwoLines == LET above == CHOOSE p \in Position : TRUE
            IN  [p \in Position |-> IF p = above THEN 1 ELSE 2]

\* Lean is at work on line 2 and before line 1, but not on that.
RangesAround == {{[start |-> 0, end |-> 0], [start |-> 2, end |-> 2]}}

\* No definition orders or chooses documents, nor positions on one line.
Documents == Permutations(Uri)
Symmetry == Permutations(Uri) \cup Permutations(Position)
============================================================================
