----------------------------- MODULE MCMergeSort -----------------------------
(***************************************************************************)
(* Values of the constants of MergeSort for TLC.                             *)
(***************************************************************************)
EXTENDS MergeSort

\* What main fills the buffer with: N, N - 1, ... 1.
Descending == {OwnInput}

\* Any contents over two values.
Anything == [0 .. N - 1 -> {1, 2}]

\* The buffers side by side, in either order.
SideBySide == {[b \in {0, 1} |-> IF b = 0 THEN 0 ELSE N],
               [b \in {0, 1} |-> IF b = 0 THEN N ELSE 0]}
=============================================================================
