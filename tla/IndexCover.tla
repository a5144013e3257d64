------------------------------ MODULE IndexCover ------------------------------
(***************************************************************************)
(* How two programs divide their work: the indices of the sine table among   *)
(* the threads of a GPU (src/p11), and the terms of a sum among the ranks of  *)
(* an MPI communicator (src/p10).  There is no state here: the theorems of    *)
(* AlgorithmProofs say, for every size, that each has exactly one owner.      *)
(***************************************************************************)
EXTENDS Integers

Positive == Nat \ {0}

-----------------------------------------------------------------------------
(* The GPU: R elements, T threads in a block, E elements for each thread.     *)

\* cuda_blocks_count
Blocks(R, T, E) == R \div (E * T) + (IF R % (E * T) > 0 THEN 1 ELSE 0)

\* The loop stops at the first E whose blocks the device can have.
Chosen(R, T, E, most) ==
  /\ Blocks(R, T, E) <= most
  /\ E > 1 => Blocks(R, T, E - 1) > most

\* device_sin: thread_start and thread_end of thread t in block b, and the indices
\* its loop goes through.
Start(T, E, b, t) == (b * T + t) * E
End(R, T, E, b, t) == IF Start(T, E, b, t) + E <= R THEN Start(T, E, b, t) + E ELSE R
Part(R, T, E, b, t) == {i \in Nat : Start(T, E, b, t) <= i /\ i < End(R, T, E, b, t)}

-----------------------------------------------------------------------------
(* The sum: s ranks with n terms each.                                       *)

\* local_factorial_multiplier of rank k when it adds its term for i: the term is
\* the inverse of its factorial.
Multiplier(s, k, i) == k + i * s
===============================================================================
