----------------------------- MODULE MCAllocator -----------------------------
(***************************************************************************)
(* Definitions that the TLC configurations of Allocator share.               *)
(***************************************************************************)
EXTENDS Allocator

\* The pointers are interchangeable (safety runs only).
PointerSymmetry == Permutations(Pointers)
=============================================================================
