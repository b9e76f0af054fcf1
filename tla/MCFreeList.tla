----------------------------- MODULE MCFreeList -----------------------------
(* FreeList for TLC: which of the blocks the pool returns does not matter.  *)
EXTENDS FreeList, TLC

Symmetry == Permutations(Blocks)
=============================================================================
