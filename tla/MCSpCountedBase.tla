-------------------------- MODULE MCSpCountedBase --------------------------
(* Small instances of SpCountedBase for TLC.                               *)
EXTENDS SpCountedBase, TLC

Symmetry ==
  Permutations(Threads) \cup Permutations(SharedPtrs) \cup Permutations(WeakPtrs)
    \cup Permutations(Blocks)
=============================================================================
