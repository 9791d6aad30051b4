----------------------------- MODULE MCSpAtomic -----------------------------
(* Small instances of SpAtomic for TLC.                                    *)
EXTENDS SpAtomic, TLC

Symmetry == Permutations(Threads) \cup Permutations(Blocks) \cup Permutations(Parts)
=============================================================================
