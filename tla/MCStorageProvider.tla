------------------------- MODULE MCStorageProvider -------------------------
(* A small instance of StorageProvider for TLC. *)
EXTENDS StorageProvider, TLC

CONSTANTS j1, j2, j3, ours, other

\* Goroutines are alike.
Symmetry == Permutations({j1, j2, j3})
=============================================================================
