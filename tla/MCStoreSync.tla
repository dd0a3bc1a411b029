---------------------------- MODULE MCStoreSync ----------------------------
(* Instances of StoreSync.                                                 *)
EXTENDS StoreSync, TLC

CONSTANTS p1, p2

Symmetry == Permutations(Procs)
=============================================================================
