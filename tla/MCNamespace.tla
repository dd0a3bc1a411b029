---------------------------- MODULE MCNamespace ----------------------------
(* Instances of Namespace for TLC.                                         *)
EXTENDS Namespace, TLC

Symmetry == Permutations(Names) \cup Permutations(Contents)
=============================================================================
