---------------------------- MODULE MCFrontends ----------------------------
(* Instances of Frontends.                                                 *)
EXTENDS Frontends, TLC

CONSTANTS c1, c2, n1, n2

Symmetry == {p @@ q : p \in Permutations(Clients), q \in Permutations(Names)}
=============================================================================
