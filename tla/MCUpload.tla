------------------------------ MODULE MCUpload ------------------------------
(* Instances of Upload for TLC.                                            *)
EXTENDS Upload, TLC

CONSTANTS a, b      \* contents

OneSource == {a}
TwoSources == {a, b}

OneSize == a :> 5
TwoSizes == a :> 3 @@ b :> 2

Sizes2and3 == {2, 3}
Sizes2to4 == 2 .. 4

Symmetry == Permutations(Uploads)

\* What the next steps and the properties of the run with two callers depend
\* on: not what has landed, nor what a call that is over was about.
LiveState ==
    <<storeVars, resume, chunks, work, firstErr,
      [u \in Uploads |->
        IF Running(u) THEN <<pc[u], src[u], csize[u]>> ELSE <<"idle">>]>>
=============================================================================
