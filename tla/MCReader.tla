------------------------------ MODULE MCReader ------------------------------
(* Instances of Reader: two folders with one file name each.               *)
EXTENDS Reader

CONSTANTS r1, r2, a, b, d, e, x

const_SizeOf == [s \in Sources |-> IF s = a THEN 3 ELSE 2]
const_Names == {d, e, x}
const_Paths == {<<d, x>>, <<e, x>>}
const_Args == const_Paths \cup {<<d>>, <<e>>}
const_Keys == const_Paths \X (0 .. 2)
const_Alias == << >>    \* neither file is called "x.chunk.0"

\* What can still be observed: not what the last call has returned, which only
\* properties of steps read, not index.json when no further start is to come,
\* not the files that neither index names, and not the bytes of a download once
\* the process has died, which no property looks at and no step depends on.
NextIndex == IF crashes < MaxCrashes /\ saved # NoIndex THEN saved ELSE <<>>

Observable ==
    <<index, old, NextIndex, setting, store, op, crashes, failures,
      Restrict(files, DOMAIN files \cap KeysOf(index \o NextIndex)),
      [r \in Readers |->
        IF InStep(r, "closed") THEN Closed
        ELSE IF readers[r].mode \in {"download", "stream"} /\ crashes > 0
             THEN [readers[r] EXCEPT !.got = <<>>]
        ELSE readers[r]]>>

\* Readers are interchangeable, and so are the two folders.
Symmetry == {p @@ q : p \in Permutations(Readers), q \in Permutations({d, e})}
=============================================================================
