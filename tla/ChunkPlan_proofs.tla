-------------------------- MODULE ChunkPlan_proofs --------------------------
(***************************************************************************)
(* What the arithmetic of ChunkPlan guarantees for every file size, chunk  *)
(* size and sequence of recorded chunks.                                   *)
(***************************************************************************)
EXTENDS ChunkPlan, TLAPS, WellFoundedInduction

\* An element of a sequence over R is in R.
LEMMA ElementOfSeq ==
    ASSUME NEW R, NEW s \in Seq(R), NEW k \in 1 .. Len(s)
    PROVE  s[k] \in R
  OBVIOUS

\* Every non-empty set of natural numbers has a least element.
LEMMA LeastNat ==
    ASSUME NEW S \in SUBSET Nat, S # {}
    PROVE  \E m \in S : \A k \in S : m <= k
<1>1. IsWellFoundedOn(OpToRel(<, Nat), Nat)
  BY NatLessThanWellFounded, Zenon
<1>2. PICK m \in S : \A k \in S : <<k, m>> \notin OpToRel(<, Nat)
  BY <1>1, WFMin, Zenon
<1>3. \A k \in S : k < m => <<k, m>> \in OpToRel(<, Nat)
  BY Zenon DEF OpToRel
<1>4. \A k \in S : ~ (k < m)
  BY <1>2, <1>3, Zenon
<1>5. QED
  BY <1>4

----------------------------------------------------------------------------
\* planChunks gives a non-empty file at least one chunk; one chunk less would
\* not reach its end, and these do.
LEMMA PlanLenBounds ==
    ASSUME NEW total \in Nat \ {0}, NEW csize \in Nat \ {0}
    PROVE  /\ PlanLen(total, csize) \in Nat \ {0}
           /\ (PlanLen(total, csize) - 1) * csize < total
           /\ total <= PlanLen(total, csize) * csize
  BY DEF PlanLen

\* The chunks of a plan are not empty, each starts where the one before it
\* ends, and the last one ends at the end of the file.
THEOREM PlanTilesFile ==
    ASSUME NEW total \in Nat \ {0}, NEW csize \in Nat \ {0},
           NEW i \in 1 .. PlanLen(total, csize)
    PROVE  /\ PlanOffset(csize, i) \in Nat
           /\ PlanSize(total, csize, i) \in Nat \ {0}
           /\ i = 1 => PlanOffset(csize, i) = 0
           /\ i < PlanLen(total, csize) =>
                PlanEnd(total, csize, i) = PlanOffset(csize, i + 1)
           /\ i = PlanLen(total, csize) => PlanEnd(total, csize, i) = total
<1> DEFINE n == PlanLen(total, csize)
<1>1. n \in Nat /\ i \in Nat /\ 1 <= i /\ i <= n
  BY PlanLenBounds
<1>2. (n - 1) * csize < total /\ total <= n * csize
  BY PlanLenBounds
<1> HIDE DEF n
<1>3. (i - 1) * csize \in Nat /\ (i - 1) * csize <= (n - 1) * csize
  BY <1>1
<1>4. (i - 1) * csize < total
  BY <1>1, <1>2, <1>3
<1>5. (i - 1) * csize + csize = i * csize
  BY <1>1
<1>6. i < n => i * csize <= (n - 1) * csize /\ i * csize < total
  <2>1. i < n => i * csize <= (n - 1) * csize
    BY <1>1
  <2>2. (n - 1) * csize \in Int /\ i * csize \in Int
    BY <1>1
  <2>3. QED
    BY <2>1, <2>2, <1>2
<1>7. PlanOffset(csize, i) \in Nat /\ (i = 1 => PlanOffset(csize, i) = 0)
  BY <1>1, <1>3 DEF PlanOffset
<1>8. PlanSize(total, csize, i) \in Nat \ {0}
  BY <1>3, <1>4 DEF PlanSize, PlanOffset
<1>9. i < n => PlanEnd(total, csize, i) = PlanOffset(csize, i + 1)
  BY <1>1, <1>3, <1>5, <1>6 DEF PlanEnd, PlanSize, PlanOffset
<1>10. i = n => PlanEnd(total, csize, i) = total
  BY <1>1, <1>2, <1>3, <1>4, <1>5 DEF PlanEnd, PlanSize, PlanOffset
<1>11. QED
  BY <1>7, <1>8, <1>9, <1>10 DEF n

----------------------------------------------------------------------------
\* Where chunk k of a sequence ends.
EndAt(chunks, k) == IF k = 0 THEN 0 ELSE chunks[k].off + chunks[k].size

\* When recorded chunks follow one another, the sum of their sizes (the only
\* thing the resume check looks at, and the offset Download writes at) is the
\* place in the content where they end.
THEOREM SumOfTiles ==
    ASSUME NEW S, NEW chunks \in Seq([src : S, off : Nat, size : Nat \ {0}]),
           Tiles(chunks)
    PROVE  TotalSize(chunks) = EndOf(chunks)
<1> DEFINE n == Len(chunks)
           Sum(g, k) == IF k = 0 THEN 0 ELSE g[k - 1] + chunks[k].size
           f == SizesUpTo(chunks)
<1>0. n \in Nat /\ \A k \in 1 .. n : chunks[k].size \in Nat /\ chunks[k].off \in Nat
  <2>1. n \in Nat
    OBVIOUS
  <2>2. ASSUME NEW k \in 1 .. n
        PROVE  chunks[k].size \in Nat /\ chunks[k].off \in Nat
    <3>1. chunks[k] \in [src : S, off : Nat, size : Nat \ {0}]
      BY ElementOfSeq, Zenon
    <3>2. QED
      BY <3>1
  <2>3. QED
    BY <2>1, <2>2
<1>1. \E g : g = [k \in 0 .. n |-> Sum(g, k)]
  <2> DEFINE w == [k \in 0 .. n |-> EndAt(chunks, k)]
  <2>1. ASSUME NEW k \in 0 .. n PROVE w[k] = Sum(w, k)
    <3>1. CASE k = 0
      BY <3>1 DEF EndAt
    <3>2. CASE k # 0
      <4>1. k \in 1 .. n /\ k - 1 \in 0 .. n
        BY <1>0, <3>2
      <4>2. w[k] = chunks[k].off + chunks[k].size
        BY <3>2 DEF EndAt
      <4>3. w[k - 1] = IF k - 1 = 0 THEN 0
                       ELSE chunks[k - 1].off + chunks[k - 1].size
        BY <4>1 DEF EndAt
      <4>4. chunks[k].off = IF k = 1 THEN 0
                            ELSE chunks[k - 1].off + chunks[k - 1].size
        BY <4>1 DEF Tiles
      <4>5. k - 1 = 0 <=> k = 1
        BY <4>1
      <4>6. w[k - 1] = chunks[k].off
        BY <4>3, <4>4, <4>5, Zenon
      <4>7. QED
        BY <3>2, <4>2, <4>6
    <3>3. QED
      BY <3>1, <3>2
  <2>2. w = [k \in 0 .. n |-> Sum(w, k)]
    BY <2>1
  <2>3. QED
    BY <2>2
<1>2. f = [k \in 0 .. n |-> Sum(f, k)]
  BY <1>1 DEF SizesUpTo
<1>3. \A k \in 0 .. n : f[k] = EndAt(chunks, k)
  <2> DEFINE Bad == {k \in 0 .. n : f[k] # EndAt(chunks, k)}
  <2>1. SUFFICES ASSUME Bad # {} PROVE FALSE
    OBVIOUS
  <2>2. PICK m \in Bad : \A k \in Bad : m <= k
    <3>1. Bad \in SUBSET Nat
      BY <1>0
    <3>2. QED
      BY <3>1, <2>1, LeastNat, Zenon
  <2>3. m # 0
    BY <1>2, <1>0 DEF EndAt
  <2>4. f[m - 1] = EndAt(chunks, m - 1)
    BY <2>2, <2>3, <1>0
  <2>5. f[m] = f[m - 1] + chunks[m].size
    BY <1>2, <2>3, <1>0
  <2>6. QED
    BY <2>2, <2>3, <2>4, <2>5, <1>0 DEF EndAt, Tiles
<1>4. QED
  BY <1>3, <1>0 DEF TotalSize, EndOf, EndAt
=============================================================================
