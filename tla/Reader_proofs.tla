--------------------------- MODULE Reader_proofs ---------------------------
(***************************************************************************)
(* Proofs about Reader, and about the FileCache it reads through: of Spec, *)
(* for any readers, paths, contents, calls, sizes of the cache and numbers *)
(* of crashes and failed writes, as long as no path ends in ".chunk.j"     *)
(* next to the path it then shares a key with (NoAlias).                   *)
(*                                                                         *)
(*   1. what the operators on the index and on byte ranges compute;        *)
(*   2. what each operation of the cache keeps (CacheTyped, Room);         *)
(*   3. what a call has collected (Asked, Collected), and what Take adds;  *)
(*   4. the inductive invariant IInv, one lemma for each action;           *)
(*   5. the theorems.                                                      *)
(***************************************************************************)
EXTENDS Reader, ChunkPlan_proofs

----------------------------------------------------------------------------
(* What recursive functions on 0 .. n compute.                             *)

\* What holds of 0, and of i when it holds of i - 1, holds up to n.
LEMMA UpTo ==
    ASSUME NEW n \in Nat, NEW S, 0 \in S,
           \A i \in 1 .. n : i - 1 \in S => i \in S
    PROVE  \A i \in 0 .. n : i \in S
<1> DEFINE Bad == {i \in 0 .. n : i \notin S}
<1>1. SUFFICES ASSUME Bad # {} PROVE FALSE
  OBVIOUS
<1>2. PICK m \in Bad : \A k \in Bad : m <= k
  <2>1. Bad \in SUBSET Nat
    OBVIOUS
  <2>2. QED
    BY <2>1, <1>1, LeastNat, Zenon
<1>3. m \in 1 .. n /\ m - 1 \in 0 .. n /\ ~ (m <= m - 1)
  BY <1>2
<1>4. m - 1 \in S
  BY <1>2, <1>3
<1>5. QED
  BY <1>2, <1>3, <1>4

\* A recursion on 0 .. n has a solution.
Solves(g, n, V, base, step) ==
    /\ g \in [0 .. n -> V]
    /\ g[0] = base
    /\ \A i \in 1 .. n : g[i] = step[<<g[i - 1], i>>]

LEMMA Recursion ==
    ASSUME NEW n \in Nat, NEW V, NEW base \in V, NEW step \in [V \X (1 .. n) -> V]
    PROVE  \E g : Solves(g, n, V, base, step)
<1> DEFINE S == {m \in 0 .. n : \E g : Solves(g, m, V, base, step)}
<1>1. 0 \in S
  <2> DEFINE g == [i \in 0 .. 0 |-> base]
  <2>1. Solves(g, 0, V, base, step)
    BY DEF Solves
  <2> HIDE DEF g
  <2>2. QED
    BY <2>1
<1>2. ASSUME NEW m \in 1 .. n, m - 1 \in S PROVE m \in S
  <2>1. PICK g : Solves(g, m - 1, V, base, step)
    BY <1>2
  <2>2. /\ g \in [0 .. m - 1 -> V] /\ g[0] = base
        /\ \A i \in 1 .. m - 1 : g[i] = step[<<g[i - 1], i>>]
    BY <2>1 DEF Solves
  <2> DEFINE v == step[<<g[m - 1], m>>]
             h == [i \in 0 .. m |-> IF i = m THEN v ELSE g[i]]
  <2>3. v \in V
    <3>1. g[m - 1] \in V
      BY <2>2
    <3>2. <<g[m - 1], m>> \in V \X (1 .. n)
      BY <3>1
    <3>3. QED
      BY <3>2
  <2> HIDE DEF v
  <2>4. h \in [0 .. m -> V] /\ h[0] = base
    BY <2>2, <2>3
  <2>5. ASSUME NEW i \in 1 .. m PROVE h[i] = step[<<h[i - 1], i>>]
    <3>1. h[i - 1] = g[i - 1]
      OBVIOUS
    <3>2. CASE i = m
      <4>1. h[i] = v /\ v = step[<<g[i - 1], i>>]
        BY <3>2 DEF v
      <4>2. QED
        BY <4>1, <3>1
    <3>3. CASE i # m
      <4>1. i \in 1 .. m - 1 /\ h[i] = g[i]
        BY <3>3
      <4>2. g[i] = step[<<g[i - 1], i>>]
        BY <4>1, <2>2
      <4>3. QED
        BY <4>1, <4>2, <3>1
    <3>4. QED
      BY <3>2, <3>3
  <2> HIDE DEF h
  <2>6. Solves(h, m, V, base, step) /\ m \in 0 .. n
    BY <2>4, <2>5 DEF Solves
  <2>7. QED
    BY <2>6
<1> HIDE DEF S
<1>3. n \in S
  BY <1>1, <1>2, UpTo
<1>4. QED
  BY <1>3 DEF S

\* What a loop that adds up sizes has after each of them.
LEMMA SizesAddUp ==
    ASSUME NEW R, NEW s \in Seq(R), \A i \in 1 .. Len(s) : s[i].size \in Nat
    PROVE  /\ SizesUpTo(s) \in [0 .. Len(s) -> Nat]
           /\ SizesUpTo(s)[0] = 0
           /\ \A i \in 1 .. Len(s) : SizesUpTo(s)[i] = SizesUpTo(s)[i - 1] + s[i].size
           /\ TotalSize(s) \in Nat
<1> DEFINE n == Len(s)
           Sum(g, k) == IF k = 0 THEN 0 ELSE g[k - 1] + s[k].size
           f == SizesUpTo(s)
           step == [x \in Nat \X (1 .. n) |-> x[1] + s[x[2]].size]
<1>1. n \in Nat /\ 0 \in Nat
  OBVIOUS
<1>2. PICK g \in [0 .. n -> Nat] :
        g[0] = 0 /\ \A i \in 1 .. n : g[i] = g[i - 1] + s[i].size
  <2>1. step \in [Nat \X (1 .. n) -> Nat]
    OBVIOUS
  <2>2. \A v \in Nat, i \in 1 .. n : step[<<v, i>>] = v + s[i].size
    OBVIOUS
  <2> HIDE DEF step, n
  <2>3. PICK g : Solves(g, n, Nat, 0, step)
    BY <1>1, <2>1, Recursion
  <2>4. /\ g \in [0 .. n -> Nat] /\ g[0] = 0
        /\ \A i \in 1 .. n : g[i] = step[<<g[i - 1], i>>]
    BY <2>3 DEF Solves
  <2>5. \A i \in 1 .. n : g[i - 1] \in Nat
    BY <1>1, <2>4
  <2>6. QED
    BY <2>2, <2>4, <2>5
<1>3. g = [k \in 0 .. n |-> Sum(g, k)]
  BY <1>1, <1>2
<1>4. f = [k \in 0 .. n |-> Sum(f, k)]
  BY <1>3 DEF SizesUpTo
<1> HIDE DEF f, n
<1>5. \A i \in 0 .. n : i \in {k \in 0 .. n : f[k] = g[k]}
  <2> DEFINE S == {k \in 0 .. n : f[k] = g[k]}
  <2>1. 0 \in S
    BY <1>1, <1>2, <1>4
  <2>2. \A i \in 1 .. n : i - 1 \in S => i \in S
    BY <1>1, <1>2, <1>4
  <2> HIDE DEF S
  <2>3. QED
    BY <2>1, <2>2, <1>1, UpTo DEF S
<1>6. f = g
  BY <1>5, <1>4, <1>2
<1>7. QED
  BY <1>6, <1>2, <1>1 DEF f, n, TotalSize


----------------------------------------------------------------------------
(* The index of the cache.                                                 *)

LEMMA SlotSizes ==
    ASSUME NEW s \in Seq(Slot)
    PROVE  /\ Len(s) \in Nat /\ DOMAIN s = 1 .. Len(s)
           /\ \A i \in 1 .. Len(s) : s[i] \in Slot /\ s[i].key \in Keys /\ s[i].size \in Nat
<1>1. ASSUME NEW i \in 1 .. Len(s) PROVE s[i] \in Slot
  BY ElementOfSeq, Zenon
<1>2. QED
  BY <1>1 DEF Slot

LEMMA SlotTotal ==
    ASSUME NEW s \in Seq(Slot)
    PROVE  TotalSize(s) \in Nat /\ (Len(s) = 0 => TotalSize(s) = 0)
<1>1. \A i \in 1 .. Len(s) : s[i].size \in Nat
  BY SlotSizes
<1>2. TotalSize(s) \in Nat /\ SizesUpTo(s)[0] = 0
  BY <1>1, SizesAddUp, Zenon
<1>3. QED
  BY <1>2 DEF TotalSize

LEMMA AppendAddsUp ==
    ASSUME NEW s \in Seq(Slot), NEW e \in Slot
    PROVE  /\ Append(s, e) \in Seq(Slot)
           /\ Len(Append(s, e)) = Len(s) + 1
           /\ \A i \in 1 .. Len(s) : Append(s, e)[i] = s[i]
           /\ Append(s, e)[Len(s) + 1] = e
           /\ TotalSize(Append(s, e)) = TotalSize(s) + e.size
<1> DEFINE t == Append(s, e)
           n == Len(s)
           S == {i \in 0 .. n : SizesUpTo(t)[i] = SizesUpTo(s)[i]}
<1>1. /\ t \in Seq(Slot) /\ Len(t) = n + 1 /\ n \in Nat
      /\ \A i \in 1 .. n : t[i] = s[i]
      /\ t[n + 1] = e
  OBVIOUS
<1> HIDE DEF t
<1>2. \A i \in 1 .. Len(s) : s[i].size \in Nat
  BY SlotSizes
<1>3. \A i \in 1 .. Len(t) : t[i].size \in Nat
  BY <1>1, SlotSizes
<1>4. /\ SizesUpTo(s)[0] = 0
      /\ \A i \in 1 .. n : SizesUpTo(s)[i] = SizesUpTo(s)[i - 1] + s[i].size
  BY <1>2, SizesAddUp, Zenon
<1>5. /\ SizesUpTo(t)[0] = 0
      /\ \A i \in 1 .. Len(t) : SizesUpTo(t)[i] = SizesUpTo(t)[i - 1] + t[i].size
  BY <1>1, <1>3, SizesAddUp, Zenon
<1> HIDE DEF n
<1>6. 0 \in S
  BY <1>1, <1>4, <1>5
<1>7. ASSUME NEW i \in 1 .. n, i - 1 \in S PROVE i \in S
  <2>1. i \in 1 .. Len(t) /\ t[i] = s[i] /\ i \in 0 .. n
    BY <1>1
  <2>2. SizesUpTo(t)[i - 1] = SizesUpTo(s)[i - 1]
    BY <1>7
  <2>3. SizesUpTo(t)[i] = SizesUpTo(s)[i]
    BY <2>1, <2>2, <1>4, <1>5
  <2>4. QED
    BY <2>1, <2>3
<1> HIDE DEF S
<1>8. n \in S
  <2>1. n \in Nat /\ n \in 0 .. n
    BY <1>1
  <2>2. \A i \in 0 .. n : i \in S
    BY <2>1, <1>6, <1>7, UpTo, Zenon
  <2>3. QED
    BY <2>1, <2>2
<1>9. SizesUpTo(t)[n] = SizesUpTo(s)[n]
  BY <1>8 DEF S
<1>10. SizesUpTo(t)[n + 1] = SizesUpTo(t)[n] + e.size
  <2>1. n + 1 \in 1 .. Len(t) /\ (n + 1) - 1 = n
    BY <1>1
  <2>2. QED
    BY <2>1, <1>1, <1>5
<1>11. TotalSize(t) = TotalSize(s) + e.size
  BY <1>1, <1>9, <1>10 DEF TotalSize, n
<1>12. QED
  BY <1>1, <1>11 DEF t, n

\* No two entries of an index have the same key.
Distinct(entries) ==
    \A i, j \in DOMAIN entries : entries[i].key = entries[j].key => i = j

LEMMA AppendKeys ==
    ASSUME NEW s \in Seq(Slot), NEW e \in Slot
    PROVE  /\ KeysOf(Append(s, e)) = KeysOf(s) \cup {e.key}
           /\ Distinct(s) /\ e.key \notin KeysOf(s) => Distinct(Append(s, e))
<1> DEFINE t == Append(s, e)
           n == Len(s)
<1>1. /\ t \in Seq(Slot) /\ Len(t) = n + 1 /\ n \in Nat
      /\ \A i \in 1 .. n : t[i] = s[i]
      /\ t[n + 1] = e
      /\ DOMAIN t = 1 .. n + 1 /\ DOMAIN s = 1 .. n
  OBVIOUS
<1> HIDE DEF t, n
<1>2. KeysOf(t) = KeysOf(s) \cup {e.key}
  <2>1. \A k \in KeysOf(t) : k \in KeysOf(s) \cup {e.key}
    BY <1>1 DEF KeysOf
  <2>2. \A k \in KeysOf(s) : k \in KeysOf(t)
    BY <1>1 DEF KeysOf
  <2>3. e.key \in KeysOf(t)
    <3>1. n + 1 \in DOMAIN t /\ t[n + 1].key = e.key
      BY <1>1
    <3>2. QED
      BY <3>1 DEF KeysOf
  <2>4. QED
    BY <2>1, <2>2, <2>3
<1>3. ASSUME Distinct(s), e.key \notin KeysOf(s) PROVE Distinct(t)
  <2>1. \A i \in 1 .. n : s[i].key # e.key
    BY <1>1, <1>3 DEF KeysOf
  <2>2. QED
    BY <2>1, <1>1, <1>3 DEF Distinct
<1>4. QED
  BY <1>2, <1>3 DEF t

\* Without takes the entries of K out and leaves the rest as it was.
LEMMA WithoutLeaves ==
    ASSUME NEW s \in Seq(Slot), NEW K, Distinct(s)
    PROVE  /\ Without(s, K) \in Seq(Slot)
           /\ Distinct(Without(s, K))
           /\ KeysOf(Without(s, K)) = KeysOf(s) \ K
           /\ Len(Without(s, K)) <= Len(s)
           /\ TotalSize(Without(s, K)) <= TotalSize(s)
<1> DEFINE n == Len(s)
           Kept(g, i) == IF i = 0 THEN <<>>
                         ELSE IF s[i].key \in K THEN g[i - 1]
                         ELSE Append(g[i - 1], s[i])
           step == [x \in Seq(Slot) \X (1 .. n) |->
                        IF s[x[2]].key \in K THEN x[1] ELSE Append(x[1], s[x[2]])]
           Before(i) == {s[j].key : j \in 1 .. i}
           f == SizesUpTo(s)
           Good(t, i) == /\ t \in Seq(Slot)
                         /\ Distinct(t)
                         /\ KeysOf(t) = Before(i) \ K
                         /\ Len(t) <= i
                         /\ TotalSize(t) <= f[i]
<1>1. /\ n \in Nat /\ DOMAIN s = 1 .. n
      /\ \A i \in 1 .. n : s[i] \in Slot /\ s[i].key \in Keys /\ s[i].size \in Nat
  BY SlotSizes, Zenon
<1>2. /\ f \in [0 .. n -> Nat] /\ f[0] = 0
      /\ \A i \in 1 .. n : f[i] = f[i - 1] + s[i].size
  BY <1>1, SizesAddUp, Zenon
<1> HIDE DEF n, f
<1>3. <<>> \in Seq(Slot)
  OBVIOUS
<1>4. PICK g : Solves(g, n, Seq(Slot), <<>>, step)
  <2>1. step \in [Seq(Slot) \X (1 .. n) -> Seq(Slot)]
    BY <1>1
  <2> HIDE DEF step
  <2>2. QED
    BY <1>1, <1>3, <2>1, Recursion
<1>5. /\ g \in [0 .. n -> Seq(Slot)] /\ g[0] = <<>>
      /\ \A i \in 1 .. n : g[i] = step[<<g[i - 1], i>>]
  BY <1>4 DEF Solves
<1>6. \A i \in 1 .. n : g[i] = IF s[i].key \in K THEN g[i - 1] ELSE Append(g[i - 1], s[i])
  <2>1. ASSUME NEW i \in 1 .. n
        PROVE  g[i] = IF s[i].key \in K THEN g[i - 1] ELSE Append(g[i - 1], s[i])
    <3>1. g[i - 1] \in Seq(Slot)
      BY <1>1, <1>5
    <3>2. <<g[i - 1], i>> \in Seq(Slot) \X (1 .. n)
      BY <3>1
    <3>3. QED
      BY <3>2, <1>5
  <2>2. QED
    BY <2>1
<1>7. g = [i \in 0 .. n |-> Kept(g, i)]
  <2>1. ASSUME NEW i \in 0 .. n PROVE g[i] = Kept(g, i)
    <3>1. CASE i = 0
      BY <3>1, <1>5
    <3>2. CASE i # 0
      <4>1. i \in 1 .. n
        BY <3>2, <1>1
      <4>2. QED
        BY <4>1, <3>2, <1>6, Zenon
    <3>3. QED
      BY <3>1, <3>2
  <2> HIDE DEF Kept
  <2>2. QED
    BY <2>1, <1>5
<1> DEFINE kept == CHOOSE h : h = [i \in 0 .. n |-> Kept(h, i)]
<1>8. kept = [i \in 0 .. n |-> Kept(kept, i)]
  BY <1>7
<1>9. Without(s, K) = kept[n]
  BY DEF Without, n
<1> HIDE DEF kept
<1> DEFINE S == {i \in 0 .. n : Good(kept[i], i)}
<1>10. 0 \in S
  <2>1. kept[0] = <<>> /\ 0 \in 0 .. n
    BY <1>1, <1>8
  <2>2. /\ <<>> \in Seq(Slot) /\ Len(<<>>) = 0 /\ DOMAIN <<>> = {}
    OBVIOUS
  <2>3. TotalSize(<<>>) = 0
    BY <2>2, SlotTotal
  <2>4. Distinct(<<>>) /\ KeysOf(<<>>) = {} /\ Before(0) = {}
    BY <2>2 DEF Distinct, KeysOf
  <2>5. Good(<<>>, 0)
    BY <2>2, <2>3, <2>4, <1>2
  <2>6. Good(kept[0], 0)
    BY <2>1, <2>5, Zenon
  <2> HIDE DEF Good
  <2>7. QED
    BY <2>1, <2>6
<1>11. ASSUME NEW i \in 1 .. n, i - 1 \in S PROVE i \in S
  <2> DEFINE t == kept[i - 1]
  <2>1. Good(t, i - 1)
    BY <1>11
  <2>2. kept[i] = IF s[i].key \in K THEN t ELSE Append(t, s[i])
    <3>1. i \in 0 .. n /\ i # 0
      BY <1>1
    <3>2. kept[i] = Kept(kept, i)
      BY <3>1, <1>8, Zenon
    <3>3. QED
      BY <3>1, <3>2, Zenon
  <2>3. Before(i) = Before(i - 1) \cup {s[i].key}
    BY <1>1
  <2>4. f[i] = f[i - 1] + s[i].size /\ f[i - 1] \in Nat /\ s[i].size \in Nat /\ s[i] \in Slot
    BY <1>1, <1>2
  <2>5. TotalSize(t) \in Nat /\ Len(t) \in Nat
    BY <2>1, SlotTotal
  <2>6. s[i].key \notin Before(i - 1)
    BY <1>1 DEF Distinct
  <2> HIDE DEF t, Before
  <2>7. CASE s[i].key \in K
    <3>1. kept[i] = t
      BY <2>2, <2>7
    <3>2. QED
      BY <3>1, <2>1, <2>3, <2>4, <2>5, <2>7
  <2>8. CASE s[i].key \notin K
    <3> DEFINE u == Append(t, s[i])
    <3>1. kept[i] = u
      BY <2>2, <2>8
    <3>2. /\ u \in Seq(Slot) /\ Len(u) = Len(t) + 1
          /\ TotalSize(u) = TotalSize(t) + s[i].size
      BY <2>1, <2>4, AppendAddsUp, Zenon
    <3>3. KeysOf(u) = KeysOf(t) \cup {s[i].key} /\ Distinct(u)
      BY <2>1, <2>4, <2>6, AppendKeys
    <3> HIDE DEF u
    <3>4. QED
      BY <3>1, <3>2, <3>3, <2>1, <2>3, <2>4, <2>5, <2>8
  <2>9. QED
    BY <2>7, <2>8
<1> HIDE DEF S
<1>12. n \in S
  <2>1. n \in Nat /\ n \in 0 .. n
    BY <1>1
  <2>2. \A i \in 0 .. n : i \in S
    BY <2>1, <1>10, <1>11, UpTo, Zenon
  <2>3. QED
    BY <2>1, <2>2
<1>13. Good(kept[n], n) /\ Before(n) = KeysOf(s) /\ f[n] = TotalSize(s)
  BY <1>1, <1>12 DEF S, KeysOf, TotalSize, f, n
<1>14. QED
  BY <1>9, <1>13 DEF n

LEMMA TailOfIndex ==
    ASSUME NEW s \in Seq(Slot), Distinct(s), NEW n \in 0 .. Len(s)
    PROVE  LET t == SubSeq(s, n + 1, Len(s)) IN
           /\ t \in Seq(Slot) /\ Distinct(t)
           /\ KeysOf(t) \subseteq KeysOf(s)
           /\ n = Len(s) => t = <<>>
<1> DEFINE t == SubSeq(s, n + 1, Len(s))
<1>1. /\ t \in Seq(Slot) /\ Len(t) = Len(s) - n
      /\ \A i \in 1 .. Len(s) - n : t[i] = s[n + i]
  OBVIOUS
<1>2. Len(s) \in Nat /\ n \in Nat /\ DOMAIN t = 1 .. Len(s) - n /\ DOMAIN s = 1 .. Len(s)
  BY <1>1
<1>3. n = Len(s) => t = <<>>
  BY <1>1, <1>2
<1> HIDE DEF t
<1>4. \A i \in DOMAIN t : n + i \in DOMAIN s /\ t[i] = s[n + i]
  BY <1>1, <1>2
<1>5. KeysOf(t) \subseteq KeysOf(s)
  <2>1. ASSUME NEW k \in KeysOf(t) PROVE k \in KeysOf(s)
    <3>1. PICK i \in DOMAIN t : k = t[i].key
      BY DEF KeysOf
    <3>2. QED
      BY <3>1, <1>4 DEF KeysOf
  <2>2. QED
    BY <2>1
<1>6. Distinct(t)
  <2>1. ASSUME NEW i \in DOMAIN t, NEW j \in DOMAIN t, t[i].key = t[j].key PROVE i = j
    <3>1. n + i = n + j
      BY <1>4, <2>1 DEF Distinct
    <3>2. QED
      BY <3>1, <1>2
  <2>2. QED
    BY <2>1 DEF Distinct
<1>7. QED
  BY <1>1, <1>3, <1>5, <1>6 DEF t

\* evictIfNeeded makes room, or leaves nothing, and keeps nothing that has
\* expired.
LEMMA EvictLeaves ==
    ASSUME index \in Seq(Slot), Distinct(index), NEW needed \in Nat
    PROVE  LET e == EvictIfNeeded(needed) IN
           /\ e \in Seq(Slot) /\ Distinct(e)
           /\ KeysOf(e) \subseteq KeysOf(index) \ old
           /\ TotalSize(e) + needed <= MaxSize \/ e = <<>>
<1> DEFINE live == Without(index, old)
           rest(n) == SubSeq(live, n + 1, Len(live))
           fits(n) == TotalSize(rest(n)) + needed <= MaxSize
           Ends(n) == fits(n) \/ n = Len(live)
           Stops(n) == Ends(n) /\ \A m \in 0 .. n - 1 : ~ fits(m)
           stop == CHOOSE n \in 0 .. Len(live) : Stops(n)
<1>1. live \in Seq(Slot) /\ Distinct(live) /\ KeysOf(live) = KeysOf(index) \ old
  BY WithoutLeaves, Zenon
<1>2. EvictIfNeeded(needed) = rest(stop)
  BY DEF EvictIfNeeded
<1> HIDE DEF live
<1>3. Len(live) \in Nat
  BY <1>1
<1> HIDE DEF fits
<1>4. \E n \in 0 .. Len(live) : Stops(n)
  <2> DEFINE S == {n \in 0 .. Len(live) : Ends(n)}
  <2>1. S \in SUBSET Nat /\ Len(live) \in S
    BY <1>3
  <2> HIDE DEF S
  <2>2. PICK n \in S : \A m \in S : n <= m
    BY <2>1, LeastNat, Zenon
  <2>3. n \in 0 .. Len(live) /\ Ends(n)
    BY <2>2 DEF S
  <2>4. ASSUME NEW m \in 0 .. n - 1 PROVE ~ fits(m)
    <3>1. m \in 0 .. Len(live) /\ ~ (n <= m)
      BY <2>3, <1>3
    <3>2. m \notin S
      BY <3>1, <2>2
    <3>3. QED
      BY <3>1, <3>2 DEF S
  <2>5. QED
    BY <2>3, <2>4
<1> HIDE DEF Stops
<1>5. stop \in 0 .. Len(live) /\ Stops(stop)
  BY <1>4
<1> HIDE DEF stop
<1>6. /\ rest(stop) \in Seq(Slot) /\ Distinct(rest(stop))
      /\ KeysOf(rest(stop)) \subseteq KeysOf(live)
      /\ stop = Len(live) => rest(stop) = <<>>
  BY <1>1, <1>5, TailOfIndex, Zenon
<1>7. fits(stop) \/ stop = Len(live)
  BY <1>5 DEF Stops
<1>8. QED
  BY <1>1, <1>2, <1>6, <1>7 DEF fits

----------------------------------------------------------------------------
(* The cache, whatever is done with it.                                    *)

CacheTyped ==
    /\ index \in Seq(Slot) /\ Distinct(index)
    /\ old \subseteq Keys
    /\ DOMAIN files \subseteq Keys
    /\ \A k \in DOMAIN files : files[k] \in Seq(Byte)
    /\ saved \in Seq(Slot) \cup {NoIndex}
    /\ saved # NoIndex => Distinct(saved)
    /\ setting \in [key : Keys, data : Seq(Byte)] \cup {NoSet}
    /\ Locked => setting.key \in DOMAIN files
    /\ KeysOf(index) \subseteq DOMAIN files

Fits(entries) == TotalSize(entries) <= MaxSize \/ Len(entries) <= 1

\* What the index counts leaves room for what is being written.
Room ==
    /\ Fits(index)
    /\ saved # NoIndex => Fits(saved)
    /\ Locked => TotalSize(index) + Len(setting.data) <= MaxSize \/ index = <<>>

LEMMA WithoutFits ==
    ASSUME NEW s \in Seq(Slot), NEW K, Distinct(s), Fits(s)
    PROVE  Fits(Without(s, K))
<1> DEFINE t == Without(s, K)
<1>1. t \in Seq(Slot) /\ Len(t) <= Len(s) /\ TotalSize(t) <= TotalSize(s)
  BY WithoutLeaves, Zenon
<1> HIDE DEF t
<1>2. Len(t) \in Nat /\ Len(s) \in Nat /\ TotalSize(t) \in Nat /\ TotalSize(s) \in Nat
  BY <1>1, SlotTotal
<1>3. Fits(t)
  BY <1>1, <1>2, CacheAssumption DEF Fits
<1>4. QED
  BY <1>3 DEF t

\* A lock that is held names a key and bytes.
LEMMA LockedTyped ==
    ASSUME CacheTyped, Locked
    PROVE  /\ setting \in [key : Keys, data : Seq(Byte)]
           /\ setting.key \in Keys /\ setting.data \in Seq(Byte)
<1>1. setting \in [key : Keys, data : Seq(Byte)]
  BY DEF CacheTyped, Locked
<1>2. QED
  BY <1>1

LEMMA PrefixOfData ==
    ASSUME NEW data \in Seq(Byte), NEW part \in Prefixes(data)
    PROVE  part \in Seq(Byte) /\ IsPrefix(part, data)
<1>1. PICK l \in 0 .. Len(data) : part = SubSeq(data, 1, l)
  BY DEF Prefixes
<1>2. part \in Seq(Byte) /\ Len(part) = l
  BY <1>1
<1>3. SubSeq(part, 1, Len(part)) = part
  BY <1>2
<1>4. QED
  BY <1>1, <1>2, <1>3 DEF IsPrefix

\* What is in the index stays what it was, but for what is being written.
FilesKept(K) ==
    \A k \in DOMAIN files' \ K : k \in DOMAIN files /\ files'[k] = files[k]

LEMMA SetBeginStep ==
    ASSUME CacheTyped, Room, NEW k \in Keys, NEW data \in Seq(Byte), SetBegin(k, data)
    PROVE  /\ CacheTyped' /\ Room'
           /\ ~ Locked /\ Locked' /\ setting' = [key |-> k, data |-> data]
           /\ saved' = saved /\ old' = old
           /\ KeysOf(index') \subseteq KeysOf(index) \ old
           /\ DOMAIN files' = {k} \cup (DOMAIN files \ (KeysOf(index) \ KeysOf(index')))
           /\ FilesKept({k}) /\ files'[k] = <<>>
<1> DEFINE left == FilesLeft(index, index')
<1>1. /\ ~ Locked /\ index' = EvictIfNeeded(Len(data))
      /\ files' = [x \in {k} \cup DOMAIN left |-> IF x = k THEN <<>> ELSE left[x]]
      /\ setting' = [key |-> k, data |-> data] /\ saved' = saved /\ old' = old
  BY DEF SetBegin
<1>2. Len(data) \in Nat
  OBVIOUS
<1>3. /\ index' \in Seq(Slot) /\ Distinct(index')
      /\ KeysOf(index') \subseteq KeysOf(index) \ old
      /\ TotalSize(index') + Len(data) <= MaxSize \/ index' = <<>>
  BY <1>1, <1>2, EvictLeaves DEF CacheTyped
<1>4. /\ DOMAIN left = DOMAIN files \ (KeysOf(index) \ KeysOf(index'))
      /\ \A x \in DOMAIN left : left[x] = files[x]
  BY DEF FilesLeft, Restrict
<1> HIDE DEF left
<1>5. DOMAIN files' = {k} \cup (DOMAIN files \ (KeysOf(index) \ KeysOf(index')))
  BY <1>1, <1>4
<1>6. FilesKept({k}) /\ files'[k] = <<>>
  BY <1>1, <1>4 DEF FilesKept
<1>7. Locked' /\ setting' \in [key : Keys, data : Seq(Byte)]
      /\ setting'.key = k /\ setting'.data = data
  <2>1. setting' \in [key : Keys, data : Seq(Byte)]
    BY <1>1
  <2>2. QED
    BY <2>1, <1>1, NoneAssumption DEF Locked
<1>8. \A x \in DOMAIN files' : files'[x] \in Seq(Byte)
  <2>1. ASSUME NEW x \in DOMAIN files' PROVE files'[x] \in Seq(Byte)
    <3>1. CASE x = k
      <4>1. files'[x] = <<>>
        BY <1>1, <3>1
      <4>2. QED
        BY <4>1
    <3>2. CASE x # k
      <4>1. x \in DOMAIN files /\ files'[x] = files[x]
        BY <3>2, <1>6 DEF FilesKept
      <4>2. QED
        BY <4>1 DEF CacheTyped
    <3>3. QED
      BY <3>1, <3>2
  <2>2. QED
    BY <2>1
<1>9. CacheTyped'
  <2>1. KeysOf(index') \subseteq DOMAIN files' /\ DOMAIN files' \subseteq Keys
    BY <1>3, <1>5 DEF CacheTyped
  <2>2. QED
    BY <2>1, <1>1, <1>3, <1>5, <1>7, <1>8 DEF CacheTyped
<1>10. Room'
  <2>1. TotalSize(index') \in Nat /\ Len(index') \in Nat
    BY <1>3, SlotTotal
  <2>2. Fits(index')
    BY <2>1, <1>2, <1>3, CacheAssumption DEF Fits
  <2>3. QED
    BY <2>2, <1>1, <1>3, <1>7 DEF Room
<1>11. QED
  BY <1>1, <1>3, <1>5, <1>6, <1>7, <1>9, <1>10

LEMMA SetEndStep ==
    ASSUME CacheTyped, Room, SetEnd
    PROVE  /\ CacheTyped' /\ Room'
           /\ Locked /\ ~ Locked' /\ saved' = index'
           /\ old' = (old \cap KeysOf(index)) \ {setting.key}
           /\ KeysOf(index') = KeysOf(index) \cup {setting.key}
           /\ DOMAIN files' = DOMAIN files
           /\ FilesKept({setting.key}) /\ files'[setting.key] = setting.data
<1> DEFINE e == [key |-> setting.key, size |-> Len(setting.data)]
           rest == Without(index, {setting.key})
<1>1. /\ Locked /\ index' = Append(rest, e)
      /\ files' = [files EXCEPT ![setting.key] = setting.data]
      /\ saved' = index' /\ setting' = NoSet
      /\ old' = (old \cap KeysOf(index)) \ {setting.key}
  BY DEF SetEnd
<1>2. setting.key \in Keys /\ setting.data \in Seq(Byte) /\ setting.key \in DOMAIN files
  BY <1>1, LockedTyped DEF CacheTyped
<1>3. Len(setting.data) \in Nat
  BY <1>2
<1>4. e \in Slot /\ e.key = setting.key /\ e.size = Len(setting.data)
  BY <1>2, <1>3 DEF Slot
<1>5. /\ rest \in Seq(Slot) /\ Distinct(rest) /\ KeysOf(rest) = KeysOf(index) \ {setting.key}
      /\ Len(rest) <= Len(index) /\ TotalSize(rest) <= TotalSize(index)
  BY WithoutLeaves, Zenon DEF CacheTyped
<1> HIDE DEF e, rest
<1>6. /\ index' \in Seq(Slot) /\ Len(index') = Len(rest) + 1
      /\ TotalSize(index') = TotalSize(rest) + e.size
  BY <1>1, <1>4, <1>5, AppendAddsUp, Zenon
<1>7. KeysOf(index') = KeysOf(index) \cup {setting.key} /\ Distinct(index')
  BY <1>1, <1>4, <1>5, AppendKeys
<1>8. /\ DOMAIN files' = DOMAIN files /\ files'[setting.key] = setting.data
      /\ FilesKept({setting.key})
  BY <1>1, <1>2 DEF FilesKept
<1>9. Fits(index')
  <2>1. /\ TotalSize(rest) \in Nat /\ TotalSize(index) \in Nat
        /\ Len(rest) \in Nat /\ Len(index) \in Nat
    BY <1>5, SlotTotal DEF CacheTyped
  <2>2. CASE TotalSize(index) + Len(setting.data) <= MaxSize
    <3>1. TotalSize(index') <= MaxSize
      BY <2>1, <2>2, <1>3, <1>4, <1>5, <1>6, CacheAssumption
    <3>2. QED
      BY <3>1 DEF Fits
  <2>3. CASE index = <<>>
    <3>1. Len(index') <= 1
      BY <2>1, <2>3, <1>5, <1>6
    <3>2. QED
      BY <3>1 DEF Fits
  <2>4. QED
    BY <2>2, <2>3, <1>1 DEF Room
<1>10. CacheTyped'
  <2>1. \A x \in DOMAIN files' : files'[x] \in Seq(Byte)
    BY <1>2, <1>8 DEF CacheTyped, FilesKept
  <2>2. KeysOf(index') \subseteq DOMAIN files'
    BY <1>2, <1>7, <1>8 DEF CacheTyped
  <2>3. QED
    BY <2>1, <2>2, <1>1, <1>6, <1>7, <1>8 DEF CacheTyped, Locked
<1>11. Room'
  BY <1>1, <1>9 DEF Room, Locked
<1>12. ~ Locked'
  BY <1>1 DEF Locked
<1>13. QED
  BY <1>1, <1>7, <1>8, <1>10, <1>11, <1>12

LEMMA SetFailsStep ==
    ASSUME CacheTyped, Room, SetFails
    PROVE  /\ CacheTyped' /\ Room'
           /\ Locked /\ ~ Locked' /\ index' = index /\ saved' = saved /\ old' = old
           /\ DOMAIN files' = DOMAIN files
           /\ FilesKept({setting.key})
<1>1. PICK part \in Prefixes(setting.data) : files' = [files EXCEPT ![setting.key] = part]
  BY DEF SetFails
<1>2. Locked /\ index' = index /\ saved' = saved /\ old' = old /\ setting' = NoSet
  BY DEF SetFails
<1>3. part \in Seq(Byte) /\ setting.key \in DOMAIN files
  BY <1>2, LockedTyped, PrefixOfData DEF CacheTyped
<1>4. /\ DOMAIN files' = DOMAIN files /\ files'[setting.key] = part
      /\ FilesKept({setting.key})
  BY <1>1, <1>3 DEF FilesKept
<1>5. \A x \in DOMAIN files' : files'[x] \in Seq(Byte)
  BY <1>3, <1>4 DEF CacheTyped, FilesKept
<1>6. CacheTyped'
  BY <1>2, <1>4, <1>5 DEF CacheTyped, Locked
<1>7. Room' /\ ~ Locked'
  BY <1>2 DEF Room, Locked
<1>8. QED
  BY <1>2, <1>4, <1>6, <1>7

\* What is left when entries are taken out of the index, and their files away.
LEMMA TakenOut ==
    ASSUME CacheTyped, Room, ~ Locked, NEW K, index' = Without(index, K),
           files' = FilesLeft(index, index'),
           saved' = index' \/ saved' = saved, old' \subseteq old, setting' = setting
    PROVE  /\ CacheTyped' /\ Room' /\ ~ Locked'
           /\ KeysOf(index') = KeysOf(index) \ K
           /\ DOMAIN files' = DOMAIN files \ (KeysOf(index) \ KeysOf(index'))
           /\ FilesKept({})
<1>1. index' \in Seq(Slot) /\ Distinct(index') /\ KeysOf(index') = KeysOf(index) \ K
  BY WithoutLeaves, Zenon DEF CacheTyped
<1>2. Fits(index')
  BY WithoutFits, Zenon DEF CacheTyped, Room
<1>3. /\ DOMAIN files' = DOMAIN files \ (KeysOf(index) \ KeysOf(index'))
      /\ FilesKept({})
  BY DEF FilesLeft, Restrict, FilesKept
<1>4. KeysOf(index') \subseteq DOMAIN files' /\ DOMAIN files' \subseteq Keys
  BY <1>1, <1>3 DEF CacheTyped
<1>5. \A x \in DOMAIN files' : files'[x] \in Seq(Byte)
  BY <1>3 DEF CacheTyped, FilesKept
<1>6. ~ Locked'
  BY DEF Locked
<1>7. saved' \in Seq(Slot) \cup {NoIndex} /\ (saved' # NoIndex => Distinct(saved') /\ Fits(saved'))
  BY <1>1, <1>2 DEF CacheTyped, Room
<1>8. setting' \in [key : Keys, data : Seq(Byte)] \cup {NoSet} /\ old' \subseteq Keys
  BY DEF CacheTyped
<1>9. CacheTyped'
  BY <1>1, <1>4, <1>5, <1>6, <1>7, <1>8 DEF CacheTyped
<1>10. Room'
  BY <1>2, <1>6, <1>7 DEF Room
<1>11. QED
  BY <1>1, <1>3, <1>6, <1>9, <1>10

LEMMA DeleteKeysStep ==
    ASSUME CacheTyped, Room, NEW K, DeleteKeys(K)
    PROVE  /\ CacheTyped' /\ Room' /\ ~ Locked /\ ~ Locked' /\ setting' = setting
           /\ saved' = index' \/ (saved' = saved /\ index' = index)
           /\ old' = old \ K
           /\ KeysOf(index') = KeysOf(index) \ K
           /\ DOMAIN files' = DOMAIN files \ (KeysOf(index) \ KeysOf(index'))
           /\ FilesKept({})
<1>1. /\ ~ Locked /\ index' = Without(index, K) /\ files' = FilesLeft(index, index')
      /\ saved' = index' \/ (saved' = saved /\ index' = index)
      /\ old' = old \ K /\ setting' = setting
  BY DEF DeleteKeys
<1>2. QED
  BY <1>1, TakenOut

LEMMA CleanupStep ==
    ASSUME CacheTyped, Room, Cleanup
    PROVE  /\ CacheTyped' /\ Room' /\ ~ Locked /\ ~ Locked' /\ setting' = setting
           /\ saved' = index' /\ old' = {}
           /\ KeysOf(index') = KeysOf(index) \ old
           /\ DOMAIN files' = DOMAIN files \ (KeysOf(index) \ KeysOf(index'))
           /\ FilesKept({})
<1>1. /\ ~ Locked /\ index' = Without(index, old) /\ files' = FilesLeft(index, index')
      /\ saved' = index' /\ old' = {} /\ setting' = setting
  BY DEF Cleanup
<1>2. QED
  BY <1>1, TakenOut

LEMMA ExpireStep ==
    ASSUME CacheTyped, Room, Expire
    PROVE  /\ CacheTyped' /\ Room' /\ old \subseteq old'
           /\ UNCHANGED <<index, files, saved, setting>>
<1> DEFINE live == Without(index, old)
<1>1. live \in Seq(Slot)
  BY WithoutLeaves, Zenon DEF CacheTyped
<1>2. live # <<>> /\ old' = old \cup {Head(live).key} /\ UNCHANGED <<index, files, saved, setting>>
  BY DEF Expire
<1> HIDE DEF live
<1>3. Head(live) \in Slot
  BY <1>1, <1>2
<1>4. old' \subseteq Keys
  BY <1>2, <1>3 DEF Slot, CacheTyped
<1>5. QED
  BY <1>2, <1>4 DEF CacheTyped, Room, Locked

\* The next process starts from what index.json names and the directory has.
LEMMA CrashStep ==
    ASSUME CacheTyped, Room, CrashAndLoad
    PROVE  /\ CacheTyped' /\ Room' /\ ~ Locked' /\ old' = old
           /\ saved' = saved \/ saved' = NoIndex
           /\ KeysOf(index') = IF saved' = NoIndex THEN {} ELSE KeysOf(saved') \cap DOMAIN files'
           /\ DOMAIN files' \subseteq DOMAIN files
           /\ \A k \in DOMAIN files' :
                \/ files'[k] = files[k] /\ ~ (Locked /\ setting.key = k)
                \/ Locked /\ setting.key = k /\ files'[k] \in Prefixes(setting.data)
<1> DEFINE Lefts == IF Locked
                    THEN {[files EXCEPT ![setting.key] = part] :
                            part \in Prefixes(setting.data)}
                    ELSE {files}
           Named(json) == IF json = NoIndex THEN <<>> ELSE json
<1>1. PICK left \in Lefts, json \in {saved, NoIndex} :
        /\ index' = Without(Named(json), KeysOf(Named(json)) \ (DOMAIN left \ old))
        /\ files' = Restrict(left, DOMAIN left \ (old \cap KeysOf(Named(json))))
        /\ saved' = json /\ setting' = NoSet /\ old' = old
  BY DEF CrashAndLoad
<1> DEFINE named == Named(json)
<1>2. named \in Seq(Slot) /\ Distinct(named) /\ Fits(named)
  <2>1. <<>> \in Seq(Slot) /\ Distinct(<<>>) /\ Fits(<<>>)
    <3>1. <<>> \in Seq(Slot) /\ Len(<<>>) = 0 /\ DOMAIN <<>> = {}
      OBVIOUS
    <3>2. QED
      BY <3>1 DEF Distinct, Fits
  <2>2. QED
    BY <2>1 DEF CacheTyped, Room
<1>3. KeysOf(named) = IF json = NoIndex THEN {} ELSE KeysOf(json)
  BY DEF KeysOf
<1> HIDE DEF named
<1>4. /\ index' = Without(named, KeysOf(named) \ (DOMAIN left \ old))
      /\ files' = Restrict(left, DOMAIN left \ (old \cap KeysOf(named)))
  BY <1>1 DEF named
<1>5. /\ index' \in Seq(Slot) /\ Distinct(index') /\ Fits(index')
      /\ KeysOf(index') = KeysOf(named) \ (KeysOf(named) \ (DOMAIN left \ old))
  BY <1>2, <1>4, WithoutLeaves, WithoutFits, Zenon
<1>6. /\ DOMAIN files' = DOMAIN left \ (old \cap KeysOf(named))
      /\ \A k \in DOMAIN files' : files'[k] = left[k]
  BY <1>4 DEF Restrict
<1>7. KeysOf(index') = KeysOf(named) \cap DOMAIN files'
  BY <1>5, <1>6
<1>8. /\ DOMAIN left = DOMAIN files
      /\ \A k \in DOMAIN files :
            \/ left[k] = files[k] /\ ~ (Locked /\ setting.key = k)
            \/ Locked /\ setting.key = k /\ left[k] \in Prefixes(setting.data)
  <2>1. CASE Locked
    <3>1. PICK part \in Prefixes(setting.data) : left = [files EXCEPT ![setting.key] = part]
      BY <1>1, <2>1
    <3>2. setting.key \in DOMAIN files
      BY <2>1 DEF CacheTyped
    <3>3. QED
      BY <2>1, <3>1, <3>2
  <2>2. CASE ~ Locked
    BY <2>2, <1>1
  <2>3. QED
    BY <2>1, <2>2
<1>9. \A k \in DOMAIN files :
            /\ Locked /\ setting.key = k => setting.data \in Seq(Byte)
            /\ files[k] \in Seq(Byte)
  BY LockedTyped DEF CacheTyped
<1>10. \A k \in DOMAIN files' : files'[k] \in Seq(Byte)
  BY <1>6, <1>8, <1>9, PrefixOfData
<1>11. ~ Locked' /\ DOMAIN files' \subseteq DOMAIN files /\ (saved' = saved \/ saved' = NoIndex)
  BY <1>1, <1>6, <1>8 DEF Locked
<1>12. CacheTyped'
  BY <1>1, <1>5, <1>7, <1>10, <1>11 DEF CacheTyped
<1>13. Room'
  BY <1>5, <1>11 DEF Room
<1>14. \A k \in DOMAIN files' :
                \/ files'[k] = files[k] /\ ~ (Locked /\ setting.key = k)
                \/ Locked /\ setting.key = k /\ files'[k] \in Prefixes(setting.data)
  BY <1>6, <1>8
<1>15. KeysOf(index') = IF saved' = NoIndex THEN {} ELSE KeysOf(saved') \cap DOMAIN files'
  BY <1>1, <1>3, <1>7
<1>16. QED
  BY <1>1, <1>11, <1>12, <1>13, <1>14, <1>15

----------------------------------------------------------------------------
(* The bytes of a stored file.                                             *)

LEMMA FunctionIsSeq ==
    ASSUME NEW R, NEW m \in Nat, NEW f \in [1 .. m -> R]
    PROVE  f \in Seq(R) /\ Len(f) = m
  OBVIOUS

Joins(u, s, t) ==
    /\ Len(u) = Len(s) + Len(t)
    /\ \A i \in 1 .. Len(s) : u[i] = s[i]
    /\ \A i \in 1 .. Len(t) : u[Len(s) + i] = t[i]

LEMMA Concatenation ==
    ASSUME NEW R, NEW s \in Seq(R), NEW t \in Seq(R)
    PROVE  s \o t \in Seq(R) /\ Joins(s \o t, s, t)
<1>1. \A i \in 1 .. Len(s) : (s \o t)[i] = s[i]
  OBVIOUS
<1>2. \A i \in 1 .. Len(t) : (s \o t)[Len(s) + i] = t[i]
  OBVIOUS
<1>3. s \o t \in Seq(R) /\ Len(s \o t) = Len(s) + Len(t)
  OBVIOUS
<1>4. QED
  BY <1>1, <1>2, <1>3 DEF Joins

Contents == {Chunks(s, c) : s \in Sources, c \in ChunkSizes}

Piece == [data : Seq(Byte), size : Nat \ {0}]

LEMMA ContentTyped ==
    ASSUME NEW chunks \in Contents
    PROVE  /\ chunks \in Seq(Piece) /\ Len(chunks) \in Nat \ {0}
           /\ DOMAIN chunks = 1 .. Len(chunks)
           /\ \A i \in 1 .. Len(chunks) :
                /\ chunks[i].data \in Seq(Byte) /\ chunks[i].size \in Nat \ {0}
                /\ Len(chunks[i].data) = chunks[i].size
           /\ \A p \in Paths : \A i \in 0 .. Len(chunks) : <<p, i>> \in Keys
<1>1. PICK s \in Sources, c \in ChunkSizes : chunks = Chunks(s, c)
  BY DEF Contents
<1>2. SizeOf[s] \in Nat \ {0} /\ c \in Nat \ {0}
  BY SourcesAssumption
<1> DEFINE n == PlanLen(SizeOf[s], c)
           size(i) == PlanSize(SizeOf[s], c, i)
           offset(i) == PlanOffset(c, i)
           bytes(i) == [b \in 1 .. size(i) |-> <<s, offset(i) + b>>]
<1>3. n \in Nat \ {0}
  BY <1>2, PlanLenBounds, Zenon
<1>4. chunks = [i \in 1 .. n |-> [data |-> bytes(i), size |-> size(i)]]
  BY <1>1 DEF Chunks, Chunk
<1>5. \A i \in 1 .. n : size(i) \in Nat \ {0} /\ offset(i) \in Nat
  BY <1>2, PlanTilesFile, Zenon
<1> HIDE DEF n, size, offset
<1>6. \A i \in 1 .. n : bytes(i) \in Seq(Byte) /\ Len(bytes(i)) = size(i)
  <2>1. ASSUME NEW i \in 1 .. n PROVE bytes(i) \in Seq(Byte) /\ Len(bytes(i)) = size(i)
    <3>1. size(i) \in Nat /\ offset(i) \in Nat
      BY <1>5
    <3>2. \A b \in 1 .. size(i) : <<s, offset(i) + b>> \in Byte
      BY <3>1 DEF Byte
    <3>3. bytes(i) \in [1 .. size(i) -> Byte]
      BY <3>2
    <3> HIDE DEF bytes
    <3>4. QED
      BY <3>1, <3>3, FunctionIsSeq
  <2>2. QED
    BY <2>1
<1> HIDE DEF bytes
<1>7. \A i \in 1 .. n : chunks[i] \in Piece /\ chunks[i].data = bytes(i) /\ chunks[i].size = size(i)
  BY <1>4, <1>5, <1>6 DEF Piece
<1>8. chunks \in Seq(Piece) /\ Len(chunks) = n /\ DOMAIN chunks = 1 .. n
  <2>1. chunks \in [1 .. n -> Piece]
    BY <1>4, <1>7
  <2>2. QED
    BY <2>1, <1>3
<1>9. \A p \in Paths : \A i \in 0 .. n : <<p, i>> \in Keys
  BY KeysAssumption DEF n
<1>10. QED
  BY <1>3, <1>5, <1>6, <1>7, <1>8, <1>9

\* Each chunk ends after the one before it, and they leave no byte out.
LEMMA ContentEnds ==
    ASSUME NEW chunks \in Contents
    PROVE  LET end == SizesUpTo(chunks)
               n == Len(chunks)
           IN  /\ end \in [0 .. n -> Nat] /\ end[0] = 0 /\ TotalSize(chunks) = end[n]
               /\ \A i \in 1 .. n : end[i] = end[i - 1] + Len(chunks[i].data)
               /\ \A i \in 1 .. n : end[i - 1] < end[i]
               /\ \A i \in 0 .. n : \A j \in i .. n : end[i] <= end[j]
               /\ \A b \in 1 .. end[n] : \E i \in 1 .. n : end[i - 1] < b /\ b <= end[i]
<1> DEFINE end == SizesUpTo(chunks)
           n == Len(chunks)
<1>1. n \in Nat \ {0} /\ \A i \in 1 .. n : /\ chunks[i].size \in Nat \ {0}
                                           /\ Len(chunks[i].data) = chunks[i].size
  BY ContentTyped
<1>2. /\ end \in [0 .. n -> Nat] /\ end[0] = 0
      /\ \A i \in 1 .. n : end[i] = end[i - 1] + chunks[i].size
  <2>1. chunks \in Seq(Piece) /\ \A i \in 1 .. Len(chunks) : chunks[i].size \in Nat
    BY <1>1, ContentTyped
  <2>2. QED
    BY <2>1, SizesAddUp, Zenon
<1>3. TotalSize(chunks) = end[n]
  BY DEF TotalSize
<1> HIDE DEF end, n
<1>4. \A i \in 1 .. n : /\ end[i] = end[i - 1] + Len(chunks[i].data)
                        /\ end[i - 1] < end[i]
  <2>1. ASSUME NEW i \in 1 .. n
        PROVE  end[i] = end[i - 1] + Len(chunks[i].data) /\ end[i - 1] < end[i]
    <3>1. end[i - 1] \in Nat /\ end[i] = end[i - 1] + chunks[i].size
      BY <1>1, <1>2
    <3>2. chunks[i].size \in Nat \ {0} /\ Len(chunks[i].data) = chunks[i].size
      BY <1>1
    <3>3. QED
      BY <3>1, <3>2
  <2>2. QED
    BY <2>1
<1>5. \A i \in 0 .. n : \A j \in i .. n : end[i] <= end[j]
  <2>1. SUFFICES ASSUME NEW i \in 0 .. n PROVE \A j \in i .. n : end[i] <= end[j]
    OBVIOUS
  <2> DEFINE S == {j \in 0 .. n : j >= i => end[i] <= end[j]}
  <2>2. 0 \in S
    BY <1>1, <1>2
  <2>3. ASSUME NEW j \in 1 .. n, j - 1 \in S PROVE j \in S
    <3>1. CASE j >= i /\ j # i
      <4>1. j - 1 >= i /\ j - 1 \in 0 .. n
        BY <3>1, <1>1
      <4>2. end[i] <= end[j - 1] /\ end[j - 1] < end[j]
        BY <4>1, <2>3, <1>4
      <4>3. end[i] \in Nat /\ end[j - 1] \in Nat /\ end[j] \in Nat
        BY <4>1, <1>1, <1>2
      <4>4. QED
        BY <4>2, <4>3
    <3>2. CASE j = i \/ ~ (j >= i)
      BY <3>2, <1>1, <1>2
    <3>3. QED
      BY <3>1, <3>2
  <2> HIDE DEF S
  <2>4. \A j \in 0 .. n : j \in S
    BY <1>1, <2>2, <2>3, UpTo
  <2>5. QED
    BY <2>4, <1>1 DEF S
<1>6. ASSUME NEW b \in 1 .. end[n]
      PROVE  \E i \in 1 .. n : end[i - 1] < b /\ b <= end[i]
  <2> DEFINE S == {i \in 0 .. n : b <= end[i]}
  <2>1. S \in SUBSET Nat /\ n \in S
    BY <1>1, <1>2
  <2>2. PICK i \in S : \A j \in S : i <= j
    BY <2>1, LeastNat, Zenon
  <2>3. i \in 1 .. n /\ i - 1 \in 0 .. n /\ ~ (i <= i - 1)
    BY <2>2, <1>1, <1>2
  <2>4. ~ (b <= end[i - 1])
    BY <2>2, <2>3
  <2>5. end[i - 1] < b
    BY <2>3, <2>4, <1>1, <1>2
  <2>6. QED
    BY <2>2, <2>3, <2>5
<1>7. QED
  BY <1>2, <1>3, <1>4, <1>5, <1>6 DEF end, n

\* The bytes of a file are those of its chunks, each at its place.
LEMMA ContentBytes ==
    ASSUME NEW chunks \in Contents
    PROVE  LET end == SizesUpTo(chunks)
               bytes == Bytes(chunks)
           IN  /\ bytes \in Seq(Byte) /\ Len(bytes) = end[Len(chunks)]
               /\ \A i \in 1 .. Len(chunks) : \A b \in 1 .. Len(chunks[i].data) :
                    bytes[end[i - 1] + b] = chunks[i].data[b]
<1> DEFINE end == SizesUpTo(chunks)
           n == Len(chunks)
           seqs == [i \in DOMAIN chunks |-> chunks[i].data]
           Joined(g, i) == IF i = 1 THEN seqs[i] ELSE g[i - 1] \o seqs[i]
           step == [x \in Seq(Byte) \X (1 .. n) |-> x[1] \o seqs[x[2]]]
           Good(t, i) == /\ t \in Seq(Byte) /\ Len(t) = end[i]
                         /\ \A j \in 1 .. i : \A b \in 1 .. Len(seqs[j]) :
                                t[end[j - 1] + b] = seqs[j][b]
<1>1. /\ n \in Nat \ {0} /\ DOMAIN chunks = 1 .. n
      /\ \A i \in 1 .. n : chunks[i].data \in Seq(Byte)
  BY ContentTyped, Zenon
<1>2. /\ end \in [0 .. n -> Nat] /\ end[0] = 0
      /\ \A i \in 1 .. n : end[i] = end[i - 1] + Len(chunks[i].data)
      /\ \A i \in 0 .. n : \A j \in i .. n : end[i] <= end[j]
  BY ContentEnds, Zenon
<1> HIDE DEF end, n
<1>3. /\ \A i \in 1 .. n : seqs[i] = chunks[i].data /\ seqs[i] \in Seq(Byte)
      /\ DOMAIN seqs = 1 .. n
  BY <1>1
<1>4. Len(seqs) = n
  BY <1>1, <1>3
<1> HIDE DEF seqs
<1>5. PICK g : Solves(g, n, Seq(Byte), <<>>, step)
  <2>1. step \in [Seq(Byte) \X (1 .. n) -> Seq(Byte)]
    BY <1>1, <1>3
  <2>2. <<>> \in Seq(Byte) /\ n \in Nat
    BY <1>1
  <2> HIDE DEF step
  <2>3. QED
    BY <2>1, <2>2, Recursion
<1>6. /\ g \in [0 .. n -> Seq(Byte)] /\ g[0] = <<>>
      /\ \A i \in 1 .. n : g[i] = step[<<g[i - 1], i>>]
  BY <1>5 DEF Solves
<1>7. \A i \in 1 .. n : g[i] = g[i - 1] \o seqs[i]
  <2>1. ASSUME NEW i \in 1 .. n PROVE g[i] = g[i - 1] \o seqs[i]
    <3>1. g[i - 1] \in Seq(Byte)
      BY <1>1, <1>6
    <3>2. <<g[i - 1], i>> \in Seq(Byte) \X (1 .. n)
      BY <3>1
    <3>3. QED
      BY <3>2, <1>6
  <2>2. QED
    BY <2>1
<1> DEFINE h == [i \in 1 .. n |-> g[i]]
<1>8. h = [i \in 1 .. n |-> Joined(h, i)]
  <2>1. ASSUME NEW i \in 1 .. n PROVE h[i] = Joined(h, i)
    <3>1. CASE i = 1
      <4>1. h[i] = g[i - 1] \o seqs[i] /\ seqs[i] \in Seq(Byte)
        BY <1>3, <1>7
      <4>2. g[i - 1] = <<>>
        BY <3>1, <1>6
      <4>3. <<>> \o seqs[i] = seqs[i]
        BY <4>1
      <4>4. QED
        BY <4>1, <4>2, <4>3, <3>1
    <3>2. CASE i # 1
      <4>1. i - 1 \in 1 .. n
        BY <3>2, <1>1
      <4>2. h[i] = h[i - 1] \o seqs[i]
        BY <4>1, <1>7
      <4>3. QED
        BY <4>2, <3>2
    <3>3. QED
      BY <3>1, <3>2
  <2> HIDE DEF Joined
  <2>2. QED
    BY <2>1
<1> HIDE DEF h
<1> DEFINE flat == CHOOSE f : f = [i \in 1 .. n |-> Joined(f, i)]
<1>9. flat = [i \in 1 .. n |-> Joined(flat, i)]
  BY <1>8
<1>10. Bytes(chunks) = flat[n]
  <2>1. Bytes(chunks) = FlattenSeq(seqs)
    BY DEF Bytes, seqs
  <2>2. Len(seqs) # 0
    BY <1>1, <1>4
  <2>3. QED
    BY <2>1, <2>2, <1>4 DEF FlattenSeq
<1> HIDE DEF flat, step
<1> DEFINE S == {i \in 0 .. n : i > 0 => Good(flat[i], i)}
<1>11. 0 \in S
  BY <1>1
<1>12. ASSUME NEW i \in 1 .. n, i - 1 \in S PROVE i \in S
  <2>1. flat[i] = Joined(flat, i)
    BY <1>9, Zenon
  <2>2. seqs[i] \in Seq(Byte) /\ end[i] = end[i - 1] + Len(seqs[i])
    BY <1>2, <1>3
  <2>3. CASE i = 1
    <3>1. flat[i] = seqs[i]
      BY <2>1, <2>3
    <3>2. Good(flat[i], i)
      BY <3>1, <2>2, <2>3, <1>2
    <3> HIDE DEF Good
    <3>3. QED
      BY <3>2, <1>1
  <2>4. CASE i # 1
    <3> DEFINE t == flat[i - 1]
               u == t \o seqs[i]
    <3>1. flat[i] = u
      BY <2>1, <2>4
    <3>2. i - 1 \in 1 .. n /\ i - 1 > 0
      BY <2>4, <1>1
    <3>3. Good(t, i - 1)
      BY <3>2, <1>12
    <3>4. end[i - 1] \in Nat /\ Len(seqs[i]) \in Nat
      BY <2>2, <3>2, <1>1, <1>2
    <3> HIDE DEF t
    <3>5. /\ u \in Seq(Byte) /\ Len(u) = end[i - 1] + Len(seqs[i])
          /\ \A b \in 1 .. end[i - 1] : u[b] = t[b]
          /\ \A b \in 1 .. Len(seqs[i]) : u[end[i - 1] + b] = seqs[i][b]
      <4>1. t \in Seq(Byte) /\ seqs[i] \in Seq(Byte) /\ Len(t) = end[i - 1]
        BY <3>3, <2>2
      <4>2. /\ u \in Seq(Byte) /\ Len(u) = Len(t) + Len(seqs[i])
            /\ \A b \in 1 .. Len(t) : u[b] = t[b]
            /\ \A b \in 1 .. Len(seqs[i]) : u[Len(t) + b] = seqs[i][b]
        <5>1. u \in Seq(Byte) /\ Joins(u, t, seqs[i])
          BY <4>1, Concatenation, Zenon
        <5> HIDE DEF u
        <5>2. QED
          BY <5>1 DEF Joins
      <4> HIDE DEF u
      <4>3. QED
        BY <4>1, <4>2
    <3> HIDE DEF u
    <3>6. ASSUME NEW j \in 1 .. i, NEW b \in 1 .. Len(seqs[j])
          PROVE  u[end[j - 1] + b] = seqs[j][b]
      <4>1. CASE j = i
        BY <4>1, <3>5
      <4>2. CASE j # i
        <5>1. j \in 1 .. i - 1 /\ j \in 1 .. n /\ i - 1 \in j .. n /\ j - 1 \in 0 .. n
          BY <4>2, <1>1
        <5>2. end[j] <= end[i - 1] /\ end[j] = end[j - 1] + Len(seqs[j])
          <6>1. seqs[j] = chunks[j].data /\ j \in 0 .. n
            BY <5>1, <1>1, <1>3
          <6>2. end[j] = end[j - 1] + Len(chunks[j].data)
            BY <5>1, <1>2, Zenon
          <6>3. end[j] <= end[i - 1]
            BY <5>1, <6>1, <1>2, Zenon
          <6>4. QED
            BY <6>1, <6>2, <6>3
        <5>3. end[j] \in Nat /\ end[j - 1] \in Nat /\ Len(seqs[j]) \in Nat
          <6>1. seqs[j] \in Seq(Byte) /\ j \in 0 .. n
            BY <5>1, <1>1, <1>3
          <6>2. Len(seqs[j]) \in Nat
            BY <6>1
          <6>3. end[j] \in Nat /\ end[j - 1] \in Nat
            BY <5>1, <6>1, <1>2
          <6>4. QED
            BY <6>2, <6>3
        <5>4. end[j - 1] + b \in 1 .. end[i - 1]
          BY <5>2, <5>3, <3>4
        <5>5. t[end[j - 1] + b] = seqs[j][b]
          BY <5>1, <3>3
        <5>6. QED
          BY <5>4, <5>5, <3>5
      <4>3. QED
        BY <4>1, <4>2
    <3>7. Good(u, i)
      BY <3>5, <3>6, <2>2
    <3> HIDE DEF Good
    <3>8. QED
      BY <3>1, <3>7, <1>1
  <2>5. QED
    BY <2>3, <2>4
<1> HIDE DEF S
<1>13. n \in S
  <2>1. n \in Nat /\ n \in 0 .. n
    BY <1>1
  <2>2. \A i \in 0 .. n : i \in S
    BY <2>1, <1>11, <1>12, UpTo, Zenon
  <2>3. QED
    BY <2>1, <2>2
<1>14. Good(flat[n], n)
  BY <1>1, <1>13 DEF S
<1>15. QED
  BY <1>3, <1>10, <1>14 DEF end, n

----------------------------------------------------------------------------
(* A range of a file, and the chunks that overlap with it.                 *)

Least(S, m) == m \in S /\ \A j \in S : m <= j

LEMMA RangeHasChunks ==
    ASSUME NEW chunks \in Contents, NEW from \in Nat, NEW length \in Nat \ {0},
           from + length <= TotalSize(chunks)
    PROVE  LET end == SizesUpTo(chunks)
               needed == Overlapping(chunks, from, length)
           IN  /\ needed \subseteq 1 .. Len(chunks) /\ needed # {}
               /\ \A m : Least(needed, m) => end[m - 1] <= from
<1> DEFINE end == SizesUpTo(chunks)
           n == Len(chunks)
           needed == Overlapping(chunks, from, length)
<1>1. n \in Nat \ {0} /\ DOMAIN chunks = 1 .. n
  BY ContentTyped
<1>2. /\ end \in [0 .. n -> Nat] /\ end[0] = 0 /\ TotalSize(chunks) = end[n]
      /\ \A i \in 1 .. n : end[i - 1] < end[i]
      /\ \A b \in 1 .. end[n] : \E i \in 1 .. n : end[i - 1] < b /\ b <= end[i]
  BY ContentEnds, Zenon
<1>3. needed = {i \in 1 .. n : end[i] > from /\ end[i - 1] < from + length}
  BY <1>1 DEF Overlapping
<1> HIDE DEF end, n, needed
<1>4. needed # {}
  <2>1. from + 1 \in 1 .. end[n]
    BY <1>1, <1>2
  <2>2. PICK i \in 1 .. n : end[i - 1] < from + 1 /\ from + 1 <= end[i]
    BY <2>1, <1>2
  <2>3. end[i] \in Nat /\ end[i - 1] \in Nat
    BY <1>1, <1>2
  <2>4. end[i] > from /\ end[i - 1] < from + length
    BY <2>2, <2>3
  <2>5. QED
    BY <2>4, <1>3
<1>5. ASSUME NEW m, Least(needed, m) PROVE end[m - 1] <= from
  <2>1. m \in 1 .. n /\ m \in needed /\ \A j \in needed : m <= j
    BY <1>3, <1>5 DEF Least
  <2>2. CASE m = 1
    BY <2>2, <1>2
  <2>3. CASE m # 1
    <3>1. m - 1 \in 1 .. n /\ ~ (m <= m - 1)
      BY <2>1, <2>3, <1>1
    <3>2. m - 1 \notin needed
      BY <2>1, <3>1
    <3>3. /\ end[(m - 1) - 1] < end[m - 1] /\ end[m - 1] \in Nat
          /\ end[(m - 1) - 1] \in Nat /\ end[m] \in Nat /\ end[m - 1] < end[m]
      BY <2>1, <3>1, <1>1, <1>2
    <3>4. end[m - 1] < from + length
      BY <2>1, <1>3
    <3>5. ~ (end[m - 1] > from)
      BY <3>1, <3>2, <3>3, <3>4, <1>3
    <3>6. QED
      BY <3>3, <3>5
  <2>4. QED
    BY <2>2, <2>3
<1>6. QED
  BY <1>3, <1>4, <1>5 DEF end, n, needed

\* The chunk after the one that has just been taken.
InTurn(left, needed) == \A i \in left : \A j \in needed : i <= j => j \in left

LeavesInTurn(chunks, from, length, left, m) ==
    LET end == SizesUpTo(chunks)
    IN  /\ m \in 1 .. Len(chunks) /\ end[m] > from /\ end[m - 1] < from + length
        /\ InTurn(left \ {m}, Overlapping(chunks, from, length))
        /\ left \ {m} = {} => end[m] >= from + length
        /\ \A k : Least(left \ {m}, k) => k = m + 1 /\ end[m] < from + length

LEMMA NextChunk ==
    ASSUME NEW chunks \in Contents, NEW from \in Nat, NEW length \in Nat \ {0},
           from + length <= TotalSize(chunks),
           NEW left \in SUBSET Overlapping(chunks, from, length),
           InTurn(left, Overlapping(chunks, from, length)),
           NEW m, Least(left, m)
    PROVE  LeavesInTurn(chunks, from, length, left, m)
<1> DEFINE end == SizesUpTo(chunks)
           n == Len(chunks)
           needed == Overlapping(chunks, from, length)
<1>1. n \in Nat \ {0} /\ DOMAIN chunks = 1 .. n
  BY ContentTyped
<1>2. /\ end \in [0 .. n -> Nat] /\ end[0] = 0 /\ TotalSize(chunks) = end[n]
      /\ \A i \in 1 .. n : end[i - 1] < end[i]
      /\ \A i \in 0 .. n : \A j \in i .. n : end[i] <= end[j]
  BY ContentEnds, Zenon
<1>3. needed = {i \in 1 .. n : end[i] > from /\ end[i - 1] < from + length}
  BY <1>1 DEF Overlapping
<1>4. left \subseteq needed /\ \A i \in left : \A j \in needed : i <= j => j \in left
  BY DEF InTurn
<1> HIDE DEF end, n, needed
<1>5. m \in left /\ m \in 1 .. n /\ end[m] > from /\ end[m - 1] < from + length
  BY <1>3, <1>4 DEF Least
<1>6. \A j \in left : m <= j /\ j \in 1 .. n
  BY <1>3, <1>4 DEF Least
<1>7. end[m] \in Nat /\ end[m - 1] \in Nat
  BY <1>1, <1>2, <1>5
<1>8. ASSUME NEW i \in left \ {m}, NEW j \in needed, i <= j PROVE j \in left \ {m}
  <2>1. j \in left
    BY <1>4, <1>8
  <2>2. m <= i /\ i \in 1 .. n
    BY <1>6
  <2>3. j # m
    BY <2>2, <1>1, <1>5, <1>8
  <2>4. QED
    BY <2>1, <2>3
<1>9. ASSUME m + 1 \in 1 .. n, end[m] < from + length PROVE m + 1 \in left \ {m}
  <2>1. end[m] < end[m + 1] /\ end[m + 1] \in Nat
    <3>1. end[(m + 1) - 1] < end[m + 1]
      BY <1>2, <1>9
    <3>2. (m + 1) - 1 = m /\ m + 1 \in 0 .. n
      BY <1>1, <1>5, <1>9
    <3>3. QED
      BY <3>1, <3>2, <1>2
  <2>2. m + 1 \in needed
    <3>1. (m + 1) - 1 = m /\ end[m + 1] > from
      BY <2>1, <1>1, <1>5, <1>7
    <3>2. QED
      BY <3>1, <1>3, <1>9
  <2>3. QED
    BY <2>2, <1>1, <1>4, <1>5
<1>10. ASSUME left \ {m} = {} PROVE end[m] >= from + length
  <2>1. CASE m = n
    BY <2>1, <1>1, <1>2, <1>7
  <2>2. CASE m # n
    <3>1. m + 1 \in 1 .. n
      BY <2>2, <1>1, <1>5
    <3>2. QED
      BY <3>1, <1>7, <1>9, <1>10
  <2>3. QED
    BY <2>1, <2>2
<1>11. ASSUME NEW k, Least(left \ {m}, k) PROVE k = m + 1 /\ end[m] < from + length
  <2>1. k \in left /\ k # m /\ k \in 1 .. n /\ m <= k /\ \A j \in left \ {m} : k <= j
    BY <1>6, <1>11 DEF Least
  <2>2. m \in 0 .. n /\ k - 1 \in m .. n /\ m + 1 \in 1 .. n
    BY <2>1, <1>1, <1>5
  <2>3. end[m] <= end[k - 1] /\ end[k - 1] < from + length
    BY <2>1, <2>2, <1>2, <1>3, <1>4
  <2>4. end[k - 1] \in Nat
    BY <2>1, <1>1, <1>2
  <2>5. end[m] < from + length
    BY <2>3, <2>4, <1>7
  <2>6. k <= m + 1
    BY <2>1, <2>2, <2>5, <1>9
  <2>7. QED
    BY <2>1, <2>5, <2>6, <1>1, <1>5
<1>12. QED
  BY <1>5, <1>8, <1>10, <1>11 DEF end, n, needed, InTurn, LeavesInTurn

IsSlice(t, s, i, j) ==
    /\ Len(t) = IF i < j THEN j - i ELSE 0
    /\ \A b \in 1 .. j - i : t[b] = s[i + b]

LEMMA Slice ==
    ASSUME NEW R, NEW s \in Seq(R), NEW i \in Nat, NEW j \in Int, j <= Len(s)
    PROVE  SubSeq(s, i + 1, j) \in Seq(R) /\ IsSlice(SubSeq(s, i + 1, j), s, i, j)
<1>1. SubSeq(s, i + 1, j) \in Seq(R)
  OBVIOUS
<1>2. Len(SubSeq(s, i + 1, j)) = IF i < j THEN j - i ELSE 0
  OBVIOUS
<1>3. \A b \in 1 .. j - i : SubSeq(s, i + 1, j)[b] = s[i + b]
  OBVIOUS
<1>4. QED
  BY <1>1, <1>2, <1>3 DEF IsSlice

\* What a download that writes at offsets has got: bytes at positions.
Got == UNION {[S -> Byte] : S \in SUBSET (Nat \ {0})}

LEMMA GotOfSet ==
    ASSUME NEW S \in SUBSET (Nat \ {0}), NEW f \in [S -> Byte]
    PROVE  f \in Got
  BY DEF Got

LEMMA GotTyped ==
    ASSUME NEW g \in Got
    PROVE  /\ DOMAIN g \subseteq Nat \ {0}
           /\ g = [b \in DOMAIN g |-> g[b]]
           /\ \A b \in DOMAIN g : g[b] \in Byte
<1>1. PICK S \in SUBSET (Nat \ {0}) : g \in [S -> Byte]
  BY DEF Got
<1>2. QED
  BY <1>1

LEMMA SeqIsGot ==
    ASSUME NEW s \in Seq(Byte)
    PROVE  s \in Got
<1>1. s \in [1 .. Len(s) -> Byte] /\ 1 .. Len(s) \in SUBSET (Nat \ {0})
  OBVIOUS
<1>2. QED
  BY <1>1, GotOfSet, Zenon

IsWritten(w, out, at, data) ==
    /\ DOMAIN w = DOMAIN out \cup (at + 1 .. at + Len(data))
    /\ \A b \in DOMAIN w :
            w[b] = IF b \in at + 1 .. at + Len(data) THEN data[b - at] ELSE out[b]

LEMMA WriteAtGot ==
    ASSUME NEW out \in Got, NEW at \in Nat, NEW data \in Seq(Byte)
    PROVE  WriteAt(out, at, data) \in Got /\ IsWritten(WriteAt(out, at, data), out, at, data)
<1> DEFINE w == WriteAt(out, at, data)
           S == DOMAIN out \cup (at + 1 .. at + Len(data))
<1>1. w = [b \in S |-> IF b \in at + 1 .. at + Len(data) THEN data[b - at] ELSE out[b]]
  BY DEF WriteAt
<1>2. DOMAIN out \subseteq Nat \ {0} /\ \A b \in DOMAIN out : out[b] \in Byte
  BY GotTyped
<1>3. S \in SUBSET (Nat \ {0})
  BY <1>2
<1>4. \A b \in S : w[b] \in Byte
  <2>1. ASSUME NEW b \in S PROVE w[b] \in Byte
    <3>1. CASE b \in at + 1 .. at + Len(data)
      <4>1. b - at \in 1 .. Len(data)
        BY <3>1
      <4>2. data[b - at] \in Byte
        BY <4>1
      <4>3. QED
        BY <4>2, <3>1, <1>1
    <3>2. CASE b \notin at + 1 .. at + Len(data)
      BY <3>2, <1>1, <1>2
    <3>3. QED
      BY <3>1, <3>2
  <2>2. QED
    BY <2>1
<1> HIDE DEF S
<1>5. w \in [S -> Byte]
  BY <1>1, <1>4
<1> HIDE DEF w
<1>6. w \in Got
  BY <1>3, <1>5, GotOfSet
<1>7. IsWritten(w, out, at, data)
  BY <1>1 DEF IsWritten, S
<1>8. QED
  BY <1>6, <1>7 DEF w

----------------------------------------------------------------------------
(* One call: what it still asks for, and what it has got.                  *)

Modes == {"whole", "range", "download", "stream"}

Reads ==
    [step : {"blob", "look", "hit", "miss", "keep", "put"}, mode : Modes,
     path : Paths, off : Nat, len : Nat \ {0}, chunks : Contents,
     from : Nat, length : Nat \ {0}, left : SUBSET Nat, idx : Nat, got : Got]

Sequential(rd) == rd.mode # "download"

Needed(rd) == Overlapping(rd.chunks, rd.from, rd.length)

\* The chunks that rd still needs are those it asks for from some one on.
AsksOn(rd) ==
    /\ rd.left \subseteq Needed(rd)
    /\ Sequential(rd) => InTurn(rd.left, Needed(rd))

AtChunk(rd) == rd.step \in {"hit", "miss"} \/ (rd.step = "put" /\ rd.idx # 0)

Asked(rd) ==
    /\ rd.off + rd.len <= TotalSize(rd.chunks)
    /\ rd.from + rd.length <= TotalSize(rd.chunks)
    /\ Sequential(rd) => rd.got \in Seq(Byte)
    /\ rd.mode # "whole" => rd.from = rd.off /\ rd.length = rd.len
    /\ rd.mode # "range" => rd.from = 0 /\ rd.length = TotalSize(rd.chunks)
    /\ AsksOn(rd)
    /\ rd.step = "blob" => rd.mode = "range"
    /\ rd.step = "look" => rd.left # {}
    /\ AtChunk(rd) => /\ rd.idx \in rd.left
                      /\ Sequential(rd) => Least(rd.left, rd.idx)
    /\ rd.step = "keep" \/ (rd.step = "put" /\ rd.idx = 0) =>
            rd.mode = "whole" /\ rd.left = {}

\* Where a range read stands when chunk m comes next.
Place(rd, m) ==
    LET end == SizesUpTo(rd.chunks)
    IN  IF rd.from > end[m - 1] THEN rd.from ELSE end[m - 1]

\* A range read has the bytes from its start up to the next chunk it needs.
GotInOrder(rd) ==
    /\ rd.from + Len(rd.got) <= TotalSize(rd.chunks)
    /\ \A n \in 1 .. Len(rd.got) : rd.got[n] = Bytes(rd.chunks)[rd.from + n]
    /\ rd.left = {} => Len(rd.got) = rd.length
    /\ \A m : Least(rd.left, m) => rd.from + Len(rd.got) = Place(rd, m)

\* A download has the bytes of the chunks it does not need any more.
GotChunks(rd) ==
    LET end == SizesUpTo(rd.chunks)
    IN  /\ \A n \in DOMAIN rd.got :
            n <= TotalSize(rd.chunks) /\ rd.got[n] = Bytes(rd.chunks)[n]
        /\ \A i \in (1 .. Len(rd.chunks)) \ rd.left :
            end[i - 1] + 1 .. end[i] \subseteq DOMAIN rd.got

Collected(rd) ==
    /\ Sequential(rd) /\ rd.step # "blob" => GotInOrder(rd)
    /\ ~ Sequential(rd) => GotChunks(rd)

\* What Take makes of what the reader has got.
Taken(rd, data) ==
    LET end == SizesUpTo(rd.chunks)
    IN  IF rd.mode = "download" THEN WriteAt(rd.got, end[rd.idx - 1], data)
        ELSE IF rd.mode = "stream" THEN rd.got \o data
        ELSE rd.got \o SubSeq(data, RelStart(rd, end[rd.idx - 1]) + 1,
                              RelEnd(rd, end[rd.idx - 1], end[rd.idx]))

RunsOff(rd, data) ==
    LET end == SizesUpTo(rd.chunks)
    IN  rd.mode \in {"whole", "range"} /\ RelEnd(rd, end[rd.idx - 1], end[rd.idx]) > Len(data)

LEMMA TakeCases ==
    ASSUME NEW rd, NEW data
    PROVE  LET got == Taken(rd, data)
               left == rd.left \ {rd.idx}
           IN  Take(rd, data) =
                IF RunsOff(rd, data) THEN Finished("panic", <<>>)
                ELSE IF left # {} THEN [rd EXCEPT !.step = "look", !.left = left, !.got = got]
                ELSE IF rd.mode = "whole"
                     THEN [rd EXCEPT !.step = "keep", !.left = {}, !.got = got]
                ELSE Finished("ok", got)
  BY DEF Take, Taken, RunsOff

\* A chunk that is at hand is one of the file's.
LEMMA ChunkAtHand ==
    ASSUME NEW rd \in Reads, Asked(rd), rd.idx \in rd.left
    PROVE  LET end == SizesUpTo(rd.chunks) IN
           /\ rd.idx \in 1 .. Len(rd.chunks)
           /\ end[rd.idx - 1] \in Nat /\ end[rd.idx] \in Nat /\ end[rd.idx - 1] < end[rd.idx]
           /\ end[rd.idx] = end[rd.idx - 1] + Len(rd.chunks[rd.idx].data)
           /\ end[rd.idx] <= TotalSize(rd.chunks) /\ TotalSize(rd.chunks) \in Nat
           /\ rd.chunks[rd.idx].data \in Seq(Byte)
<1> DEFINE end == SizesUpTo(rd.chunks)
           n == Len(rd.chunks)
<1>1. rd.chunks \in Contents
  BY DEF Reads
<1>2. /\ n \in Nat \ {0} /\ DOMAIN rd.chunks = 1 .. n
      /\ \A i \in 1 .. n : rd.chunks[i].data \in Seq(Byte)
  BY <1>1, ContentTyped, Zenon
<1>3. /\ end \in [0 .. n -> Nat] /\ TotalSize(rd.chunks) = end[n]
      /\ \A i \in 1 .. n : end[i] = end[i - 1] + Len(rd.chunks[i].data)
      /\ \A i \in 1 .. n : end[i - 1] < end[i]
      /\ \A i \in 0 .. n : \A j \in i .. n : end[i] <= end[j]
  BY <1>1, ContentEnds, Zenon
<1>4. rd.idx \in 1 .. n
  <2>1. rd.idx \in Needed(rd)
    BY DEF Asked, AsksOn
  <2>2. QED
    BY <2>1, <1>2 DEF Needed, Overlapping
<1> HIDE DEF end, n
<1>5. rd.idx \in 0 .. n /\ rd.idx - 1 \in 0 .. n /\ n \in rd.idx .. n /\ n \in 0 .. n
  BY <1>2, <1>4
<1>6. end[rd.idx - 1] \in Nat /\ end[rd.idx] \in Nat /\ end[n] \in Nat
  BY <1>3, <1>5
<1>7. end[rd.idx] <= end[n]
  BY <1>3, <1>5, Zenon
<1>8. /\ end[rd.idx] = end[rd.idx - 1] + Len(rd.chunks[rd.idx].data)
      /\ end[rd.idx - 1] < end[rd.idx]
  BY <1>3, <1>4, Zenon
<1>9. rd.chunks[rd.idx].data \in Seq(Byte)
  BY <1>2, <1>4, Zenon
<1>10. QED
  BY <1>3, <1>4, <1>6, <1>7, <1>8, <1>9 DEF end, n

LEMMA RelBounds ==
    ASSUME NEW rd \in Reads, Asked(rd), rd.idx \in rd.left, rd.got \in Seq(Byte)
    PROVE  LET end == SizesUpTo(rd.chunks) IN
           /\ RelStart(rd, end[rd.idx - 1]) \in Nat
           /\ RelEnd(rd, end[rd.idx - 1], end[rd.idx]) \in Int
           /\ RelEnd(rd, end[rd.idx - 1], end[rd.idx]) <= Len(rd.chunks[rd.idx].data)
<1> DEFINE end == SizesUpTo(rd.chunks)
<1>1. /\ end[rd.idx - 1] \in Nat /\ end[rd.idx] \in Nat
      /\ end[rd.idx] = end[rd.idx - 1] + Len(rd.chunks[rd.idx].data)
      /\ rd.chunks[rd.idx].data \in Seq(Byte)
  BY ChunkAtHand, Zenon
<1> HIDE DEF end
<1>2. rd.from \in Nat /\ rd.length \in Nat /\ Len(rd.got) \in Nat
  BY DEF Reads
<1>3. Len(rd.chunks[rd.idx].data) \in Nat
  BY <1>1
<1>4. RelStart(rd, end[rd.idx - 1]) \in Nat
  BY <1>1, <1>2 DEF RelStart
<1>5. /\ RelEnd(rd, end[rd.idx - 1], end[rd.idx]) \in Int
      /\ RelEnd(rd, end[rd.idx - 1], end[rd.idx]) <= Len(rd.chunks[rd.idx].data)
  <2> DEFINE x == end[rd.idx - 1]
             y == end[rd.idx]
             l == Len(rd.chunks[rd.idx].data)
             z == rd.from + rd.length
  <2>1. x \in Nat /\ y = x + l /\ l \in Nat /\ z \in Nat
    BY <1>1, <1>2, <1>3
  <2>2. RelEnd(rd, x, y) = (IF z > y THEN y ELSE z) - x
    BY DEF RelEnd
  <2> HIDE DEF x, y, l, z
  <2>3. RelEnd(rd, x, y) \in Int /\ RelEnd(rd, x, y) <= l
    BY <2>1, <2>2
  <2>4. QED
    BY <2>3 DEF x, y, l
<1>6. QED
  BY <1>4, <1>5 DEF end

LEMMA TakenTyped ==
    ASSUME NEW rd \in Reads, Asked(rd), NEW data \in Seq(Byte),
           rd.idx \in rd.left, ~ RunsOff(rd, data)
    PROVE  Taken(rd, data) \in Got /\ (Sequential(rd) => Taken(rd, data) \in Seq(Byte))
<1> DEFINE end == SizesUpTo(rd.chunks)
           relStart == RelStart(rd, end[rd.idx - 1])
           relEnd == RelEnd(rd, end[rd.idx - 1], end[rd.idx])
<1>1. end[rd.idx - 1] \in Nat /\ rd.got \in Got /\ rd.mode \in Modes
  BY ChunkAtHand DEF Reads
<1>2. CASE rd.mode = "download"
  <2>1. Taken(rd, data) = WriteAt(rd.got, end[rd.idx - 1], data)
    BY <1>2 DEF Taken
  <2> HIDE DEF end
  <2>2. Taken(rd, data) \in Got
    <3>1. \A out \in Got, at \in Nat : WriteAt(out, at, data) \in Got
      BY WriteAtGot, Zenon
    <3>2. QED
      BY <2>1, <3>1, <1>1, Zenon
  <2>3. QED
    BY <2>2, <1>2 DEF Sequential
<1>3. CASE rd.mode # "download"
  <2>1. rd.got \in Seq(Byte)
    BY <1>3 DEF Asked, Sequential
  <2>2. Taken(rd, data) \in Seq(Byte)
    <3>1. CASE rd.mode = "stream"
      BY <3>1, <2>1 DEF Taken
    <3>2. CASE rd.mode # "stream"
      <4>1. rd.mode \in {"whole", "range"}
        BY <1>1, <1>3, <3>2 DEF Modes
      <4>2. relStart \in Nat /\ relEnd \in Int
        BY <2>1, RelBounds, Zenon
      <4>3. ~ (relEnd > Len(data))
        BY <4>1 DEF RunsOff
      <4>4. Taken(rd, data) = rd.got \o SubSeq(data, relStart + 1, relEnd)
        BY <4>1 DEF Taken
      <4> HIDE DEF relStart, relEnd
      <4>5. relEnd <= Len(data)
        BY <4>2, <4>3
      <4>6. SubSeq(data, relStart + 1, relEnd) \in Seq(Byte)
        BY <4>2, <4>5, Slice, Zenon
      <4>7. QED
        BY <4>4, <4>6, <2>1
    <3>3. QED
      BY <3>1, <3>2
  <2>3. QED
    BY <2>2, SeqIsGot
<1>4. QED
  BY <1>2, <1>3

LEMMA AsksOnAfter ==
    ASSUME NEW rd \in Reads, Asked(rd), AtChunk(rd)
    PROVE  /\ rd.left \ {rd.idx} \subseteq Needed(rd)
           /\ Sequential(rd) =>
                LeavesInTurn(rd.chunks, rd.from, rd.length, rd.left, rd.idx)
<1>1. rd.left \subseteq Needed(rd)
  BY DEF Asked, AsksOn
<1>2. ASSUME Sequential(rd)
      PROVE  LeavesInTurn(rd.chunks, rd.from, rd.length, rd.left, rd.idx)
  <2>1. /\ rd.chunks \in Contents /\ rd.from \in Nat /\ rd.length \in Nat \ {0}
    BY DEF Reads
  <2>2. /\ rd.from + rd.length <= TotalSize(rd.chunks)
        /\ Least(rd.left, rd.idx)
        /\ rd.left \in SUBSET Overlapping(rd.chunks, rd.from, rd.length)
        /\ InTurn(rd.left, Overlapping(rd.chunks, rd.from, rd.length))
    BY <1>1, <1>2 DEF Asked, AsksOn, Needed
  <2>3. QED
    BY <2>1, <2>2, NextChunk, Zenon
<1>3. QED
  BY <1>1, <1>2

LEMMA TakeAsked ==
    ASSUME NEW rd \in Reads, Asked(rd), AtChunk(rd), NEW data \in Seq(Byte)
    PROVE  LET t == Take(rd, data) IN
           \/ t.step = "closed"
           \/ /\ t \in Reads /\ Asked(t) /\ t.step \in {"look", "keep"}
              /\ t.path = rd.path /\ t.chunks = rd.chunks
              /\ t.mode = rd.mode /\ t.off = rd.off /\ t.len = rd.len
<1> DEFINE t == Take(rd, data)
           left == rd.left \ {rd.idx}
           got == Taken(rd, data)
<1>1. t = IF RunsOff(rd, data) THEN Finished("panic", <<>>)
          ELSE IF left # {} THEN [rd EXCEPT !.step = "look", !.left = left, !.got = got]
          ELSE IF rd.mode = "whole"
               THEN [rd EXCEPT !.step = "keep", !.left = {}, !.got = got]
          ELSE Finished("ok", got)
  BY TakeCases, Zenon
<1> HIDE DEF t
<1>2. rd.idx \in rd.left /\ left \in SUBSET Nat
  BY DEF Asked, Reads
<1>3. /\ left \subseteq Needed(rd)
      /\ Sequential(rd) => InTurn(left, Needed(rd))
  BY AsksOnAfter, Zenon DEF LeavesInTurn, Needed
<1>4. ~ RunsOff(rd, data) => got \in Got /\ (Sequential(rd) => got \in Seq(Byte))
  BY <1>2, TakenTyped
<1> HIDE DEF got, left
<1>5. CASE RunsOff(rd, data)
  <2>1. t.step = "closed"
    BY <1>1, <1>5 DEF Finished
  <2>2. QED
    BY <2>1 DEF t
<1>6. CASE ~ RunsOff(rd, data) /\ left # {}
  <2>1. t = [rd EXCEPT !.step = "look", !.left = left, !.got = got]
    BY <1>1, <1>6
  <2>2. got \in Got /\ (Sequential(rd) => got \in Seq(Byte))
    BY <1>4, <1>6
  <2>3. t \in Reads
    BY <2>1, <2>2, <1>2 DEF Reads
  <2>4. /\ t.step = "look" /\ t.left = left /\ t.got = got /\ t.mode = rd.mode
        /\ t.path = rd.path /\ t.chunks = rd.chunks /\ t.off = rd.off /\ t.len = rd.len
        /\ t.from = rd.from /\ t.length = rd.length
    BY <2>1 DEF Reads
  <2>5. AsksOn(t)
    BY <2>4, <1>3 DEF AsksOn, Needed, Sequential
  <2>6. ~ AtChunk(t)
    BY <2>4 DEF AtChunk
  <2>7. Asked(t)
    BY <2>2, <2>4, <2>5, <2>6, <1>6 DEF Asked, Sequential
  <2>8. QED
    BY <2>3, <2>4, <2>7 DEF t
<1>7. CASE ~ RunsOff(rd, data) /\ left = {} /\ rd.mode = "whole"
  <2>1. t = [rd EXCEPT !.step = "keep", !.left = {}, !.got = got]
    BY <1>1, <1>7
  <2>2. got \in Got /\ (Sequential(rd) => got \in Seq(Byte))
    BY <1>4, <1>7
  <2>3. t \in Reads
    BY <2>1, <2>2, <1>2 DEF Reads
  <2>4. /\ t.step = "keep" /\ t.left = {} /\ t.got = got /\ t.mode = rd.mode
        /\ t.path = rd.path /\ t.chunks = rd.chunks /\ t.off = rd.off /\ t.len = rd.len
        /\ t.from = rd.from /\ t.length = rd.length
    BY <2>1 DEF Reads
  <2>5. AsksOn(t)
    BY <2>4 DEF AsksOn, Needed, Sequential, InTurn
  <2>6. ~ AtChunk(t)
    BY <2>4 DEF AtChunk
  <2>7. Asked(t)
    BY <2>2, <2>4, <2>5, <2>6, <1>7 DEF Asked, Sequential
  <2>8. QED
    BY <2>3, <2>4, <2>7 DEF t
<1>8. CASE ~ RunsOff(rd, data) /\ left = {} /\ rd.mode # "whole"
  <2>1. t.step = "closed"
    BY <1>1, <1>8 DEF Finished
  <2>2. QED
    BY <2>1 DEF t
<1>9. QED
  BY <1>5, <1>6, <1>7, <1>8

----------------------------------------------------------------------------
\* What a range read has when it appends its part of the next chunk.
LEMMA AppendsInOrder ==
    ASSUME NEW rd \in Reads, Asked(rd), AtChunk(rd), Sequential(rd), GotInOrder(rd)
    PROVE  LET end == SizesUpTo(rd.chunks)
               got == Taken(rd, rd.chunks[rd.idx].data)
               left == rd.left \ {rd.idx}
               to == IF rd.from + rd.length > end[rd.idx] THEN end[rd.idx]
                     ELSE rd.from + rd.length
           IN  /\ got \in Seq(Byte)
               /\ rd.from + Len(got) = to
               /\ \A n \in 1 .. Len(got) : got[n] = Bytes(rd.chunks)[rd.from + n]
<1> DEFINE end == SizesUpTo(rd.chunks)
           data == rd.chunks[rd.idx].data
           bytes == Bytes(rd.chunks)
           lo == end[rd.idx - 1]
           hi == end[rd.idx]
           relStart == RelStart(rd, lo)
           relEnd == RelEnd(rd, lo, hi)
           stop == rd.from + rd.length
           part == SubSeq(data, relStart + 1, relEnd)
           to == IF stop > hi THEN hi ELSE stop
<1>1. /\ rd.idx \in 1 .. Len(rd.chunks) /\ lo \in Nat /\ hi \in Nat /\ hi = lo + Len(data)
      /\ lo < hi
      /\ hi <= TotalSize(rd.chunks) /\ TotalSize(rd.chunks) \in Nat /\ data \in Seq(Byte)
  BY ChunkAtHand, Zenon DEF Asked
<1>2. rd.got \in Seq(Byte) /\ rd.from \in Nat /\ rd.length \in Nat \ {0} /\ Len(rd.got) \in Nat
  <2>1. rd.got \in Seq(Byte)
    BY DEF Asked
  <2>2. QED
    BY <2>1 DEF Reads
<1>3. hi > rd.from /\ lo < stop
  BY AsksOnAfter, Zenon DEF LeavesInTurn
<1>4. rd.from + Len(rd.got) = IF rd.from > lo THEN rd.from ELSE lo
  <2>1. Least(rd.left, rd.idx)
    BY DEF Asked
  <2>2. QED
    BY <2>1 DEF GotInOrder, Place
<1>5. Len(data) \in Nat /\ stop \in Nat
  <2>1. stop \in Nat
    BY <1>2
  <2> HIDE DEF data, stop
  <2>2. QED
    BY <2>1, <1>1
<1>6. \A n \in 1 .. Len(rd.got) : rd.got[n] = bytes[rd.from + n]
  BY DEF GotInOrder
<1>7. \A n \in 1 .. Len(data) : bytes[lo + n] = data[n]
  <2>1. rd.chunks \in Contents
    BY DEF Reads
  <2>2. QED
    BY <2>1, <1>1, ContentBytes, Zenon
<1>8. relStart = (rd.from + Len(rd.got)) - lo
  <2>1. relStart = (IF rd.from + Len(rd.got) < lo THEN lo ELSE rd.from + Len(rd.got)) - lo
    BY DEF RelStart
  <2> HIDE DEF relStart, lo
  <2>2. QED
    BY <2>1, <1>1, <1>2, <1>4
<1>9. relEnd = to - lo
  BY DEF RelEnd
<1> HIDE DEF end, data, bytes, lo, hi, relStart, relEnd, stop
<1> DEFINE from == rd.from
           have == Len(rd.got)
           size == Len(data)
<1>a. /\ from \in Nat /\ have \in Nat /\ lo \in Nat /\ hi \in Nat /\ stop \in Nat
      /\ size \in Nat /\ hi = lo + size /\ lo < hi /\ hi > from /\ lo < stop /\ stop > from
      /\ from + have = IF from > lo THEN from ELSE lo
      /\ relStart = (from + have) - lo /\ relEnd = to - lo
  <2>1. stop > from
    BY <1>2 DEF stop
  <2>2. QED
    BY <2>1, <1>1, <1>2, <1>3, <1>4, <1>5, <1>8, <1>9
<1> HIDE DEF from, have, size
<1>10. /\ relStart \in Nat /\ relEnd \in Nat /\ relEnd <= size /\ relStart < relEnd
       /\ to \in Nat
  <2> DEFINE at == from + have
  <2>1. at \in Nat /\ at = (IF from > lo THEN from ELSE lo) /\ relStart = at - lo
    BY <1>a
  <2> HIDE DEF at
  <2>2. at >= lo /\ at < hi /\ at < stop
    BY <2>1, <1>a
  <2>3. to \in Nat /\ at < to /\ to <= hi
    BY <2>1, <2>2, <1>a
  <2> HIDE DEF to
  <2>4. relStart \in Nat
    BY <2>1, <2>2, <1>a
  <2>5. relEnd \in Nat /\ relEnd <= size /\ relStart < relEnd
    BY <2>1, <2>2, <2>3, <1>a
  <2>6. QED
    BY <2>3, <2>4, <2>5
<1>11. /\ part \in Seq(Byte) /\ Len(part) = relEnd - relStart
       /\ \A n \in 1 .. relEnd - relStart : part[n] = data[relStart + n]
  <2>1. data \in Seq(Byte) /\ relStart \in Nat /\ relEnd \in Int /\ relEnd <= Len(data)
    BY <1>1, <1>10 DEF size
  <2>2. part \in Seq(Byte) /\ IsSlice(part, data, relStart, relEnd)
    BY <2>1, Slice, Zenon
  <2> HIDE DEF part
  <2>3. QED
    BY <2>2, <1>10 DEF IsSlice
<1>12. Taken(rd, data) = rd.got \o part
  <2>1. CASE rd.mode = "stream"
    <3>1. rd.from = 0 /\ stop = TotalSize(rd.chunks)
      BY <2>1, <1>2 DEF Asked, stop
    <3>2. relStart = 0 /\ relEnd = size
      <4>1. from = 0 /\ hi <= stop
        BY <3>1, <1>1 DEF from
      <4>2. to = hi
        BY <4>1, <1>a
      <4>3. QED
        BY <4>1, <4>2, <1>a
    <3>3. part = data
      BY <3>2, <1>1 DEF size
    <3>4. QED
      BY <2>1, <3>3 DEF Taken
  <2>2. CASE rd.mode # "stream"
    BY <2>2 DEF Taken, Sequential, relStart, relEnd, lo, hi, end
  <2>3. QED
    BY <2>1, <2>2
<1> HIDE DEF part, to
<1> DEFINE got == rd.got \o part
<1>13. got \in Seq(Byte) /\ Joins(got, rd.got, part)
  BY <1>2, <1>11, Concatenation, Zenon
<1> HIDE DEF got
<1>14. Len(got) = Len(rd.got) + (relEnd - relStart)
  BY <1>11, <1>13 DEF Joins
<1>15. rd.from + Len(got) = to
  <2>1. Len(got) = have + (relEnd - relStart)
    BY <1>14 DEF have
  <2>2. from + Len(got) = to
    BY <2>1, <1>a, <1>10
  <2>3. QED
    BY <2>2 DEF from
<1>16. ASSUME NEW n \in 1 .. Len(got) PROVE got[n] = bytes[rd.from + n]
  <2>1. CASE n <= Len(rd.got)
    <3>1. n \in 1 .. Len(rd.got)
      BY <2>1, <1>2
    <3>2. QED
      BY <3>1, <1>6, <1>13 DEF Joins
  <2>2. CASE n > Len(rd.got)
    <3> DEFINE k == n - Len(rd.got)
    <3>1. k \in 1 .. relEnd - relStart /\ n = Len(rd.got) + k
      BY <2>2, <1>2, <1>10, <1>14
    <3> HIDE DEF k
    <3>2. got[n] = part[k]
      BY <3>1, <1>11, <1>13 DEF Joins
    <3>3. part[k] = data[relStart + k]
      BY <3>1, <1>11
    <3>4. relStart + k \in 1 .. Len(data)
      <4>1. relStart + k \in 1 .. size
        BY <3>1, <1>a, <1>10
      <4>2. QED
        BY <4>1 DEF size
    <3>5. data[relStart + k] = bytes[lo + (relStart + k)]
      BY <3>4, <1>7
    <3>6. lo + (relStart + k) = rd.from + n
      <4>1. n = have + k /\ k \in Nat
        BY <3>1, <1>10 DEF have
      <4>2. lo + (relStart + k) = from + n
        BY <4>1, <1>a
      <4>3. QED
        BY <4>2 DEF from
    <3>7. QED
      BY <3>2, <3>3, <3>5, <3>6
  <2>3. QED
    BY <2>1, <2>2, <1>2
<1>17. QED
  BY <1>12, <1>13, <1>15, <1>16 DEF got, bytes, data, to, stop, hi, end

\* What a download has when it has written the next chunk.
LEMMA WritesInPlace ==
    ASSUME NEW rd \in Reads, Asked(rd), AtChunk(rd), ~ Sequential(rd), GotChunks(rd)
    PROVE  LET end == SizesUpTo(rd.chunks)
               got == Taken(rd, rd.chunks[rd.idx].data)
           IN  /\ got \in Got
               /\ \A n \in DOMAIN got :
                    n <= TotalSize(rd.chunks) /\ got[n] = Bytes(rd.chunks)[n]
               /\ \A i \in (1 .. Len(rd.chunks)) \ (rd.left \ {rd.idx}) :
                    end[i - 1] + 1 .. end[i] \subseteq DOMAIN got
<1> DEFINE end == SizesUpTo(rd.chunks)
           data == rd.chunks[rd.idx].data
           bytes == Bytes(rd.chunks)
           lo == end[rd.idx - 1]
           hi == end[rd.idx]
           got == WriteAt(rd.got, lo, data)
           total == TotalSize(rd.chunks)
           size == Len(data)
<1>1. /\ rd.idx \in 1 .. Len(rd.chunks) /\ lo \in Nat /\ hi \in Nat /\ hi = lo + size
      /\ hi <= total /\ total \in Nat /\ data \in Seq(Byte)
  BY ChunkAtHand, Zenon DEF Asked
<1>2. \A n \in 1 .. size : bytes[lo + n] = data[n]
  <2>1. rd.chunks \in Contents
    BY DEF Reads
  <2>2. QED
    BY <2>1, <1>1, ContentBytes, Zenon
<1>3. /\ \A n \in DOMAIN rd.got : n <= total /\ rd.got[n] = bytes[n]
      /\ \A i \in (1 .. Len(rd.chunks)) \ rd.left : end[i - 1] + 1 .. end[i] \subseteq DOMAIN rd.got
  BY DEF GotChunks
<1>4. Taken(rd, data) = got
  BY DEF Taken, Sequential
<1>5. rd.got \in Got
  BY DEF Reads
<1> HIDE DEF end, data, bytes, lo, hi, total, got
<1>6. size \in Nat
  BY <1>1
<1>7. /\ got \in Got /\ DOMAIN got = DOMAIN rd.got \cup (lo + 1 .. lo + size)
      /\ \A b \in DOMAIN got :
            got[b] = IF b \in lo + 1 .. lo + size THEN data[b - lo] ELSE rd.got[b]
  <2>1. got \in Got /\ IsWritten(got, rd.got, lo, data)
    BY <1>1, <1>5, WriteAtGot, Zenon DEF got
  <2>2. QED
    BY <2>1 DEF IsWritten
<1> HIDE DEF size
<1>8. ASSUME NEW n \in DOMAIN got PROVE n <= total /\ got[n] = bytes[n]
  <2>1. CASE n \in lo + 1 .. lo + size
    <3>1. n - lo \in 1 .. size /\ lo + (n - lo) = n /\ n <= total
      BY <2>1, <1>1, <1>6
    <3>2. got[n] = data[n - lo]
      BY <2>1, <1>7
    <3>3. bytes[lo + (n - lo)] = data[n - lo]
      BY <3>1, <1>2
    <3>4. QED
      BY <3>1, <3>2, <3>3
  <2>2. CASE n \notin lo + 1 .. lo + size
    BY <2>2, <1>3, <1>7
  <2>3. QED
    BY <2>1, <2>2
<1>9. ASSUME NEW i \in (1 .. Len(rd.chunks)) \ (rd.left \ {rd.idx})
      PROVE  end[i - 1] + 1 .. end[i] \subseteq DOMAIN got
  <2>1. CASE i = rd.idx
    <3>1. end[i - 1] + 1 .. end[i] = lo + 1 .. lo + size
      BY <2>1, <1>1 DEF lo, hi
    <3>2. QED
      BY <3>1, <1>7
  <2>2. CASE i # rd.idx
    <3>1. i \in (1 .. Len(rd.chunks)) \ rd.left
      BY <2>2
    <3>2. QED
      BY <3>1, <1>3, <1>7
  <2>3. QED
    BY <2>1, <2>2
<1>10. QED
  BY <1>4, <1>7, <1>8, <1>9 DEF data, bytes, total, end

LEMMA AllIsGot ==
    ASSUME NEW chunks \in Contents, NEW got \in Got,
           \A n \in DOMAIN got : n <= TotalSize(chunks) /\ got[n] = Bytes(chunks)[n],
           \A i \in 1 .. Len(chunks) :
                SizesUpTo(chunks)[i - 1] + 1 .. SizesUpTo(chunks)[i] \subseteq DOMAIN got
    PROVE  got = Bytes(chunks)
<1> DEFINE end == SizesUpTo(chunks)
           bytes == Bytes(chunks)
           total == TotalSize(chunks)
<1>1. /\ end \in [0 .. Len(chunks) -> Nat] /\ total = end[Len(chunks)]
      /\ \A b \in 1 .. end[Len(chunks)] :
            \E i \in 1 .. Len(chunks) : end[i - 1] < b /\ b <= end[i]
  BY ContentEnds, Zenon
<1>2. bytes \in Seq(Byte) /\ Len(bytes) = end[Len(chunks)] /\ Len(chunks) \in Nat
  BY ContentBytes, ContentTyped, Zenon
<1> HIDE DEF end, bytes, total
<1>3. ASSUME NEW b \in 1 .. total PROVE b \in DOMAIN got
  <2>1. PICK i \in 1 .. Len(chunks) : end[i - 1] < b /\ b <= end[i]
    BY <1>1
  <2>2. end[i - 1] \in Nat /\ end[i] \in Nat
    <3>1. i \in 0 .. Len(chunks) /\ i - 1 \in 0 .. Len(chunks)
      BY <1>2
    <3>2. QED
      BY <3>1, <1>1
  <2>3. b \in end[i - 1] + 1 .. end[i]
    BY <2>1, <2>2
  <2>4. end[i - 1] + 1 .. end[i] \subseteq DOMAIN got
    BY DEF end
  <2>5. QED
    BY <2>3, <2>4
<1>4. ASSUME NEW b \in DOMAIN got PROVE b \in 1 .. total
  <2>1. b \in Nat \ {0}
    BY GotTyped, Zenon
  <2>2. b <= total
    BY DEF total
  <2>3. total \in Nat
    BY <1>1, <1>2
  <2>4. QED
    BY <2>1, <2>2, <2>3
<1>5. DOMAIN got = 1 .. total /\ DOMAIN bytes = 1 .. total
  <2>1. DOMAIN got = 1 .. total
    BY <1>3, <1>4
  <2>2. DOMAIN bytes = 1 .. total
    BY <1>1, <1>2
  <2>3. QED
    BY <2>1, <2>2
<1>6. got = [b \in DOMAIN got |-> got[b]]
  BY GotTyped, Zenon
<1>7. \A b \in DOMAIN got : got[b] = bytes[b]
  BY DEF bytes
<1>8. got = bytes
  <2>1. bytes = [b \in DOMAIN bytes |-> bytes[b]]
    BY <1>2
  <2>2. QED
    BY <2>1, <1>5, <1>6, <1>7
<1>9. QED
  BY <1>8 DEF bytes

LEMMA SliceIsGot ==
    ASSUME NEW R, NEW s \in Seq(R), NEW g \in Seq(R), NEW i \in Nat,
           i + Len(g) <= Len(s), \A n \in 1 .. Len(g) : g[n] = s[i + n]
    PROVE  g = SubSeq(s, i + 1, i + Len(g))
<1> DEFINE t == SubSeq(s, i + 1, i + Len(g))
<1>1. i + Len(g) \in Int /\ Len(g) \in Nat
  OBVIOUS
<1>2. t \in Seq(R) /\ IsSlice(t, s, i, i + Len(g))
  BY <1>1, Slice, Zenon
<1> HIDE DEF t
<1>3. Len(t) = Len(g) /\ \A n \in 1 .. Len(g) : t[n] = s[i + n]
  BY <1>1, <1>2 DEF IsSlice
<1>4. t = g
  BY <1>2, <1>3
<1>5. QED
  BY <1>4 DEF t

\* What a call that succeeds should return.
Result(rd) == SubSeq(Bytes(rd.chunks), rd.off + 1, rd.off + rd.len)

LEMMA TakeRight ==
    ASSUME NEW rd \in Reads, Asked(rd), AtChunk(rd), Collected(rd)
    PROVE  LET t == Take(rd, rd.chunks[rd.idx].data) IN
           /\ t.step # "closed" => Collected(t)
           /\ t.step = "closed" => t.result = "ok" /\ t.got = Result(rd)
<1> DEFINE data == rd.chunks[rd.idx].data
           t == Take(rd, data)
           left == rd.left \ {rd.idx}
           got == Taken(rd, data)
           end == SizesUpTo(rd.chunks)
           total == TotalSize(rd.chunks)
           bytes == Bytes(rd.chunks)
<1>1. t = IF RunsOff(rd, data) THEN Finished("panic", <<>>)
          ELSE IF left # {} THEN [rd EXCEPT !.step = "look", !.left = left, !.got = got]
          ELSE IF rd.mode = "whole"
               THEN [rd EXCEPT !.step = "keep", !.left = {}, !.got = got]
          ELSE Finished("ok", got)
  BY TakeCases, Zenon
<1>2. /\ rd.idx \in rd.left /\ rd.chunks \in Contents /\ rd.mode \in Modes
      /\ rd.off \in Nat /\ rd.len \in Nat /\ rd.from \in Nat /\ rd.length \in Nat \ {0}
  BY DEF Asked, Reads
<1>3. end[rd.idx] <= total /\ end[rd.idx] \in Nat /\ total \in Nat
  BY <1>2, ChunkAtHand, Zenon
<1>4. bytes \in Seq(Byte) /\ Len(bytes) = total
  <2>1. total = end[Len(rd.chunks)]
    BY <1>2, ContentEnds, Zenon
  <2>2. QED
    BY <2>1, <1>2, ContentBytes, Zenon
<1>5. ~ RunsOff(rd, data)
  <2>1. SUFFICES ASSUME rd.mode \in {"whole", "range"}
                 PROVE  ~ (RelEnd(rd, end[rd.idx - 1], end[rd.idx]) > Len(data))
    BY DEF RunsOff
  <2>2. rd.got \in Seq(Byte)
    BY <2>1 DEF Asked, Sequential
  <2>3. /\ RelEnd(rd, end[rd.idx - 1], end[rd.idx]) \in Int
        /\ RelEnd(rd, end[rd.idx - 1], end[rd.idx]) <= Len(data) /\ data \in Seq(Byte)
    BY <2>2, <1>2, RelBounds, ChunkAtHand, Zenon
  <2> HIDE DEF data
  <2>4. Len(data) \in Nat
    BY <2>3
  <2>5. QED
    BY <2>3, <2>4
<1>6. ASSUME left # {} \/ rd.mode = "whole"
      PROVE  /\ t = [rd EXCEPT !.step = IF left # {} THEN "look" ELSE "keep",
                               !.left = left, !.got = got]
             /\ t.step \in {"look", "keep"} /\ t.left = left /\ t.got = got /\ t.mode = rd.mode
             /\ t.chunks = rd.chunks /\ t.from = rd.from /\ t.length = rd.length
  <2> HIDE DEF t, left, got
  <2>1. t = [rd EXCEPT !.step = IF left # {} THEN "look" ELSE "keep",
                       !.left = left, !.got = got]
    BY <1>1, <1>5, <1>6
  <2>2. QED
    BY <2>1 DEF Reads
<1>7. ASSUME left = {}, rd.mode # "whole" PROVE t = Finished("ok", got)
  BY <1>1, <1>5, <1>7
<1>8. CASE Sequential(rd)
  <2>1. GotInOrder(rd)
    BY <1>8 DEF Collected, AtChunk
  <2> DEFINE to == IF rd.from + rd.length > end[rd.idx] THEN end[rd.idx]
                   ELSE rd.from + rd.length
  <2>2. /\ got \in Seq(Byte) /\ rd.from + Len(got) = to
        /\ \A n \in 1 .. Len(got) : got[n] = bytes[rd.from + n]
    BY <2>1, <1>8, AppendsInOrder, Zenon
  <2>3. LeavesInTurn(rd.chunks, rd.from, rd.length, rd.left, rd.idx)
    BY <1>8, AsksOnAfter, Zenon
  <2> HIDE DEF got, t, left, end, data, total, bytes
  <2>4. rd.from + rd.length <= total
    BY DEF Asked, total
  <2>5. rd.from + Len(got) <= total /\ Len(got) \in Nat
    BY <2>2, <2>4, <1>2, <1>3
  <2>6. left = {} => Len(got) = rd.length
    <3>1. left = {} => end[rd.idx] >= rd.from + rd.length
      BY <2>3 DEF LeavesInTurn, left, end
    <3>2. QED
      BY <3>1, <2>2, <2>5, <1>2, <1>3
  <2>7. CASE left # {} \/ rd.mode = "whole"
    <3>1. GotInOrder(t)
      <4>1. t.from + Len(t.got) <= TotalSize(t.chunks)
        BY <2>7, <1>6, <2>5 DEF total
      <4>2. \A n \in 1 .. Len(t.got) : t.got[n] = Bytes(t.chunks)[t.from + n]
        BY <2>7, <1>6, <2>2 DEF bytes
      <4>3. t.left = {} => Len(t.got) = t.length
        BY <2>7, <1>6, <2>6
      <4>4. ASSUME NEW m, Least(t.left, m) PROVE t.from + Len(t.got) = Place(t, m)
        <5>1. Least(left, m)
          BY <2>7, <4>4, <1>6
        <5>2. m = rd.idx + 1 /\ end[rd.idx] < rd.from + rd.length /\ end[rd.idx] > rd.from
          BY <5>1, <2>3 DEF LeavesInTurn, left, end
        <5>3. m - 1 = rd.idx
          BY <5>2, <1>2, <1>3, ChunkAtHand
        <5>4. rd.from + Len(got) = end[rd.idx]
          BY <5>2, <2>2, <1>2, <1>3
        <5>5. Place(t, m) = IF rd.from > end[rd.idx] THEN rd.from ELSE end[rd.idx]
          BY <5>3, <2>7, <1>6 DEF Place, end
        <5>6. QED
          BY <5>2, <5>4, <5>5, <2>7, <1>2, <1>3, <1>6
      <4>5. QED
        BY <4>1, <4>2, <4>3, <4>4 DEF GotInOrder
    <3>2. Collected(t) /\ t.step # "closed"
      BY <3>1, <2>7, <1>6, <1>8 DEF Collected, Sequential
    <3>3. QED
      BY <3>2 DEF t, data
  <2>8. CASE left = {} /\ rd.mode # "whole"
    <3>1. t.step = "closed" /\ t.result = "ok" /\ t.got = got
      BY <2>8, <1>7 DEF Finished
    <3>2. rd.from = rd.off /\ rd.length = rd.len
      BY <2>8 DEF Asked
    <3>3. got = SubSeq(bytes, rd.from + 1, rd.from + Len(got))
      BY <2>2, <2>5, <1>2, <1>4, SliceIsGot
    <3>4. got = Result(rd)
      BY <3>2, <3>3, <2>6, <2>8 DEF Result, bytes
    <3>5. QED
      BY <3>1, <3>4 DEF t, data
  <2>9. QED
    BY <2>7, <2>8
<1>9. CASE ~ Sequential(rd)
  <2>1. GotChunks(rd) /\ rd.mode = "download"
    BY <1>9 DEF Collected, Sequential
  <2>2. /\ got \in Got
        /\ \A n \in DOMAIN got : n <= total /\ got[n] = bytes[n]
        /\ \A i \in (1 .. Len(rd.chunks)) \ left : end[i - 1] + 1 .. end[i] \subseteq DOMAIN got
    BY <2>1, <1>9, WritesInPlace, Zenon
  <2> HIDE DEF got, t, left, end, data, total, bytes
  <2>3. CASE left # {}
    <3>1. GotChunks(t)
      BY <2>2, <2>3, <1>6 DEF GotChunks, bytes, total, end
    <3>2. Collected(t) /\ t.step # "closed"
      BY <3>1, <2>3, <1>6, <1>9 DEF Collected, Sequential
    <3>3. QED
      BY <3>2 DEF t, data
  <2>4. CASE left = {}
    <3>1. t.step = "closed" /\ t.result = "ok" /\ t.got = got
      BY <2>1, <2>4, <1>7 DEF Finished
    <3>2. \A i \in 1 .. Len(rd.chunks) : end[i - 1] + 1 .. end[i] \subseteq DOMAIN got
      BY <2>2, <2>4
    <3>3. got = bytes
      BY <3>2, <2>2, <1>2, AllIsGot DEF bytes, end, total
    <3>4. rd.off = 0 /\ rd.len = total
      BY <2>1 DEF Asked, total
    <3>5. \A n \in 1 .. Len(got) : got[n] = bytes[0 + n]
      BY <3>3
    <3>6. got = Result(rd)
      <4>1. SubSeq(bytes, 1, Len(bytes)) = bytes
        BY <1>4
      <4>2. Result(rd) = SubSeq(bytes, 0 + 1, 0 + total)
        BY <3>4 DEF Result, bytes
      <4>3. QED
        BY <4>1, <4>2, <3>3, <1>3, <1>4
    <3>7. QED
      BY <3>1, <3>6 DEF t, data
  <2>5. QED
    BY <2>3, <2>4
<1>10. QED
  BY <1>8, <1>9

----------------------------------------------------------------------------
(* The inductive invariant.                                                *)

Whole == [incomplete : {FALSE}, chunks : Contents]

Reading(r) == ~ InStep(r, "closed")

\* rd reads an entry that is there, at a path that nobody else has to do with.
Placed(rd, r) ==
    /\ rd \in Reads /\ Asked(rd)
    /\ store[rd.path] # NoEntry /\ store[rd.path].chunks = rd.chunks
    /\ \A arg \in InOp : ~ Under(rd.path, arg)
    /\ \A q \in Readers \ {r} : Reading(q) => readers[q].path # rd.path

Sets(rd) ==
    [key |-> <<rd.path, rd.idx>>,
     data |-> IF rd.idx = 0 THEN rd.got ELSE rd.chunks[rd.idx].data]

Putting(r) == InStep(r, "put") => Locked /\ setting = Sets(readers[r])

OpPuts == op # NoOp /\ op.step = "put"

OpShape ==
    op # NoOp =>
        /\ op \in Op /\ op.old \in Args
        /\ op.kind = "remove" => op.step # "put" /\ op.new = op.old
        /\ op.kind = "rename" => Len(op.old) = Len(op.new) /\ op.old # op.new
                                 /\ Empty(op.new) /\ op.new \in Args
        /\ op.step = "put" => Locked /\ setting.key = <<op.new, 0>>

Shape ==
    /\ store \in [Paths -> {NoEntry} \cup Whole]
    /\ readers = [r \in Readers |-> readers[r]]
    /\ crashes \in Nat /\ failures \in Nat
    /\ OpShape
    /\ \A r \in Readers : Reading(r) => Placed(readers[r], r)
    /\ \A r \in Readers : Putting(r)
    /\ Locked => OpPuts \/ \E r \in Readers : InStep(r, "put")

\* What has been taken out of the cache when the operation is at its step.
Swept(step, k) ==
    \/ step \in {"chunks", "inside", "store"} /\ k[1] = op.old /\ k[2] = 0
    \/ step \in {"inside", "store"} /\ k[1] = op.old
    \/ step = "store" /\ Under(k[1], op.old)

Cleared == op # NoOp => \A k \in KeysOf(index) : ~ Swept(op.step, k)

\* What the key <<p, i>> stands for.
Held(chunks, i) == IF i = 0 THEN Bytes(chunks) ELSE chunks[i].data

HeldRight(k) ==
    /\ store[k[1]] # NoEntry
    /\ k[2] \in 0 .. Len(store[k[1]].chunks)
    /\ files[k] = Held(store[k[1]].chunks, k[2])

\* The key that a rename has moved, and what it stands for.
Blob(k) == op # NoOp /\ op.kind = "rename" /\ op.step # "put" /\ k = <<op.new, 0>>

OldIs(data) ==
    op.old \in Paths /\ store[op.old] # NoEntry /\ data = Bytes(store[op.old].chunks)

\* k is not found in the cache; the file of k is not there without its entry.
Fresh(k) == k \notin KeysOf(index) \ old
Known(k) == k \in DOMAIN files => k \in KeysOf(index)

\* What rd relies on: what it has is right, what it puts is not there yet, and
\* what it has found is still there or gone.
Relies(rd) ==
    /\ Collected(rd)
    /\ rd.step = "miss" => Fresh(<<rd.path, rd.idx>>)
    /\ rd.mode = "whole" => Fresh(<<rd.path, 0>>)
    /\ rd.step = "blob" => Known(<<rd.path, 0>>)
    /\ rd.step = "hit" => Known(<<rd.path, rd.idx>>)

Right ==
    /\ Locked => setting.key \notin KeysOf(index)
    /\ \A k \in KeysOf(index) : HeldRight(k) \/ (Blob(k) /\ OldIs(files[k]))
    /\ OpPuts => OldIs(setting.data)
    /\ \A r \in Readers : Reading(r) => Relies(readers[r])

\* What index.json names and the directory has is in the index, and chunks are
\* at worst cut short.
NamedIsThere ==
    saved # NoIndex =>
        \A k \in KeysOf(saved) \cap DOMAIN files :
            k \in KeysOf(index) \/ (Locked /\ setting.key = k)

CutAtWorst(k) ==
    k[2] > 0 =>
        /\ store[k[1]] # NoEntry
        /\ k[2] \in DOMAIN store[k[1]].chunks
        /\ IsPrefix(files[k], store[k[1]].chunks[k[2]].data)

Torn == NamedIsThere /\ \A k \in KeysOf(index) : CutAtWorst(k)

IInv ==
    /\ NoAlias
    /\ CacheTyped /\ Room
    /\ Shape /\ Cleared
    /\ crashes = 0 => Right
    /\ failures = 0 => Torn

LEMMA KeyIs ==
    ASSUME NoAlias, NEW p, NEW i
    PROVE  Key(p, i) = <<p, i>>
  BY DEF NoAlias, Key

----------------------------------------------------------------------------
(* What is under what.                                                     *)

LEMMA UnderItself ==
    ASSUME NEW p \in Seq(Names)
    PROVE  Under(p, p)
  BY DEF Under, IsPrefix

LEMMA SameLength ==
    ASSUME NEW p \in Seq(Names), NEW q \in Seq(Names), Under(p, q), Len(p) = Len(q)
    PROVE  p = q
<1>1. SubSeq(q, 1, Len(q)) = SubSeq(p, 1, Len(q))
  BY DEF Under, IsPrefix
<1>2. SubSeq(q, 1, Len(q)) = q /\ SubSeq(p, 1, Len(p)) = p
  OBVIOUS
<1>3. QED
  BY <1>1, <1>2

\* What RenameFile makes of a path under `from` is under `to`, and only `from`
\* itself becomes `to`.
LEMMA MovedUnder ==
    ASSUME NEW from \in Seq(Names), NEW to \in Seq(Names), Len(from) = Len(to),
           NEW p \in Seq(Names), Under(p, from)
    PROVE  LET q == to \o SubSeq(p, Len(from) + 1, Len(p)) IN
           /\ q \in Seq(Names) /\ Under(q, to)
           /\ p = from => q = to
           /\ q = to => p = from
<1> DEFINE l == Len(from)
           rest == SubSeq(p, l + 1, Len(p))
           q == to \o rest
<1>1. l \in Nat /\ Len(p) \in Nat /\ l <= Len(p) /\ Len(to) = l
  BY DEF Under, IsPrefix
<1>2. rest \in Seq(Names) /\ Len(rest) = Len(p) - l
  <2>1. p \in Seq(Names) /\ l \in Nat /\ Len(p) \in Int /\ Len(p) <= Len(p)
    BY <1>1
  <2>2. rest \in Seq(Names) /\ IsSlice(rest, p, l, Len(p))
    BY <2>1, Slice, Zenon
  <2> HIDE DEF rest
  <2>3. QED
    BY <1>1, <2>2 DEF IsSlice
<1> HIDE DEF rest
<1>3. q \in Seq(Names) /\ Len(q) = Len(p)
  BY <1>1, <1>2
<1>4. SubSeq(q, 1, l) = to
  BY <1>1, <1>2
<1>5. Under(q, to)
  <2>1. SubSeq(to, 1, l) = to
    BY <1>1
  <2> HIDE DEF q
  <2>2. QED
    BY <2>1, <1>1, <1>3, <1>4 DEF Under, IsPrefix
<1>6. p = from => q = to
  BY <1>1, <1>2
<1>7. q = to => p = from
  BY <1>1, <1>3, SameLength
<1>8. QED
  BY <1>3, <1>5, <1>6, <1>7 DEF q, rest, l

----------------------------------------------------------------------------
(* What a step of the cache leaves of it, but for the keys K.              *)

CacheKeeps(K) ==
    /\ (KeysOf(index') \ old') \ K \subseteq KeysOf(index) \ old
    /\ KeysOf(index') \ K \subseteq KeysOf(index)
    /\ (KeysOf(index) \cap DOMAIN files') \ K \subseteq KeysOf(index')
    /\ FilesKept(K)

LEMMA UnchangedKeeps ==
    ASSUME UNCHANGED cacheVars
    PROVE  CacheKeeps({})
  BY DEF cacheVars, CacheKeeps, FilesKept

LEMMA SetBeginKeeps ==
    ASSUME CacheTyped, Room, NEW k \in Keys, NEW data \in Seq(Byte), SetBegin(k, data)
    PROVE  CacheKeeps({k})
  BY SetBeginStep DEF CacheKeeps

LEMMA SetEndKeeps ==
    ASSUME CacheTyped, Room, SetEnd
    PROVE  CacheKeeps({setting.key})
  BY SetEndStep DEF CacheKeeps

LEMMA SetFailsKeeps ==
    ASSUME CacheTyped, Room, SetFails
    PROVE  CacheKeeps({setting.key})
  BY SetFailsStep DEF CacheKeeps

LEMMA DeleteKeysKeeps ==
    ASSUME CacheTyped, Room, NEW K, DeleteKeys(K)
    PROVE  CacheKeeps({})
  BY DeleteKeysStep DEF CacheKeeps

LEMMA CleanupKeeps ==
    ASSUME CacheTyped, Room, Cleanup
    PROVE  CacheKeeps({})
  BY CleanupStep DEF CacheKeeps

LEMMA ExpireKeeps ==
    ASSUME CacheTyped, Room, Expire
    PROVE  CacheKeeps({})
  BY ExpireStep DEF CacheKeeps, FilesKept

LEMMA KeptKeys ==
    ASSUME CacheTyped', NEW K, CacheKeeps(K), NEW k, k \notin K
    PROVE  /\ Fresh(k) => Fresh(k)'
           /\ Known(k) => Known(k)'
           /\ k \in KeysOf(index') => k \in KeysOf(index) /\ files'[k] = files[k]
<1>1. Fresh(k) => Fresh(k)'
  BY DEF CacheKeeps, Fresh
<1>2. Known(k) => Known(k)'
  BY DEF CacheKeeps, Known, FilesKept
<1>3. k \in KeysOf(index') => k \in DOMAIN files'
  BY DEF CacheTyped
<1>4. k \in KeysOf(index') => k \in KeysOf(index) /\ files'[k] = files[k]
  BY <1>3 DEF CacheKeeps, FilesKept
<1>5. QED
  BY <1>1, <1>2, <1>4

\* Who does not set anything has nothing to do with what is being set.
LEMMA NotBeingSet ==
    ASSUME Shape, NEW r \in Readers, Reading(r), ~ InStep(r, "put"), Locked
    PROVE  \A i : setting.key # <<readers[r].path, i>>
<1>1. CASE OpPuts
  <2>1. setting.key = <<op.new, 0>> /\ op.new \in InOp
    BY <1>1 DEF OpPuts, Shape, OpShape, InOp
  <2>2. ~ Under(readers[r].path, op.new)
    BY <2>1 DEF Shape, Placed
  <2>3. readers[r].path \in Seq(Names)
    BY PathsAssumption DEF Shape, Placed, Reads
  <2>4. readers[r].path # op.new
    BY <2>2, <2>3, UnderItself
  <2>5. QED
    BY <2>1, <2>4
<1>2. CASE \E q \in Readers : InStep(q, "put")
  <2>1. PICK q \in Readers : InStep(q, "put")
    BY <1>2
  <2>2. setting = Sets(readers[q]) /\ q # r /\ Reading(q)
    BY <2>1 DEF Shape, Putting, Reading, InStep
  <2>3. readers[q].path # readers[r].path
    BY <2>2 DEF Shape, Placed
  <2>4. setting.key = <<readers[q].path, readers[q].idx>>
    BY <2>2 DEF Sets
  <2>5. QED
    BY <2>3, <2>4
<1>3. QED
  BY <1>1, <1>2 DEF Shape

\* One at a time holds the lock.
LEMMA OnePuts ==
    ASSUME Shape, NEW r \in Readers, InStep(r, "put")
    PROVE  /\ ~ OpPuts /\ Locked /\ setting = Sets(readers[r])
           /\ \A q \in Readers \ {r} : ~ InStep(q, "put")
<1>1. Reading(r) /\ Locked /\ setting = Sets(readers[r])
  BY DEF Shape, Putting, Reading, InStep
<1>2. setting.key = <<readers[r].path, readers[r].idx>>
  BY <1>1 DEF Sets
<1>3. ~ OpPuts
  <2>1. SUFFICES ASSUME OpPuts PROVE FALSE
    OBVIOUS
  <2>2. setting.key = <<op.new, 0>> /\ op.new \in InOp
    BY <2>1 DEF OpPuts, Shape, OpShape, InOp
  <2>3. ~ Under(readers[r].path, op.new) /\ readers[r].path \in Seq(Names)
    BY <1>1, <2>2, PathsAssumption DEF Shape, Placed, Reads
  <2>4. readers[r].path = op.new
    BY <1>2, <2>2
  <2>5. QED
    BY <2>3, <2>4, UnderItself
<1>4. ASSUME NEW q \in Readers \ {r}, InStep(q, "put") PROVE FALSE
  <2>1. setting = Sets(readers[q]) /\ Reading(q)
    BY <1>4 DEF Shape, Putting, Reading, InStep
  <2>2. setting.key = <<readers[q].path, readers[q].idx>>
    BY <2>1 DEF Sets
  <2>3. readers[q].path # readers[r].path
    BY <1>1, <2>1 DEF Shape, Placed
  <2>4. QED
    BY <1>2, <2>2, <2>3
<1>5. QED
  BY <1>1, <1>3, <1>4

----------------------------------------------------------------------------
(* A range read begins, and a whole read ends.                             *)

\* A range read that begins asks for chunks, and has nothing yet.
LEMMA Starts ==
    ASSUME NEW rd \in Reads, NEW mode \in {"whole", "range"},
           rd.off + rd.len <= TotalSize(rd.chunks)
    PROVE  LET t == StartRange(rd, mode) IN
           /\ t \in Reads /\ Asked(t) /\ Collected(t)
           /\ t.step = "look" /\ t.mode = mode /\ t.path = rd.path /\ t.chunks = rd.chunks
           /\ t.off = rd.off /\ t.len = rd.len
<1> DEFINE t == StartRange(rd, mode)
           total == TotalSize(rd.chunks)
           from == IF mode = "whole" THEN 0 ELSE rd.off
           length == IF mode = "whole" THEN total ELSE rd.len
           end == SizesUpTo(rd.chunks)
           needed == Overlapping(rd.chunks, from, length)
<1>1. /\ rd.chunks \in Contents /\ rd.off \in Nat /\ rd.len \in Nat \ {0}
      /\ rd.path \in Paths
  BY DEF Reads
<1>2. total \in Nat /\ end \in [0 .. Len(rd.chunks) -> Nat] /\ Len(rd.chunks) \in Nat
  <2>1. /\ end \in [0 .. Len(rd.chunks) -> Nat] /\ total = end[Len(rd.chunks)]
        /\ Len(rd.chunks) \in Nat \ {0}
    BY <1>1, ContentEnds, ContentTyped, Zenon
  <2> HIDE DEF end, total
  <2>2. Len(rd.chunks) \in 0 .. Len(rd.chunks)
    BY <2>1
  <2>3. QED
    BY <2>1, <2>2
<1>3. rd.off + rd.len <= total
  OBVIOUS
<1>4. t = [rd EXCEPT !.step = "look", !.mode = mode, !.from = from,
                     !.length = length, !.got = <<>>, !.left = needed]
  BY DEF StartRange
<1> HIDE DEF total, end
<1>5. from \in Nat /\ length \in Nat \ {0} /\ from + length <= total
  BY <1>1, <1>2, <1>3
<1> HIDE DEF t, from, length
<1>6. /\ needed \subseteq 1 .. Len(rd.chunks) /\ needed # {}
      /\ \A m : Least(needed, m) => end[m - 1] <= from
  BY <1>1, <1>5, RangeHasChunks, Zenon DEF total, end
<1> HIDE DEF needed
<1>7. needed \subseteq Nat /\ <<>> \in Seq(Byte) /\ <<>> \in Got
  BY <1>2, <1>6, SeqIsGot
<1>8. t \in Reads
  BY <1>4, <1>5, <1>7 DEF Reads, Modes
<1>9. /\ t.step = "look" /\ t.mode = mode /\ t.path = rd.path /\ t.chunks = rd.chunks
      /\ t.off = rd.off /\ t.len = rd.len /\ t.from = from /\ t.length = length
      /\ t.got = <<>> /\ t.left = needed
  BY <1>4 DEF Reads
<1>10. AsksOn(t)
  BY <1>9 DEF AsksOn, InTurn, Needed, needed
<1>11. Asked(t)
  <2>1. ~ AtChunk(t)
    BY <1>9 DEF AtChunk
  <2>2. mode # "whole" => from = rd.off /\ length = rd.len
    BY DEF from, length
  <2>3. mode # "range" => from = 0 /\ length = total
    BY DEF from, length
  <2>4. QED
    BY <1>3, <1>5, <1>6, <1>7, <1>9, <1>10, <2>1, <2>2, <2>3 DEF Asked, total
<1>12. Collected(t)
  <2>1. Len(t.got) = 0
    BY <1>9
  <2>2. ASSUME NEW m, Least(t.left, m) PROVE t.from + Len(t.got) = Place(t, m)
    <3>1. m \in 1 .. Len(rd.chunks) /\ end[m - 1] <= from
      BY <2>2, <1>6, <1>9 DEF Least
    <3>2. m - 1 \in 0 .. Len(rd.chunks)
      BY <3>1, <1>2
    <3>3. end[m - 1] \in Nat
      BY <3>2, <1>2
    <3>4. Place(t, m) = IF from > end[m - 1] THEN from ELSE end[m - 1]
      BY <1>9 DEF Place, end
    <3>5. QED
      BY <3>1, <3>3, <3>4, <2>1, <1>5, <1>9
  <2>3. GotInOrder(t)
    <3>1. t.from + Len(t.got) <= TotalSize(t.chunks)
      BY <2>1, <1>2, <1>5, <1>9 DEF total
    <3>2. \A n \in 1 .. Len(t.got) : t.got[n] = Bytes(t.chunks)[t.from + n]
      BY <2>1
    <3>3. t.left # {}
      BY <1>6, <1>9
    <3>4. QED
      BY <2>2, <3>1, <3>2, <3>3 DEF GotInOrder
  <2>4. QED
    BY <2>3, <1>9 DEF Collected, Sequential
<1>13. QED
  BY <1>8, <1>9, <1>11, <1>12 DEF t

\* What a whole read keeps is the file.
LEMMA WholeIsGot ==
    ASSUME NEW rd \in Reads, Asked(rd), Collected(rd), rd.mode = "whole", rd.left = {},
           rd.step # "blob"
    PROVE  rd.got = Bytes(rd.chunks) /\ rd.got \in Seq(Byte)
<1> DEFINE total == TotalSize(rd.chunks)
           bytes == Bytes(rd.chunks)
<1>1. rd.chunks \in Contents
  BY DEF Reads
<1>2. bytes \in Seq(Byte) /\ Len(bytes) = total
  <2>1. total = SizesUpTo(rd.chunks)[Len(rd.chunks)]
    BY <1>1, ContentEnds, Zenon
  <2>2. QED
    BY <2>1, <1>1, ContentBytes, Zenon
<1>3. GotInOrder(rd) /\ rd.got \in Seq(Byte) /\ rd.from = 0 /\ rd.length = total
  BY DEF Collected, Sequential, Asked
<1>4. Len(rd.got) = total /\ \A n \in 1 .. Len(rd.got) : rd.got[n] = bytes[0 + n]
  BY <1>3 DEF GotInOrder
<1> HIDE DEF total, bytes
<1>5. rd.got = bytes
  BY <1>2, <1>3, <1>4
<1>6. QED
  BY <1>3, <1>5 DEF bytes

----------------------------------------------------------------------------
(* What a step of one reader leaves to be shown.                           *)

\* The reader r becomes x, and the cache changes at keys of what r reads.
Moves(r, x, K) ==
    /\ readers' = [readers EXCEPT ![r] = x]
    /\ store' = store /\ op' = op /\ crashes' = crashes
    /\ CacheTyped' /\ Room' /\ CacheKeeps(K)
    /\ x.step = "closed" \/ Placed(x, r)
    /\ K # {} => Reading(r) /\ \A k \in K : k[1] = readers[r].path
    /\ x.step = "put" => Locked' /\ setting' = Sets(x)
    /\ Locked /\ ~ InStep(r, "put") => Locked' /\ setting' = setting
    /\ Locked' => x.step = "put" \/ (Locked /\ ~ InStep(r, "put"))

LEMMA MovesOne ==
    ASSUME Shape, NEW r \in Readers, NEW x, NEW K, Moves(r, x, K)
    PROVE  /\ readers'[r] = x
           /\ \A q \in Readers \ {r} : readers'[q] = readers[q]
           /\ readers' = [q \in Readers |-> readers'[q]]
  BY DEF Shape, Moves

LEMMA MovesShape ==
    ASSUME Shape, NEW r \in Readers, NEW x, NEW K, Moves(r, x, K), failures' \in Nat
    PROVE  Shape'
<1>1. /\ readers'[r] = x /\ \A q \in Readers \ {r} : readers'[q] = readers[q]
      /\ readers' = [q \in Readers |-> readers'[q]]
  BY MovesOne
<1>2. /\ store' = store /\ op' = op /\ crashes' = crashes
      /\ x.step = "closed" \/ Placed(x, r)
      /\ x.step = "put" => Locked' /\ setting' = Sets(x)
      /\ Locked /\ ~ InStep(r, "put") => Locked' /\ setting' = setting
      /\ Locked' => x.step = "put" \/ (Locked /\ ~ InStep(r, "put"))
  BY DEF Moves
<1>3. OpPuts => Locked /\ ~ InStep(r, "put")
  BY OnePuts DEF Shape, OpShape, OpPuts
<1>4. OpShape'
  BY <1>2, <1>3 DEF Shape, OpShape, OpPuts, Empty
<1>5. ASSUME NEW q \in Readers, Reading(q)' PROVE Placed(readers[q], q)'
  <2>1. CASE q = r
    <3>1. Placed(x, r)
      BY <1>1, <1>2, <1>5, <2>1 DEF Reading, InStep
    <3>2. \A q2 \in Readers \ {r} : Reading(q2)' => readers'[q2].path # x.path
      BY <3>1, <1>1 DEF Placed, Reading, InStep
    <3>3. QED
      BY <3>1, <3>2, <2>1, <1>1, <1>2 DEF Placed, InOp
  <2>2. CASE q # r
    <3>1. Placed(readers[q], q) /\ readers'[q] = readers[q] /\ Reading(q)
      BY <2>2, <1>1, <1>5 DEF Shape, Reading, InStep
    <3>2. ASSUME NEW q2 \in Readers \ {q}, Reading(q2)' PROVE readers'[q2].path # readers[q].path
      <4>1. CASE q2 = r
        <5>1. Placed(x, r)
          BY <1>1, <1>2, <3>2, <4>1 DEF Reading, InStep
        <5>2. QED
          BY <5>1, <3>1, <4>1, <2>2, <1>1 DEF Placed
      <4>2. CASE q2 # r
        BY <4>2, <3>1, <3>2, <1>1 DEF Placed, Reading, InStep
      <4>3. QED
        BY <4>1, <4>2
    <3>3. QED
      BY <3>1, <3>2, <1>2 DEF Placed, InOp
  <2>3. QED
    BY <2>1, <2>2
<1>6. ASSUME NEW q \in Readers PROVE Putting(q)'
  <2>1. CASE q = r
    BY <2>1, <1>1, <1>2 DEF Putting, InStep
  <2>2. CASE q # r
    <3>1. InStep(q, "put") => Locked /\ ~ InStep(r, "put") /\ setting = Sets(readers[q])
      BY <2>2, OnePuts
    <3>2. QED
      BY <2>2, <3>1, <1>1, <1>2 DEF Putting, InStep
  <2>3. QED
    BY <2>1, <2>2
<1>7. ASSUME Locked' PROVE OpPuts' \/ \E q \in Readers : InStep(q, "put")'
  <2>1. CASE x.step = "put"
    BY <2>1, <1>1 DEF InStep
  <2>2. CASE Locked /\ ~ InStep(r, "put")
    BY <2>2, <1>1, <1>2 DEF Shape, OpPuts, InStep
  <2>3. QED
    BY <2>1, <2>2, <1>2, <1>7
<1>8. QED
  BY <1>1, <1>2, <1>4, <1>5, <1>6, <1>7 DEF Shape

LEMMA MovesCleared ==
    ASSUME Shape, Cleared, NEW r \in Readers, NEW x, NEW K, Moves(r, x, K)
    PROVE  Cleared'
<1>1. op' = op
  BY DEF Moves
<1>2. ASSUME op # NoOp, NEW k \in KeysOf(index') PROVE ~ Swept(op.step, k)
  <2>1. CASE k \in K
    <3>1. Reading(r) /\ k[1] = readers[r].path
      BY <2>1 DEF Moves
    <3>2. op.old \in InOp
      BY <1>2 DEF InOp
    <3>3. ~ Under(k[1], op.old) /\ k[1] \in Seq(Names)
      BY <3>1, <3>2, PathsAssumption DEF Shape, Placed, Reads
    <3>4. k[1] # op.old
      BY <3>3, UnderItself
    <3>5. QED
      BY <3>3, <3>4 DEF Swept
  <2>2. CASE k \notin K
    BY <1>2, <2>2 DEF Moves, CacheKeeps, Cleared
  <2>3. QED
    BY <2>1, <2>2
<1>3. QED
  BY <1>1, <1>2 DEF Cleared, Swept

LEMMA MovesRight ==
    ASSUME Shape, Right, NEW r \in Readers, NEW x, NEW K, Moves(r, x, K),
           x.step # "closed" => Relies(x)',
           \A k \in K : k \in KeysOf(index') => HeldRight(k)',
           Locked' => setting'.key \notin KeysOf(index')
    PROVE  Right'
<1>1. /\ readers'[r] = x /\ \A q \in Readers \ {r} : readers'[q] = readers[q]
  BY MovesOne
<1>2. /\ store' = store /\ op' = op /\ CacheTyped' /\ CacheKeeps(K)
      /\ Locked /\ ~ InStep(r, "put") => Locked' /\ setting' = setting
      /\ K # {} => Reading(r) /\ \A k \in K : k[1] = readers[r].path
  BY DEF Moves
<1>3. ASSUME NEW k \in KeysOf(index')
      PROVE  HeldRight(k)' \/ (Blob(k)' /\ OldIs(files[k])')
  <2>1. CASE k \notin K
    <3>1. k \in KeysOf(index) /\ files'[k] = files[k]
      BY <2>1, <1>2, KeptKeys
    <3>2. HeldRight(k) \/ (Blob(k) /\ OldIs(files[k]))
      BY <3>1 DEF Right
    <3>3. QED
      BY <3>1, <3>2, <1>2 DEF HeldRight, Blob, OldIs
  <2>2. QED
    BY <2>1
<1>4. OpPuts' => OldIs(setting.data)'
  <2>1. OpPuts => Locked /\ ~ InStep(r, "put")
    BY OnePuts DEF Shape, OpShape, OpPuts
  <2>2. QED
    BY <2>1, <1>2 DEF OpPuts, OldIs, Right
<1>5. ASSUME NEW q \in Readers, Reading(q)' PROVE Relies(readers[q])'
  <2>1. CASE q = r
    BY <2>1, <1>1, <1>5 DEF Reading, InStep, Relies, Fresh, Known
  <2>2. CASE q # r
    <3> DEFINE rd == readers[q]
    <3>1. readers'[q] = rd /\ Reading(q) /\ Relies(rd) /\ Placed(rd, q)
      BY <2>2, <1>1, <1>5 DEF Reading, InStep, Right, Shape
    <3>2. ASSUME NEW i PROVE <<rd.path, i>> \notin K
      <4>1. Reading(r) => readers[r].path # rd.path
        BY <2>2, <3>1 DEF Placed
      <4>2. QED
        BY <4>1, <1>2
    <3>3. ASSUME NEW i PROVE /\ Fresh(<<rd.path, i>>) => Fresh(<<rd.path, i>>)'
                             /\ Known(<<rd.path, i>>) => Known(<<rd.path, i>>)'
      BY <3>1, <3>2, <1>2 DEF CacheKeeps, Fresh, Known, FilesKept
    <3>4. QED
      BY <3>1, <3>3 DEF Relies, Fresh, Known
  <2>3. QED
    BY <2>1, <2>2
<1>6. QED
  BY <1>3, <1>4, <1>5 DEF Right

LEMMA MovesTorn ==
    ASSUME Torn, NEW r \in Readers, NEW x, NEW K, Moves(r, x, K), NamedIsThere',
           \A k \in K : k \in KeysOf(index') => CutAtWorst(k)'
    PROVE  Torn'
<1>1. store' = store /\ CacheTyped' /\ CacheKeeps(K)
  BY DEF Moves
<1>2. ASSUME NEW k \in KeysOf(index') PROVE CutAtWorst(k)'
  <2>1. CASE k \notin K
    <3>1. k \in KeysOf(index) /\ files'[k] = files[k]
      BY <2>1, <1>1, KeptKeys
    <3>2. CutAtWorst(k)
      BY <3>1 DEF Torn
    <3>3. QED
      BY <3>1, <3>2, <1>1 DEF CutAtWorst
  <2>2. QED
    BY <2>1
<1>3. QED
  BY <1>2 DEF Torn

\* One reader's step, all of it.
LEMMA MovesAll ==
    ASSUME IInv, NEW r \in Readers, NEW x, NEW K, Moves(r, x, K),
           failures' \in Nat, failures' = 0 => failures = 0,
           crashes = 0 =>
                /\ x.step # "closed" => Relies(x)'
                /\ \A k \in K : k \in KeysOf(index') => HeldRight(k)'
                /\ Locked' => setting'.key \notin KeysOf(index'),
           failures' = 0 =>
                /\ NamedIsThere'
                /\ \A k \in K : k \in KeysOf(index') => CutAtWorst(k)'
    PROVE  IInv'
<1>1. Shape /\ Cleared /\ crashes' = crashes /\ CacheTyped' /\ Room'
  BY DEF IInv, Moves
<1>2. Shape' /\ Cleared'
  BY <1>1, MovesShape, MovesCleared
<1>3. ASSUME crashes' = 0 PROVE Right'
  <2>1. Right
    BY <1>1, <1>3 DEF IInv
  <2>2. QED
    BY <2>1, <1>1, <1>3, MovesRight
<1>4. ASSUME failures' = 0 PROVE Torn'
  <2>1. Torn
    BY <1>4 DEF IInv
  <2>2. QED
    BY <2>1, <1>4, MovesTorn
<1>5. QED
  BY <1>1, <1>2, <1>3, <1>4 DEF IInv

\* A step of a reader that only looks at the cache.
LEMMA LooksOnly ==
    ASSUME IInv, NEW r \in Readers, NEW x,
           UNCHANGED <<cacheVars, store, op, crashes, failures>>,
           readers' = [readers EXCEPT ![r] = x],
           ~ InStep(r, "put"), x.step # "put",
           x.step = "closed" \/ (Placed(x, r) /\ (crashes = 0 => Relies(x)))
    PROVE  IInv'
<1>1. /\ CacheTyped /\ Room /\ Shape /\ failures \in Nat
      /\ crashes = 0 => Right
      /\ failures = 0 => Torn
  BY DEF IInv, Shape
<1>2. /\ index' = index /\ old' = old /\ files' = files /\ saved' = saved
      /\ setting' = setting /\ store' = store /\ op' = op /\ crashes' = crashes
      /\ failures' = failures
  BY DEF cacheVars
<1>3. CacheTyped' /\ Room'
  BY <1>1, <1>2 DEF CacheTyped, Room, Locked
<1>4. CacheKeeps({})
  BY UnchangedKeeps
<1>5. Moves(r, x, {})
  BY <1>2, <1>3, <1>4 DEF Moves, Locked
<1>6. ASSUME crashes = 0
      PROVE  /\ x.step # "closed" => Relies(x)'
             /\ Locked' => setting'.key \notin KeysOf(index')
  <2>1. x.step # "closed" => Relies(x)'
    BY <1>2, <1>6 DEF Relies, Fresh, Known
  <2>2. Locked' => setting'.key \notin KeysOf(index')
    BY <1>1, <1>2, <1>6 DEF Right, Locked
  <2>3. QED
    BY <2>1, <2>2
<1>7. failures' = 0 => NamedIsThere'
  BY <1>1, <1>2 DEF Torn, NamedIsThere, Locked
<1>8. QED
  BY <1>1, <1>2, <1>5, <1>6, <1>7, MovesAll

----------------------------------------------------------------------------
(* The steps of a reader that only look at the cache.                      *)

LEMMA TotalPositive ==
    ASSUME NEW chunks \in Contents
    PROVE  TotalSize(chunks) \in Nat \ {0}
<1> DEFINE end == SizesUpTo(chunks)
           n == Len(chunks)
<1>1. /\ end \in [0 .. n -> Nat] /\ TotalSize(chunks) = end[n] /\ n \in Nat \ {0}
      /\ \A i \in 1 .. n : end[i - 1] < end[i]
  BY ContentEnds, ContentTyped, Zenon
<1> HIDE DEF end, n
<1>2. n \in 1 .. n /\ n \in 0 .. n /\ n - 1 \in 0 .. n
  BY <1>1
<1>3. end[n - 1] < end[n] /\ end[n - 1] \in Nat /\ end[n] \in Nat
  BY <1>1, <1>2
<1>4. QED
  BY <1>1, <1>3

\* Nobody has to do with a path that is free.
LEMMA FreePlaced ==
    ASSUME Shape, NEW r \in Readers, NEW p \in Paths, Free(p), store[p] # NoEntry,
           NEW rd \in Reads, Asked(rd), rd.path = p, rd.chunks = store[p].chunks
    PROVE  Placed(rd, r)
<1>1. \A arg \in InOp : ~ Under(rd.path, arg)
  BY DEF Free
<1>2. ASSUME NEW q \in Readers, Reading(q) PROVE readers[q].path # rd.path
  <2>1. ~ Under(readers[q].path, p)
    BY <1>2 DEF Free, InUse, Reading
  <2>2. Under(p, p)
    BY UnderItself, PathsAssumption
  <2>3. QED
    BY <2>1, <2>2
<1>3. QED
  BY <1>1, <1>2 DEF Placed

\* What reads an entry goes on reading it as long as it asks for the same.
LEMMA StaysPlaced ==
    ASSUME Shape, NEW r \in Readers, Reading(r), NEW x \in Reads, Asked(x),
           x.path = readers[r].path, x.chunks = readers[r].chunks
    PROVE  Placed(x, r)
<1>1. Placed(readers[r], r)
  BY DEF Shape
<1>2. QED
  BY <1>1 DEF Placed

\* What is in the index under a path that is read is what the reader expects.
LEMMA FoundIsRight ==
    ASSUME Shape, Right, NEW r \in Readers, Reading(r), NEW i,
           <<readers[r].path, i>> \in KeysOf(index)
    PROVE  /\ i \in 0 .. Len(readers[r].chunks)
           /\ files[<<readers[r].path, i>>] = Held(readers[r].chunks, i)
<1> DEFINE k == <<readers[r].path, i>>
<1>1. Placed(readers[r], r)
  BY DEF Shape
<1>2. ~ Blob(k)
  <2>1. SUFFICES ASSUME Blob(k) PROVE FALSE
    OBVIOUS
  <2>2. op.new \in InOp /\ readers[r].path = op.new
    BY <2>1 DEF Blob, InOp
  <2>3. readers[r].path \in Seq(Names)
    BY <1>1, PathsAssumption DEF Placed, Reads
  <2>4. QED
    BY <2>2, <2>3, <1>1, UnderItself DEF Placed
<1>3. HeldRight(k)
  BY <1>2 DEF Right
<1>4. QED
  BY <1>1, <1>3 DEF HeldRight, Placed

\* What has been got does not depend on what is done next.
LEMMA StaysCollected ==
    ASSUME NEW rd, NEW x, Collected(rd), rd.step # "blob", x.mode = rd.mode,
           x.chunks = rd.chunks, x.from = rd.from, x.length = rd.length,
           x.left = rd.left, x.got = rd.got
    PROVE  Collected(x)
<1>1. GotInOrder(rd) => GotInOrder(x)
  BY DEF GotInOrder, Place
<1>2. GotChunks(rd) => GotChunks(x)
  BY DEF GotChunks
<1>3. QED
  BY <1>1, <1>2 DEF Collected, Sequential

LEMMA NotHas ==
    ASSUME CacheTyped, NEW k, ~ Has(k)
    PROVE  Fresh(k)
  BY DEF CacheTyped, Has, Fresh

LEMMA NothingGot == <<>> \in Got /\ <<>> \in Seq(Byte)
<1>1. <<>> \in Seq(Byte)
  OBVIOUS
<1>2. QED
  BY <1>1, SeqIsGot

LEMMA ReadAtStep ==
    ASSUME IInv, NEW r \in Readers, NEW p \in Paths, Free(p),
           NEW off \in Offsets, NEW n \in ReadSizes, ReadAt(r, p, off, n)
    PROVE  IInv'
<1> DEFINE chunks == store[p].chunks
           total == TotalSize(chunks)
           len == IF off + n > total THEN total - off ELSE n
           rd == [step |-> "blob", mode |-> "range", path |-> p, off |-> off, len |-> len,
                  chunks |-> chunks, from |-> off, length |-> len,
                  left |-> {}, idx |-> 0, got |-> <<>>]
           mode == IF total <= RAMBuffer /\ len >= total \div 2 THEN "whole" ELSE "range"
           x == IF store[p] = NoEntry THEN Finished("err", <<>>)
                ELSE IF off >= total THEN Finished("eof", <<>>)
                ELSE IF total <= RAMBuffer /\ Has(<<p, 0>>) THEN rd
                ELSE WholeOrRange(rd)
<1>1. /\ readers' = [readers EXCEPT ![r] = x] /\ InStep(r, "closed")
      /\ UNCHANGED <<cacheVars, store, op, crashes, failures>>
  <2>1. Key(p, 0) = <<p, 0>>
    BY KeyIs DEF IInv
  <2>2. QED
    BY <2>1 DEF ReadAt, Set
<1>2. Shape /\ CacheTyped
  BY DEF IInv
<1>3. WholeOrRange(rd) = StartRange(rd, mode)
  BY DEF WholeOrRange
<1>4. off \in Nat /\ n \in Nat \ {0} /\ RAMBuffer \in Nat
  BY CallsAssumption
<1>5. ASSUME store[p] # NoEntry, ~ (off >= total)
      PROVE  /\ rd \in Reads /\ Asked(rd)
             /\ rd.path = p /\ rd.chunks = chunks /\ rd.step = "blob"
             /\ rd.off + rd.len <= TotalSize(rd.chunks)
  <2>1. chunks \in Contents
    BY <1>2, <1>5 DEF Shape, Whole
  <2>2. total \in Nat
    BY <2>1, TotalPositive
  <2>3. rd.off + rd.len = off + len /\ rd.off = off /\ rd.len = len /\ rd.from = off
        /\ rd.length = len /\ rd.chunks = chunks
    OBVIOUS
  <2> HIDE DEF chunks, total
  <2>4. len \in Nat \ {0} /\ off + len <= total
    BY <2>2, <1>4, <1>5
  <2> HIDE DEF len
  <2>5. <<>> \in Got /\ <<>> \in Seq(Byte)
    BY NothingGot
  <2>6. rd \in Reads
    BY <2>1, <2>4, <2>5, <1>4 DEF Reads, Modes
  <2>7. Asked(rd)
    BY <2>3, <2>4, <2>5 DEF Asked, AsksOn, InTurn, AtChunk, total
  <2>8. QED
    BY <2>3, <2>4, <2>6, <2>7 DEF total
<1>6. CASE store[p] = NoEntry \/ off >= total
  <2>1. x.step = "closed"
    BY <1>6 DEF Finished
  <2> HIDE DEF x
  <2>2. QED
    BY <2>1, <1>1, LooksOnly DEF InStep
<1>7. CASE store[p] # NoEntry /\ ~ (off >= total) /\ total <= RAMBuffer /\ Has(<<p, 0>>)
  <2>1. x = rd
    BY <1>7
  <2>2. rd \in Reads /\ Asked(rd) /\ rd.path = p /\ rd.chunks = store[p].chunks
    BY <1>5, <1>7
  <2>3. Placed(rd, r)
    BY <2>2, <1>2, <1>7, FreePlaced, Zenon
  <2>4. Relies(rd)
    <3>1. rd.step = "blob" /\ rd.mode = "range"
      OBVIOUS
    <3>2. Known(<<p, 0>>)
      BY <1>7 DEF Has, Known
    <3> HIDE DEF rd
    <3>3. QED
      BY <3>1, <3>2, <2>2 DEF Relies, Collected, Sequential
  <2>5. rd.step # "put"
    OBVIOUS
  <2> HIDE DEF x, rd
  <2>6. QED
    BY <2>1, <2>3, <2>4, <2>5, <1>1, LooksOnly DEF InStep
<1>8. CASE store[p] # NoEntry /\ ~ (off >= total) /\ ~ (total <= RAMBuffer /\ Has(<<p, 0>>))
  <2>1. x = StartRange(rd, mode)
    BY <1>3, <1>8
  <2>2. /\ rd \in Reads /\ rd.path = p /\ rd.chunks = store[p].chunks
        /\ rd.off + rd.len <= TotalSize(rd.chunks)
    BY <1>5, <1>8
  <2>3. mode \in {"whole", "range"} /\ (mode = "whole" => total <= RAMBuffer)
    OBVIOUS
  <2> HIDE DEF rd, x, mode
  <2>4. /\ x \in Reads /\ Asked(x) /\ Collected(x)
        /\ x.step = "look" /\ x.mode = mode /\ x.path = p /\ x.chunks = store[p].chunks
    BY <2>1, <2>2, <2>3, Starts
  <2>5. Placed(x, r)
    BY <2>4, <1>2, <1>8, FreePlaced, Zenon
  <2>6. Relies(x)
    <3>1. mode = "whole" => Fresh(<<p, 0>>)
      BY <2>3, <1>2, <1>8, NotHas
    <3>2. QED
      BY <3>1, <2>4 DEF Relies
  <2>7. QED
    BY <2>4, <2>5, <2>6, <1>1, LooksOnly DEF InStep
<1>9. QED
  BY <1>6, <1>7, <1>8

LEMMA DownloadStep ==
    ASSUME IInv, NEW r \in Readers, NEW p \in Paths, Free(p),
           NEW mode \in {"download", "stream"}, Download(r, p, mode)
    PROVE  IInv'
<1> DEFINE chunks == store[p].chunks
           total == TotalSize(chunks)
           end == SizesUpTo(chunks)
           x == [step |-> "look", mode |-> mode, path |-> p, off |-> 0, len |-> total,
                 chunks |-> chunks, from |-> 0, length |-> total,
                 left |-> DOMAIN chunks, idx |-> 0, got |-> << >>]
<1>1. /\ readers' = [readers EXCEPT ![r] = x] /\ InStep(r, "closed")
      /\ UNCHANGED <<cacheVars, store, op, crashes, failures>>
      /\ store[p] # NoEntry
  BY DEF Download, Set, Visible
<1>2. Shape
  BY DEF IInv
<1>3. chunks \in Contents
  BY <1>1, <1>2 DEF Shape, Whole
<1>4. /\ total \in Nat \ {0} /\ Len(chunks) \in Nat \ {0} /\ DOMAIN chunks = 1 .. Len(chunks)
      /\ end \in [0 .. Len(chunks) -> Nat] /\ end[0] = 0 /\ total = end[Len(chunks)]
      /\ \A i \in 1 .. Len(chunks) : end[i - 1] < end[i]
      /\ \A i \in 0 .. Len(chunks) : \A j \in i .. Len(chunks) : end[i] <= end[j]
  BY <1>3, TotalPositive, ContentEnds, ContentTyped, Zenon
<1>5. /\ x.step = "look" /\ x.mode = mode /\ x.path = p /\ x.off = 0 /\ x.len = total
      /\ x.chunks = chunks /\ x.from = 0 /\ x.length = total /\ x.left = DOMAIN chunks
      /\ x.got = <<>> /\ x.idx = 0
  OBVIOUS
<1>6. <<>> \in Got /\ <<>> \in Seq(Byte)
  BY NothingGot
<1> HIDE DEF chunks, total, end
<1>7. x \in Reads
  <2>1. DOMAIN chunks \in SUBSET Nat
    BY <1>4
  <2>2. QED
    BY <2>1, <1>3, <1>4, <1>6 DEF Reads, Modes
<1> HIDE DEF x
<1>8. Needed(x) = DOMAIN chunks
  <2>1. ASSUME NEW i \in 1 .. Len(chunks) PROVE end[i] > 0 /\ end[i - 1] < 0 + total
    <3>1. i \in 0 .. Len(chunks) /\ i - 1 \in 0 .. Len(chunks) /\ Len(chunks) \in i .. Len(chunks)
          /\ Len(chunks) \in 0 .. Len(chunks)
      BY <1>4
    <3>2. end[i - 1] < end[i] /\ end[i] <= end[Len(chunks)]
      BY <3>1, <1>4
    <3>3. end[i - 1] \in Nat /\ end[i] \in Nat
      BY <3>1, <1>4
    <3>4. QED
      BY <3>2, <3>3, <1>4
  <2>2. Needed(x) = {i \in DOMAIN chunks : end[i] > 0 /\ end[i - 1] < 0 + total}
    BY <1>5 DEF Needed, Overlapping, end
  <2>3. QED
    BY <2>1, <2>2, <1>4
<1>9. Asked(x)
  <2>1. AsksOn(x)
    BY <1>5, <1>8 DEF AsksOn, InTurn
  <2>2. ~ AtChunk(x)
    BY <1>5 DEF AtChunk
  <2>3. x.left # {}
    BY <1>4, <1>5
  <2>4. QED
    BY <2>1, <2>2, <2>3, <1>4, <1>5, <1>6 DEF Asked, total
<1>10. Collected(x)
  <2>1. GotInOrder(x)
    <3>1. Len(x.got) = 0
      BY <1>5
    <3>2. ASSUME NEW m, Least(x.left, m) PROVE x.from + Len(x.got) = Place(x, m)
      <4>1. m = 1
        <5>1. m \in 1 .. Len(chunks) /\ m <= 1
          BY <3>2, <1>4, <1>5 DEF Least
        <5>2. QED
          BY <5>1, <1>4
      <4>2. Place(x, m) = IF 0 > end[0] THEN 0 ELSE end[0]
        BY <4>1, <1>5 DEF Place, end
      <4>3. QED
        BY <4>2, <3>1, <1>4, <1>5
    <3>3. x.left # {}
      BY <1>4, <1>5
    <3>4. x.from + Len(x.got) <= TotalSize(x.chunks)
      BY <3>1, <1>4, <1>5 DEF total
    <3>5. QED
      BY <3>1, <3>2, <3>3, <3>4 DEF GotInOrder
  <2>2. GotChunks(x)
    BY <1>4, <1>5 DEF GotChunks
  <2>3. QED
    BY <2>1, <2>2 DEF Collected
<1>11. Placed(x, r)
  <2>1. x.path = p /\ x.chunks = store[p].chunks
    BY <1>5 DEF chunks
  <2>2. QED
    BY <2>1, <1>1, <1>2, <1>7, <1>9, FreePlaced, Zenon
<1>12. Relies(x)
  BY <1>5, <1>10 DEF Relies
<1>13. QED
  BY <1>1, <1>5, <1>11, <1>12, LooksOnly DEF InStep

\* What a reader finds in the file of a key, which nobody is writing.
LEMMA FoundFile ==
    ASSUME CacheTyped, Shape, NEW r \in Readers, Reading(r), ~ InStep(r, "put"), NEW i,
           NEW data \in ReadFile(<<readers[r].path, i>>)
    PROVE  /\ <<readers[r].path, i>> \in DOMAIN files
           /\ data = files[<<readers[r].path, i>>] /\ data \in Seq(Byte)
<1>1. ~ (Locked /\ setting.key = <<readers[r].path, i>>)
  BY NotBeingSet
<1>2. <<readers[r].path, i>> \in DOMAIN files /\ data = files[<<readers[r].path, i>>]
  BY <1>1 DEF ReadFile
<1>3. QED
  BY <1>2 DEF CacheTyped

LEMMA BlobIsRight ==
    ASSUME CacheTyped, Shape, Right, NEW r \in Readers, InStep(r, "blob"),
           NEW data \in ReadFile(<<readers[r].path, 0>>)
    PROVE  data = Bytes(readers[r].chunks)
<1> DEFINE k == <<readers[r].path, 0>>
<1>1. Reading(r) /\ ~ InStep(r, "put")
  BY DEF Reading, InStep
<1>2. k \in DOMAIN files /\ data = files[k]
  BY <1>1, FoundFile
<1>3. Known(k)
  BY <1>1 DEF Right, Relies, InStep
<1>4. k \in KeysOf(index)
  BY <1>2, <1>3 DEF Known
<1>5. data = Held(readers[r].chunks, 0)
  BY <1>1, <1>2, <1>4, FoundIsRight
<1>6. QED
  BY <1>5 DEF Held

LEMMA ReadBlobStep ==
    ASSUME IInv, NEW r \in Readers, ReadBlob(r)
    PROVE  IInv'
<1> DEFINE rd == readers[r]
           total == TotalSize(rd.chunks)
           mode == IF total <= RAMBuffer /\ rd.len >= total \div 2 THEN "whole" ELSE "range"
<1>1. /\ InStep(r, "blob")
      /\ UNCHANGED <<cacheVars, store, op, crashes, failures>>
      /\ \/ \E data \in ReadFile(<<rd.path, 0>>) :
                readers' = [readers EXCEPT ![r] =
                                Finished("ok", SubSeq(data, rd.off + 1, rd.off + rd.len))]
         \/ /\ \/ ReadFile(<<rd.path, 0>>) = {}
               \/ \E data \in ReadFile(<<rd.path, 0>>) : Len(data) < rd.off + rd.len
            /\ readers' = [readers EXCEPT ![r] = WholeOrRange(rd)]
  <2>1. Key(rd.path, 0) = <<rd.path, 0>>
    BY KeyIs DEF IInv
  <2>2. QED
    BY <2>1 DEF ReadBlob, Set
<1>2. /\ CacheTyped /\ Shape /\ Reading(r) /\ ~ InStep(r, "put")
  BY <1>1 DEF IInv, Reading, InStep
<1>3. Placed(rd, r) /\ rd \in Reads /\ Asked(rd)
  BY <1>2 DEF Shape, Placed
<1>4. CASE \E data \in ReadFile(<<rd.path, 0>>) :
                readers' = [readers EXCEPT ![r] =
                                Finished("ok", SubSeq(data, rd.off + 1, rd.off + rd.len))]
  <2>1. PICK data : readers' = [readers EXCEPT ![r] =
                                Finished("ok", SubSeq(data, rd.off + 1, rd.off + rd.len))]
    BY <1>4
  <2> DEFINE x == Finished("ok", SubSeq(data, rd.off + 1, rd.off + rd.len))
  <2>2. x.step = "closed"
    BY DEF Finished
  <2>3. readers' = [readers EXCEPT ![r] = x]
    BY <2>1
  <2> HIDE DEF x
  <2>4. QED
    BY <2>2, <2>3, <1>1, <1>2, LooksOnly
<1>5. CASE /\ \/ ReadFile(<<rd.path, 0>>) = {}
              \/ \E data \in ReadFile(<<rd.path, 0>>) : Len(data) < rd.off + rd.len
           /\ readers' = [readers EXCEPT ![r] = WholeOrRange(rd)]
  <2> DEFINE x == StartRange(rd, mode)
  <2>1. readers' = [readers EXCEPT ![r] = x]
    BY <1>5 DEF WholeOrRange
  <2>2. mode \in {"whole", "range"} /\ rd.off + rd.len <= TotalSize(rd.chunks)
    BY <1>3 DEF Asked
  <2>3. /\ x \in Reads /\ Asked(x) /\ Collected(x)
        /\ x.step = "look" /\ x.mode = mode /\ x.path = rd.path /\ x.chunks = rd.chunks
    BY <2>2, <1>3, Starts
  <2> HIDE DEF x
  <2>4. Placed(x, r)
    BY <2>3, <1>2, StaysPlaced
  <2>5. ASSUME crashes = 0 PROVE Relies(x)
    <3>1. Right
      BY <2>5 DEF IInv
    <3>2. \A data \in ReadFile(<<rd.path, 0>>) : Len(data) = total
      <4>1. SUFFICES ASSUME NEW data \in ReadFile(<<rd.path, 0>>) PROVE Len(data) = total
        OBVIOUS
      <4>2. data = Bytes(rd.chunks)
        BY <3>1, <1>1, <1>2, BlobIsRight
      <4>3. rd.chunks \in Contents
        BY <1>3 DEF Reads
      <4>4. Len(Bytes(rd.chunks)) = SizesUpTo(rd.chunks)[Len(rd.chunks)]
        BY <4>3, ContentBytes, Zenon
      <4>5. total = SizesUpTo(rd.chunks)[Len(rd.chunks)]
        BY <4>3, ContentEnds, Zenon
      <4>6. QED
        BY <4>2, <4>4, <4>5
    <3>3. total \in Nat /\ rd.off + rd.len <= total /\ rd.off + rd.len \in Nat
      <4>1. rd.chunks \in Contents /\ rd.off \in Nat /\ rd.len \in Nat
        BY <1>3 DEF Reads
      <4>2. QED
        BY <4>1, <2>2, TotalPositive
    <3>4. ReadFile(<<rd.path, 0>>) = {}
      BY <3>2, <3>3, <1>5
    <3>5. Fresh(<<rd.path, 0>>)
      <4>1. <<rd.path, 0>> \notin DOMAIN files
        <5>1. ~ (Locked /\ setting.key = <<rd.path, 0>>)
          BY <1>2, NotBeingSet
        <5>2. QED
          BY <5>1, <3>4 DEF ReadFile
      <4>2. QED
        BY <4>1, <1>2 DEF CacheTyped, Fresh
    <3>6. QED
      BY <3>5, <2>3 DEF Relies
  <2>6. QED
    BY <2>1, <2>3, <2>4, <2>5, <1>1, <1>2, LooksOnly
<1>6. QED
  BY <1>1, <1>4, <1>5

\* The reader turns to the chunk i.
LEMMA LookStep ==
    ASSUME IInv, NEW r \in Readers, Look(r)
    PROVE  IInv'
<1> DEFINE rd == readers[r]
<1>1. PICK i \in rd.left :
        /\ rd.mode = "download" \/ \A j \in rd.left : i <= j
        /\ readers' = [readers EXCEPT ![r] =
                [rd EXCEPT !.idx = i, !.step = IF Has(<<rd.path, i>>) THEN "hit" ELSE "miss"]]
  <2>1. \A i : Key(rd.path, i) = <<rd.path, i>>
    BY KeyIs DEF IInv
  <2>2. QED
    <3> HIDE DEF rd
    <3>1. PICK i \in rd.left :
            /\ rd.mode = "download" \/ \A j \in rd.left : i <= j
            /\ readers' = [readers EXCEPT ![r] =
                    [rd EXCEPT !.idx = i, !.step = IF Has(Key(rd.path, i)) THEN "hit" ELSE "miss"]]
      BY DEF Look, Set, rd
    <3>2. Key(rd.path, i) = <<rd.path, i>>
      BY <2>1
    <3>3. QED
      BY <3>1, <3>2
<1>2. InStep(r, "look") /\ UNCHANGED <<cacheVars, store, op, crashes, failures>>
  BY DEF Look
<1>3. /\ CacheTyped /\ Shape /\ Reading(r) /\ ~ InStep(r, "put")
  BY <1>2 DEF IInv, Reading, InStep
<1>4. rd \in Reads /\ Asked(rd)
  BY <1>3 DEF Shape, Placed
<1> DEFINE step == IF Has(<<rd.path, i>>) THEN "hit" ELSE "miss"
           x == [rd EXCEPT !.idx = i, !.step = step]
<1>5. step \in {"hit", "miss"}
  OBVIOUS
<1>6. step = "hit" => Known(<<rd.path, i>>)
  BY DEF Has, Known
<1>7. step = "miss" => Fresh(<<rd.path, i>>)
  BY <1>3, NotHas
<1> HIDE DEF step
<1>8. x \in Reads
  <2>1. i \in Nat
    BY <1>4 DEF Reads
  <2>2. QED
    BY <2>1, <1>4, <1>5 DEF Reads
<1>9. /\ x.step = step /\ x.idx = i /\ x.mode = rd.mode /\ x.path = rd.path
      /\ x.off = rd.off /\ x.len = rd.len /\ x.chunks = rd.chunks /\ x.from = rd.from
      /\ x.length = rd.length /\ x.left = rd.left /\ x.got = rd.got
  BY <1>4 DEF Reads
<1>10. readers' = [readers EXCEPT ![r] = x]
  BY <1>1 DEF step
<1> HIDE DEF x
<1>11. Asked(x)
  <2>1. AsksOn(x)
    BY <1>4, <1>9 DEF Asked, AsksOn, Needed, Sequential
  <2>2. Sequential(x) => Least(x.left, x.idx)
    BY <1>1, <1>9 DEF Sequential, Least
  <2>3. QED
    BY <2>1, <2>2, <1>4, <1>5, <1>9 DEF Asked, Sequential, AtChunk
<1>12. Placed(x, r)
  BY <1>3, <1>8, <1>9, <1>11, StaysPlaced
<1>13. ASSUME crashes = 0 PROVE Relies(x)
  <2>1. Relies(rd)
    BY <1>3, <1>13 DEF IInv, Right
  <2>2. Collected(x)
    BY <2>1, <1>2, <1>9, StaysCollected DEF Relies, InStep
  <2>3. QED
    BY <2>1, <2>2, <1>5, <1>6, <1>7, <1>9 DEF Relies
<1>14. x.step # "put"
  BY <1>5, <1>9
<1>15. QED
  BY <1>2, <1>3, <1>10, <1>12, <1>13, <1>14, LooksOnly

\* A chunk that is found is the file's.
LEMMA HitIsRight ==
    ASSUME NoAlias, CacheTyped, Shape, Right, NEW r \in Readers, InStep(r, "hit"),
           NEW data \in ReadFile(KeyOf(r))
    PROVE  data = readers[r].chunks[readers[r].idx].data
<1> DEFINE rd == readers[r]
           k == <<rd.path, rd.idx>>
<1>1. Reading(r) /\ ~ InStep(r, "put")
  BY DEF Reading, InStep
<1>2. k \in DOMAIN files /\ data = files[k]
  BY <1>1, FoundFile, KeyIs DEF KeyOf
<1>3. Known(k)
  BY <1>1 DEF Right, Relies, InStep
<1>4. k \in KeysOf(index)
  BY <1>2, <1>3 DEF Known
<1>5. data = Held(rd.chunks, rd.idx)
  BY <1>1, <1>2, <1>4, FoundIsRight
<1>6. rd.idx # 0
  <2>1. rd \in Reads /\ Asked(rd)
    BY <1>1 DEF Shape, Placed
  <2>2. rd.idx \in rd.left
    BY <2>1 DEF Asked, AtChunk, InStep
  <2>3. rd.idx \in 1 .. Len(rd.chunks)
    BY <2>1, <2>2, ChunkAtHand, Zenon
  <2>4. QED
    BY <2>3
<1>7. QED
  BY <1>5, <1>6 DEF Held

\* The bytes behind what is read of a chunk are bytes, and none of them is read
\* of a chunk that is all there.
LEMMA SpareTyped ==
    ASSUME NEW rd \in Reads, Asked(rd), AtChunk(rd), NEW data \in Seq(Byte)
    PROVE  Spare(rd, data) \in Seq(Byte)
<1> DEFINE end == SizesUpTo(rd.chunks)
           relEnd == RelEnd(rd, end[rd.idx - 1], end[rd.idx])
           zeros == [b \in 1 .. relEnd - Len(data) |-> Zero]
<1>1. CASE rd.mode \in {"whole", "range"} /\ relEnd > Len(data)
  <2>1. rd.got \in Seq(Byte) /\ rd.idx \in rd.left
    BY <1>1 DEF Asked, Sequential
  <2>2. relEnd \in Int
    BY <2>1, RelBounds, Zenon
  <2>3. Spare(rd, data) = data \o zeros
    BY <1>1 DEF Spare
  <2>4. PICK n \in Nat : n = relEnd - Len(data)
    <3> HIDE DEF relEnd
    <3>1. QED
      BY <2>2, <1>1
  <2>5. zeros \in [1 .. n -> Byte]
    <3>1. zeros = [b \in 1 .. n |-> Zero]
      BY <2>4
    <3> HIDE DEF zeros
    <3>2. QED
      BY <3>1 DEF Byte
  <2> HIDE DEF zeros
  <2>6. zeros \in Seq(Byte)
    BY <2>5, FunctionIsSeq
  <2>7. QED
    BY <2>3, <2>6
<1>2. CASE ~ (rd.mode \in {"whole", "range"} /\ relEnd > Len(data))
  BY <1>2 DEF Spare
<1>3. QED
  BY <1>1, <1>2

LEMMA WholeHasNoSpare ==
    ASSUME NEW rd \in Reads, Asked(rd), AtChunk(rd)
    PROVE  Spare(rd, rd.chunks[rd.idx].data) = rd.chunks[rd.idx].data
<1> DEFINE data == rd.chunks[rd.idx].data
           end == SizesUpTo(rd.chunks)
           relEnd == RelEnd(rd, end[rd.idx - 1], end[rd.idx])
<1>1. SUFFICES ASSUME rd.mode \in {"whole", "range"} PROVE ~ (relEnd > Len(data))
  BY DEF Spare
<1>2. rd.got \in Seq(Byte) /\ rd.idx \in rd.left
  BY <1>1 DEF Asked, Sequential
<1>3. relEnd \in Int /\ relEnd <= Len(data) /\ data \in Seq(Byte)
  BY <1>2, RelBounds, ChunkAtHand, Zenon
<1> HIDE DEF data, relEnd
<1>4. Len(data) \in Nat
  BY <1>3
<1>5. QED
  BY <1>3, <1>4

LEMMA ReadChunkStep ==
    ASSUME IInv, NEW r \in Readers, ReadChunk(r)
    PROVE  IInv'
<1> DEFINE rd == readers[r]
           k == <<rd.path, rd.idx>>
<1>1. /\ InStep(r, "hit")
      /\ UNCHANGED <<cacheVars, store, op, crashes, failures>>
      /\ \/ \E data \in ReadFile(k) \ {<<>>} :
                \/ readers' = [readers EXCEPT ![r] = Take(rd, data)]
                \/ readers' = [readers EXCEPT ![r] = Take(rd, Spare(rd, data))]
         \/ /\ ReadFile(k) = {} \/ <<>> \in ReadFile(k)
            /\ readers' = [readers EXCEPT ![r] = [rd EXCEPT !.step = "miss"]]
  <2>1. KeyOf(r) = k
    BY KeyIs DEF KeyOf, IInv
  <2>2. QED
    BY <2>1 DEF ReadChunk, Set
<1>2. /\ CacheTyped /\ Shape /\ Reading(r) /\ ~ InStep(r, "put")
  BY <1>1 DEF IInv, Reading, InStep
<1>3. rd \in Reads /\ Asked(rd) /\ AtChunk(rd)
  BY <1>1, <1>2 DEF Shape, Placed, AtChunk, InStep
<1>4. ASSUME NEW found \in ReadFile(k), NEW data \in {found, Spare(rd, found)},
             readers' = [readers EXCEPT ![r] = Take(rd, data)]
      PROVE  IInv'
  <2> DEFINE x == Take(rd, data)
  <2>1. data \in Seq(Byte)
    <3>1. found \in Seq(Byte)
      BY <1>2, FoundFile
    <3>2. Spare(rd, found) \in Seq(Byte)
      BY <3>1, <1>3, SpareTyped, Zenon
    <3>3. QED
      BY <3>1, <3>2
  <2>2. \/ x.step = "closed"
        \/ /\ x \in Reads /\ Asked(x) /\ x.step \in {"look", "keep"}
           /\ x.path = rd.path /\ x.chunks = rd.chunks
           /\ x.mode = rd.mode /\ x.off = rd.off /\ x.len = rd.len
    BY <2>1, <1>3, TakeAsked, Zenon
  <2>3. ASSUME crashes = 0, x.step # "closed" PROVE Collected(x)
    <3>1. data = rd.chunks[rd.idx].data
      <4>1. found = rd.chunks[rd.idx].data
        BY <1>1, <1>2, <2>3, HitIsRight, KeyIs DEF IInv, KeyOf
      <4>2. Spare(rd, rd.chunks[rd.idx].data) = rd.chunks[rd.idx].data
        BY <1>3, WholeHasNoSpare, Zenon
      <4>3. QED
        BY <4>1, <4>2
    <3>2. Collected(rd)
      BY <1>2, <2>3 DEF IInv, Right, Relies
    <3> DEFINE t == Take(rd, rd.chunks[rd.idx].data)
    <3>3. t.step # "closed" => Collected(t)
      BY <1>3, <3>2, TakeRight, Zenon
    <3> HIDE DEF x, t
    <3>4. x = t
      BY <3>1 DEF x, t
    <3>5. QED
      BY <3>3, <3>4, <2>3
  <2> HIDE DEF x
  <2>4. CASE x.step = "closed"
    BY <2>4, <1>1, <1>2, <1>4, LooksOnly DEF x
  <2>5. CASE x.step # "closed"
    <3>1. Placed(x, r)
      BY <2>2, <2>5, <1>2, StaysPlaced
    <3>2. ASSUME crashes = 0 PROVE Relies(x)
      <4>1. Relies(rd)
        BY <3>2, <1>2 DEF IInv, Right
      <4>2. QED
        BY <4>1, <2>2, <2>3, <2>5, <3>2 DEF Relies
    <3>3. x.step # "put"
      BY <2>2
    <3>4. QED
      BY <3>1, <3>2, <3>3, <1>1, <1>2, <1>4, LooksOnly DEF x
  <2>6. QED
    BY <2>4, <2>5
<1>5. ASSUME ReadFile(k) = {} \/ <<>> \in ReadFile(k),
             readers' = [readers EXCEPT ![r] = [rd EXCEPT !.step = "miss"]]
      PROVE  IInv'
  <2> DEFINE x == [rd EXCEPT !.step = "miss"]
  <2>1. x \in Reads
    BY <1>3 DEF Reads
  <2>2. /\ x.step = "miss" /\ x.idx = rd.idx /\ x.mode = rd.mode /\ x.path = rd.path
        /\ x.off = rd.off /\ x.len = rd.len /\ x.chunks = rd.chunks /\ x.from = rd.from
        /\ x.length = rd.length /\ x.left = rd.left /\ x.got = rd.got
    BY <1>3 DEF Reads
  <2> HIDE DEF x
  <2>3. Asked(x)
    <3>1. AsksOn(x)
      BY <1>3, <2>2 DEF Asked, AsksOn, Needed, Sequential
    <3>2. QED
      BY <3>1, <1>1, <1>3, <2>2 DEF Asked, Sequential, AtChunk, InStep
  <2>4. Placed(x, r)
    BY <1>2, <2>1, <2>2, <2>3, StaysPlaced
  <2>5. ASSUME crashes = 0 PROVE Relies(x)
    <3>1. Right /\ Relies(rd)
      BY <1>2, <2>5 DEF IInv, Right
    <3>2. Collected(x)
      BY <3>1, <1>1, <2>2, StaysCollected DEF Relies, InStep
    <3>3. <<>> \notin ReadFile(k)
      <4>1. SUFFICES ASSUME <<>> \in ReadFile(k) PROVE FALSE
        OBVIOUS
      <4>2. <<>> = rd.chunks[rd.idx].data
        BY <4>1, <3>1, <1>1, <1>2, HitIsRight, KeyIs DEF IInv, KeyOf
      <4>3. rd.idx \in 1 .. Len(rd.chunks) /\ rd.chunks \in Contents
        BY <1>3, ChunkAtHand, Zenon DEF Asked, Reads
      <4>4. /\ rd.chunks[rd.idx].size \in Nat \ {0}
            /\ Len(rd.chunks[rd.idx].data) = rd.chunks[rd.idx].size
        BY <4>3, ContentTyped, Zenon
      <4>5. QED
        BY <4>2, <4>4
    <3>4. Fresh(k)
      <4>1. k \notin DOMAIN files
        <5>1. ~ (Locked /\ setting.key = k)
          BY <1>2, NotBeingSet
        <5>2. QED
          BY <5>1, <3>3, <1>5 DEF ReadFile
      <4>2. QED
        BY <4>1, <1>2 DEF CacheTyped, Fresh
    <3>5. QED
      BY <3>1, <3>2, <3>4, <2>2 DEF Relies
  <2>6. x.step # "put" /\ readers' = [readers EXCEPT ![r] = x]
    BY <2>2, <1>5 DEF x
  <2>7. QED
    BY <2>4, <2>5, <2>6, <1>1, <1>2, LooksOnly
<1>6. QED
  BY <1>1, <1>4, <1>5

LEMMA FetchFailsStep ==
    ASSUME IInv, NEW r \in Readers, FetchFails(r)
    PROVE  IInv'
<1> DEFINE rd == readers[r]
           x == IF rd.mode = "whole" THEN StartRange(rd, "range") ELSE Finished("err", <<>>)
<1>1. /\ InStep(r, "miss")
      /\ UNCHANGED <<cacheVars, store, op, crashes, failures>>
      /\ readers' = [readers EXCEPT ![r] = x]
  BY DEF FetchFails, Set
<1>2. /\ Shape /\ Reading(r) /\ ~ InStep(r, "put")
  BY <1>1 DEF IInv, Reading, InStep
<1>3. rd \in Reads /\ Asked(rd)
  BY <1>2 DEF Shape, Placed
<1>4. CASE rd.mode = "whole"
  <2>1. rd.off + rd.len <= TotalSize(rd.chunks)
    BY <1>3 DEF Asked
  <2>2. x = StartRange(rd, "range")
    BY <1>4
  <2> HIDE DEF x
  <2>3. /\ x \in Reads /\ Asked(x) /\ Collected(x)
        /\ x.step = "look" /\ x.mode = "range" /\ x.path = rd.path /\ x.chunks = rd.chunks
    BY <2>1, <2>2, <1>3, Starts
  <2>4. Placed(x, r)
    BY <2>3, <1>2, StaysPlaced
  <2>5. Relies(x)
    BY <2>3 DEF Relies
  <2>6. QED
    BY <2>3, <2>4, <2>5, <1>1, <1>2, LooksOnly
<1>5. CASE rd.mode # "whole"
  <2>1. x.step = "closed"
    BY <1>5 DEF Finished
  <2> HIDE DEF x
  <2>2. QED
    BY <2>1, <1>1, <1>2, LooksOnly
<1>6. QED
  BY <1>4, <1>5

----------------------------------------------------------------------------
(* The steps of a reader that writes into the cache.                       *)

LEMMA SetBeginNamed ==
    ASSUME CacheTyped, Room, NamedIsThere, NEW k \in Keys, NEW data \in Seq(Byte),
           SetBegin(k, data)
    PROVE  NamedIsThere'
<1>1. /\ ~ Locked /\ Locked' /\ setting' = [key |-> k, data |-> data] /\ saved' = saved
      /\ DOMAIN files' = {k} \cup (DOMAIN files \ (KeysOf(index) \ KeysOf(index')))
  BY SetBeginStep
<1>2. setting'.key = k
  BY <1>1
<1>3. QED
  BY <1>1, <1>2 DEF NamedIsThere

LEMMA BeginsToSet ==
    ASSUME IInv, NEW r \in Readers, NEW x, NEW k \in Keys, NEW data \in Seq(Byte),
           SetBegin(k, data), readers' = [readers EXCEPT ![r] = x],
           UNCHANGED <<store, op, crashes, failures>>,
           Reading(r), k[1] = readers[r].path,
           x.step = "put", Placed(x, r), Sets(x) = [key |-> k, data |-> data],
           crashes = 0 => Fresh(k) /\ Relies(x)
    PROVE  IInv'
<1>1. CacheTyped /\ Room /\ Shape /\ failures \in Nat
  BY DEF IInv, Shape
<1>2. /\ CacheTyped' /\ Room' /\ ~ Locked /\ Locked'
      /\ setting' = [key |-> k, data |-> data] /\ old' = old
      /\ KeysOf(index') \subseteq KeysOf(index) \ old /\ files'[k] = <<>>
  BY <1>1, SetBeginStep
<1>3. CacheKeeps({k})
  BY <1>1, SetBeginKeeps
<1>4. Moves(r, x, {k})
  BY <1>2, <1>3 DEF Moves
<1>5. ASSUME crashes = 0
      PROVE  Relies(x)' /\ k \notin KeysOf(index') /\ setting'.key \notin KeysOf(index')
  <2>1. k \notin KeysOf(index') /\ setting'.key = k
    BY <1>2, <1>5 DEF Fresh
  <2>2. Relies(x)'
    BY <1>2, <1>5 DEF Relies, Fresh
  <2>3. QED
    BY <2>1, <2>2
<1>6. ASSUME failures' = 0 PROVE NamedIsThere' /\ (k \in KeysOf(index') => CutAtWorst(k)')
  <2>1. Torn
    BY <1>6 DEF IInv
  <2>2. NamedIsThere'
    BY <2>1, <1>1, SetBeginNamed DEF Torn
  <2>3. ASSUME k \in KeysOf(index'), k[2] > 0 PROVE CutAtWorst(k)'
    <3> DEFINE d == store[k[1]].chunks[k[2]].data
    <3>1. CutAtWorst(k)
      BY <2>1, <2>3, <1>2 DEF Torn
    <3>2. SubSeq(d, 1, 0) = <<>> /\ Len(d) \in Nat
      <4>1. d \in Seq(Byte)
        <5>1. store[k[1]].chunks \in Contents
          BY <3>1, <2>3, <1>1, KeysAssumption DEF CutAtWorst, Shape, Whole
        <5>2. k[2] \in 1 .. Len(store[k[1]].chunks)
          BY <3>1, <2>3, <5>1, ContentTyped DEF CutAtWorst
        <5>3. QED
          BY <5>1, <5>2, ContentTyped, Zenon
      <4> HIDE DEF d
      <4>2. QED
        BY <4>1
    <3>3. IsPrefix(<<>>, d)
      BY <3>2 DEF IsPrefix
    <3>4. QED
      BY <3>1, <3>3, <2>3, <1>2 DEF CutAtWorst
  <2>4. (k \in KeysOf(index') => CutAtWorst(k)')
    BY <2>3 DEF CutAtWorst
  <2>5. QED
    BY <2>2, <2>4
<1>7. QED
  BY <1>1, <1>4, <1>5, <1>6, MovesAll

LEMMA FetchStep ==
    ASSUME IInv, NEW r \in Readers, Fetch(r)
    PROVE  IInv'
<1> DEFINE rd == readers[r]
           k == <<rd.path, rd.idx>>
           data == rd.chunks[rd.idx].data
           x == [rd EXCEPT !.step = "put"]
<1>1. /\ InStep(r, "miss") /\ SetBegin(k, data) /\ readers' = [readers EXCEPT ![r] = x]
      /\ UNCHANGED <<store, op, crashes, failures>>
  <2>1. KeyOf(r) = k
    BY KeyIs DEF KeyOf, IInv
  <2>2. QED
    BY <2>1 DEF Fetch, Set
<1>2. /\ Shape /\ Reading(r)
  BY <1>1 DEF IInv, Reading, InStep
<1>3. rd \in Reads /\ Asked(rd) /\ rd.step = "miss"
  BY <1>1, <1>2 DEF Shape, Placed, InStep
<1>4. rd.idx \in rd.left /\ rd.chunks \in Contents /\ rd.path \in Paths
  BY <1>3 DEF Asked, AtChunk, Reads
<1>5. rd.idx \in 1 .. Len(rd.chunks) /\ data \in Seq(Byte)
  BY <1>3, <1>4, ChunkAtHand, Zenon
<1>6. k \in Keys /\ rd.idx # 0
  <2>1. rd.idx \in 0 .. Len(rd.chunks) /\ rd.idx # 0
    BY <1>5
  <2>2. QED
    BY <2>1, <1>4, ContentTyped, Zenon
<1>7. x \in Reads
  BY <1>3 DEF Reads
<1>8. /\ x.step = "put" /\ x.idx = rd.idx /\ x.mode = rd.mode /\ x.path = rd.path
      /\ x.off = rd.off /\ x.len = rd.len /\ x.chunks = rd.chunks /\ x.from = rd.from
      /\ x.length = rd.length /\ x.left = rd.left /\ x.got = rd.got
  BY <1>3 DEF Reads
<1>9. Sets(x) = [key |-> k, data |-> data]
  BY <1>6, <1>8 DEF Sets
<1> HIDE DEF x
<1>10. Asked(x)
  <2>1. AsksOn(x)
    BY <1>3, <1>8 DEF Asked, AsksOn, Needed, Sequential
  <2>2. QED
    BY <2>1, <1>3, <1>6, <1>8 DEF Asked, Sequential, AtChunk
<1>11. Placed(x, r)
  BY <1>2, <1>7, <1>8, <1>10, StaysPlaced
<1>12. ASSUME crashes = 0 PROVE Fresh(k) /\ Relies(x)
  <2>1. Relies(rd)
    BY <1>2, <1>12 DEF IInv, Right
  <2>2. Collected(x)
    BY <2>1, <1>3, <1>8, StaysCollected DEF Relies
  <2>3. QED
    BY <2>1, <2>2, <1>3, <1>8 DEF Relies
<1>13. k[1] = rd.path
  OBVIOUS
<1> HIDE DEF k, data
<1>14. QED
  BY <1>1, <1>2, <1>5, <1>6, <1>8, <1>9, <1>11, <1>12, <1>13, BeginsToSet

LEMMA KeepWholeStep ==
    ASSUME IInv, NEW r \in Readers, KeepWhole(r)
    PROVE  IInv'
<1> DEFINE rd == readers[r]
           k == <<rd.path, 0>>
           x == [rd EXCEPT !.step = "put", !.idx = 0]
<1>1. /\ InStep(r, "keep") /\ SetBegin(k, rd.got) /\ readers' = [readers EXCEPT ![r] = x]
      /\ UNCHANGED <<store, op, crashes, failures>>
  <2>1. Key(rd.path, 0) = k
    BY KeyIs DEF IInv
  <2>2. QED
    BY <2>1 DEF KeepWhole, Set
<1>2. /\ Shape /\ Reading(r)
  BY <1>1 DEF IInv, Reading, InStep
<1>3. rd \in Reads /\ Asked(rd) /\ rd.step = "keep"
  BY <1>1, <1>2 DEF Shape, Placed, InStep
<1>4. rd.mode = "whole" /\ rd.left = {} /\ rd.chunks \in Contents /\ rd.path \in Paths
  BY <1>3 DEF Asked, Reads
<1>5. rd.got \in Seq(Byte)
  BY <1>3, <1>4 DEF Asked, Sequential
<1>6. k \in Keys
  <2>1. Len(rd.chunks) \in Nat
    BY <1>4, ContentTyped, Zenon
  <2>2. 0 \in 0 .. Len(rd.chunks)
    BY <2>1
  <2>3. QED
    BY <2>2, <1>4, ContentTyped, Zenon
<1>7. x \in Reads
  BY <1>3 DEF Reads
<1>8. /\ x.step = "put" /\ x.idx = 0 /\ x.mode = rd.mode /\ x.path = rd.path
      /\ x.off = rd.off /\ x.len = rd.len /\ x.chunks = rd.chunks /\ x.from = rd.from
      /\ x.length = rd.length /\ x.left = rd.left /\ x.got = rd.got
  BY <1>3 DEF Reads
<1>9. Sets(x) = [key |-> k, data |-> rd.got]
  BY <1>8 DEF Sets
<1> HIDE DEF x
<1>10. Asked(x)
  <2>1. AsksOn(x)
    BY <1>3, <1>8 DEF Asked, AsksOn, Needed, Sequential
  <2>2. QED
    BY <2>1, <1>3, <1>4, <1>8 DEF Asked, Sequential, AtChunk
<1>11. Placed(x, r)
  BY <1>2, <1>7, <1>8, <1>10, StaysPlaced
<1>12. ASSUME crashes = 0 PROVE Fresh(k) /\ Relies(x)
  <2>1. Relies(rd)
    BY <1>2, <1>12 DEF IInv, Right
  <2>2. Collected(x)
    BY <2>1, <1>3, <1>8, StaysCollected DEF Relies
  <2>3. QED
    BY <2>1, <2>2, <1>3, <1>4, <1>8 DEF Relies
<1>13. k[1] = rd.path
  OBVIOUS
<1> HIDE DEF k
<1>14. QED
  BY <1>1, <1>2, <1>5, <1>6, <1>8, <1>9, <1>11, <1>12, <1>13, BeginsToSet

\* What a reader that puts goes on with.
LEMMA PutGoesOn ==
    ASSUME Shape, NEW r \in Readers, InStep(r, "put")
    PROVE  LET rd == readers[r]
               x == IF rd.idx = 0
                    THEN Finished("ok", SubSeq(rd.got, rd.off + 1, rd.off + rd.len))
                    ELSE Take(rd, setting.data)
           IN  /\ \/ x.step = "closed"
                  \/ /\ x.step \in {"look", "keep"} /\ Placed(x, r) /\ rd.idx # 0
                     /\ x.path = rd.path /\ x.mode = rd.mode
               /\ Right => /\ x.step # "closed" => Collected(x)
                           /\ x.step = "closed" => x.result = "ok" /\ x.got = Result(rd)
               /\ Right => setting.data = Held(rd.chunks, rd.idx)
               /\ rd.idx # 0 => setting.data = rd.chunks[rd.idx].data
<1> DEFINE rd == readers[r]
           x == IF rd.idx = 0
                THEN Finished("ok", SubSeq(rd.got, rd.off + 1, rd.off + rd.len))
                ELSE Take(rd, setting.data)
<1>1. Reading(r) /\ setting = Sets(rd) /\ rd.step = "put"
  BY OnePuts DEF Reading, InStep
<1>2. rd \in Reads /\ Asked(rd)
  BY <1>1 DEF Shape, Placed
<1>3. Right => Collected(rd)
  BY <1>1 DEF Right, Relies
<1>4. CASE rd.idx = 0
  <2>1. x = Finished("ok", SubSeq(rd.got, rd.off + 1, rd.off + rd.len))
    BY <1>4
  <2> HIDE DEF x
  <2>2. /\ x.step = "closed" /\ x.result = "ok"
        /\ x.got = SubSeq(rd.got, rd.off + 1, rd.off + rd.len)
    BY <2>1 DEF Finished
  <2>3. setting.data = rd.got
    BY <1>1, <1>4 DEF Sets
  <2>4. Right => rd.got = Bytes(rd.chunks)
    <3>1. rd.mode = "whole" /\ rd.left = {} /\ rd.step # "blob"
      BY <1>1, <1>2, <1>4 DEF Asked
    <3>2. QED
      BY <3>1, <1>2, <1>3, WholeIsGot
  <2>5. Right => x.got = Result(rd) /\ setting.data = Held(rd.chunks, rd.idx)
    BY <2>2, <2>3, <2>4, <1>4 DEF Result, Held
  <2>6. QED
    BY <2>2, <2>5, <1>4 DEF x
<1>5. CASE rd.idx # 0
  <2> DEFINE t == Take(rd, rd.chunks[rd.idx].data)
  <2>1. setting.data = rd.chunks[rd.idx].data
    BY <1>1, <1>5 DEF Sets
  <2>2. x = t
    BY <2>1, <1>5
  <2>3. AtChunk(rd) /\ rd.idx \in rd.left
    BY <1>1, <1>2, <1>5 DEF AtChunk, Asked
  <2>4. rd.chunks[rd.idx].data \in Seq(Byte)
    BY <2>3, <1>2, ChunkAtHand, Zenon
  <2>5. \/ t.step = "closed"
        \/ /\ t \in Reads /\ Asked(t) /\ t.step \in {"look", "keep"}
           /\ t.path = rd.path /\ t.chunks = rd.chunks
           /\ t.mode = rd.mode /\ t.off = rd.off /\ t.len = rd.len
    BY <2>3, <2>4, <1>2, TakeAsked, Zenon
  <2>6. Right => /\ t.step # "closed" => Collected(t)
                 /\ t.step = "closed" => t.result = "ok" /\ t.got = Result(rd)
    BY <2>3, <1>2, <1>3, TakeRight, Zenon
  <2> HIDE DEF t, x
  <2>7. t.step # "closed" => Placed(t, r)
    BY <2>5, <1>1, StaysPlaced
  <2>8. setting.data = Held(rd.chunks, rd.idx)
    BY <2>1, <1>5 DEF Held
  <2>9. QED
    BY <2>1, <2>2, <2>5, <2>6, <2>7, <2>8, <1>5 DEF x
<1>6. QED
  BY <1>4, <1>5

LEMMA PutStep ==
    ASSUME IInv, NEW r \in Readers, Put(r)
    PROVE  IInv'
<1> DEFINE next(rd) == IF rd.idx = 0
                       THEN Finished("ok", SubSeq(rd.got, rd.off + 1, rd.off + rd.len))
                       ELSE Take(rd, setting.data)
<1>0. PICK rd, k, x : rd = readers[r] /\ k = setting.key /\ x = next(readers[r])
  OBVIOUS
<1>1. /\ InStep(r, "put") /\ EndOfSet /\ readers' = [readers EXCEPT ![r] = x]
      /\ UNCHANGED <<store, op, crashes>>
  BY <1>0 DEF Put, Set
<1>2. CacheTyped /\ Room /\ Shape /\ failures \in Nat
  BY DEF IInv, Shape
<1>3. /\ Locked /\ setting = Sets(rd) /\ Reading(r)
  BY <1>0, <1>1, <1>2, OnePuts DEF Reading, InStep
<1>4. k = <<rd.path, rd.idx>>
  BY <1>0, <1>3 DEF Sets
<1>5. /\ \/ x.step = "closed"
         \/ /\ x.step \in {"look", "keep"} /\ Placed(x, r) /\ rd.idx # 0
            /\ x.path = rd.path /\ x.mode = rd.mode
      /\ Right => /\ x.step # "closed" => Collected(x)
                  /\ x.step = "closed" => x.result = "ok" /\ x.got = Result(rd)
      /\ Right => setting.data = Held(rd.chunks, rd.idx)
      /\ rd.idx # 0 => setting.data = rd.chunks[rd.idx].data
  BY <1>0, <1>1, <1>2, PutGoesOn, Zenon
<1> HIDE DEF next
<1>6. CacheTyped' /\ Room' /\ ~ Locked' /\ CacheKeeps({k})
  <2>1. CASE SetEnd
    BY <2>1, <1>0, <1>2, SetEndStep, SetEndKeeps
  <2>2. CASE SetFails
    BY <2>2, <1>0, <1>2, SetFailsStep, SetFailsKeeps
  <2>3. QED
    BY <2>1, <2>2, <1>1 DEF EndOfSet
<1>7. Moves(r, x, {k})
  <2>1. \A j \in {k} : j[1] = rd.path
    BY <1>4
  <2>2. x.step # "put"
    BY <1>5
  <2>3. x.step = "closed" \/ Placed(x, r)
    BY <1>5
  <2>4. QED
    BY <2>1, <2>2, <2>3, <1>0, <1>1, <1>3, <1>6 DEF Moves
<1>8. Placed(rd, r) /\ rd \in Reads /\ Asked(rd) /\ AtChunk(rd) = (rd.idx # 0)
  <2>1. Placed(rd, r) /\ rd.step = "put"
    BY <1>0, <1>1, <1>2, <1>3 DEF Shape, InStep
  <2>2. QED
    BY <2>1 DEF Placed, AtChunk
<1>9. rd.idx \in 0 .. Len(rd.chunks) /\ (rd.idx # 0 => rd.idx \in DOMAIN rd.chunks)
  <2>1. Len(rd.chunks) \in Nat /\ DOMAIN rd.chunks = 1 .. Len(rd.chunks)
    BY <1>8, ContentTyped, Zenon DEF Reads
  <2>2. rd.idx # 0 => rd.idx \in rd.left
    BY <1>8 DEF Asked
  <2>3. rd.idx # 0 => rd.idx \in 1 .. Len(rd.chunks)
    BY <2>2, <1>8, ChunkAtHand, Zenon
  <2>4. QED
    BY <2>1, <2>3
<1>10. ASSUME crashes = 0
       PROVE  /\ x.step # "closed" => Relies(x)'
              /\ k \in KeysOf(index') => HeldRight(k)'
  <2>1. Right
    BY <1>10 DEF IInv
  <2>2. ASSUME x.step # "closed" PROVE Relies(x)'
    <3>1. Collected(x) /\ x.step \in {"look", "keep"} /\ x.path = rd.path /\ x.mode = rd.mode
      BY <2>1, <2>2, <1>5
    <3>2. rd.mode = "whole" => Fresh(<<rd.path, 0>>)
      BY <2>1, <1>0, <1>3 DEF Right, Relies
    <3>3. <<rd.path, 0>> \notin {k}
      BY <2>2, <1>4, <1>5
    <3>4. Fresh(<<rd.path, 0>>) => <<rd.path, 0>> \notin KeysOf(index') \ old'
      BY <3>3, <1>6 DEF CacheKeeps, Fresh
    <3>5. QED
      BY <3>1, <3>2, <3>4 DEF Relies, Fresh
  <2>3. ASSUME k \in KeysOf(index') PROVE HeldRight(k)'
    <3>1. CASE SetEnd
      <4>1. files'[k] = setting.data
        BY <3>1, <1>0, <1>2, SetEndStep
      <4>2. files'[k] = Held(rd.chunks, rd.idx)
        BY <4>1, <2>1, <1>5
      <4>3. store[rd.path] # NoEntry /\ store[rd.path].chunks = rd.chunks /\ store' = store
        BY <1>1, <1>8 DEF Placed
      <4>4. k[1] = rd.path /\ k[2] = rd.idx
        BY <1>4
      <4>5. QED
        BY <4>2, <4>3, <4>4, <1>9 DEF HeldRight
    <3>2. CASE SetFails
      <4>1. index' = index
        BY <3>2, <1>2, SetFailsStep
      <4>2. QED
        BY <4>1, <2>1, <2>3, <1>0, <1>3 DEF Right
    <3>3. QED
      BY <3>1, <3>2, <1>1 DEF EndOfSet
  <2>4. QED
    BY <2>2, <2>3
<1>11. failures' \in Nat /\ (failures' = 0 => failures = 0 /\ SetEnd)
  BY <1>1, <1>2 DEF EndOfSet
<1>12. ASSUME failures' = 0
       PROVE  NamedIsThere' /\ (k \in KeysOf(index') => CutAtWorst(k)')
  <2>1. saved' = index' /\ files'[k] = setting.data
    BY <1>0, <1>2, <1>11, <1>12, SetEndStep
  <2>2. NamedIsThere'
    BY <2>1 DEF NamedIsThere
  <2>3. CutAtWorst(k)'
    <3>1. SUFFICES ASSUME rd.idx # 0 PROVE CutAtWorst(k)'
      BY <1>4, <1>9 DEF CutAtWorst
    <3>2. files'[k] = rd.chunks[rd.idx].data
      BY <3>1, <2>1, <1>5
    <3>3. store[rd.path] # NoEntry /\ store[rd.path].chunks = rd.chunks /\ store' = store
      BY <1>1, <1>8 DEF Placed
    <3>4. IsPrefix(files'[k], files'[k])
      <4>1. files'[k] \in Seq(Byte)
        BY <2>1, <1>2, <1>3, LockedTyped
      <4>2. QED
        BY <4>1 DEF IsPrefix
    <3>5. k[1] = rd.path /\ k[2] = rd.idx
      BY <1>4
    <3>6. QED
      BY <3>1, <3>2, <3>3, <3>4, <3>5, <1>9 DEF CutAtWorst
  <2>4. QED
    BY <2>2, <2>3
<1>13. Locked' => setting'.key \notin KeysOf(index')
  BY <1>6
<1>14. crashes = 0 =>
          /\ x.step # "closed" => Relies(x)'
          /\ \A j \in {k} : j \in KeysOf(index') => HeldRight(j)'
          /\ Locked' => setting'.key \notin KeysOf(index')
  BY <1>10, <1>13
<1>15. failures' = 0 =>
          /\ NamedIsThere'
          /\ \A j \in {k} : j \in KeysOf(index') => CutAtWorst(j)'
  BY <1>12
<1>16. QED
  BY <1>7, <1>11, <1>14, <1>15, MovesAll

LEMMA ReaderSteps ==
    ASSUME IInv, NEW r \in Readers, ReaderStep(r)
    PROVE  IInv'
  BY ReadBlobStep, LookStep, ReadChunkStep, FetchStep, FetchFailsStep, KeepWholeStep, PutStep
     DEF ReaderStep

----------------------------------------------------------------------------
(* The steps of the others, which no reader takes part in.                 *)

StoreTyped == store \in [Paths -> {NoEntry} \cup Whole]

\* Somebody else changes the cache at the keys K, and nothing that is read.
Others(K) ==
    /\ readers' = readers /\ crashes' = crashes
    /\ CacheTyped' /\ Room' /\ CacheKeeps(K) /\ OpShape' /\ StoreTyped'
    /\ \A r \in Readers : Reading(r) =>
        /\ store'[readers[r].path] = store[readers[r].path]
        /\ \A arg \in InOp' : ~ Under(readers[r].path, arg)
        /\ \A k \in K : k[1] # readers[r].path
    /\ \A r \in Readers : InStep(r, "put") => Locked' /\ setting' = setting
    /\ Locked' => OpPuts' \/ \E r \in Readers : InStep(r, "put")

LEMMA OthersShape ==
    ASSUME Shape, NEW K, Others(K), failures' \in Nat
    PROVE  Shape'
<1>1. /\ readers' = readers /\ crashes' = crashes /\ OpShape' /\ StoreTyped'
      /\ \A r \in Readers : Reading(r) =>
            /\ store'[readers[r].path] = store[readers[r].path]
            /\ \A arg \in InOp' : ~ Under(readers[r].path, arg)
      /\ \A r \in Readers : InStep(r, "put") => Locked' /\ setting' = setting
      /\ Locked' => OpPuts' \/ \E r \in Readers : InStep(r, "put")
  BY DEF Others
<1>2. ASSUME NEW r \in Readers, Reading(r)' PROVE Placed(readers[r], r)'
  <2>1. Reading(r) /\ Placed(readers[r], r)
    BY <1>1, <1>2 DEF Reading, InStep, Shape
  <2>2. /\ store'[readers[r].path] = store[readers[r].path]
        /\ \A arg \in InOp' : ~ Under(readers[r].path, arg)
    BY <1>1, <2>1
  <2>3. QED
    BY <1>1, <2>1, <2>2 DEF Placed, Reading, InStep
<1>3. ASSUME NEW r \in Readers PROVE Putting(r)'
  BY <1>1 DEF Putting, InStep, Shape
<1>4. readers' = [r \in Readers |-> readers'[r]] /\ crashes' \in Nat
  BY <1>1 DEF Shape
<1>5. Locked' => OpPuts' \/ \E r \in Readers : InStep(r, "put")'
  BY <1>1 DEF InStep
<1>6. QED
  BY <1>1, <1>2, <1>3, <1>4, <1>5 DEF Shape, StoreTyped

LEMMA OthersRelies ==
    ASSUME Shape, NEW K, Others(K), NEW r \in Readers, Reading(r)', Relies(readers[r])
    PROVE  Relies(readers[r])'
<1> DEFINE p == readers[r].path
<1>1. Reading(r) /\ readers' = readers /\ CacheKeeps(K) /\ CacheTyped'
  BY DEF Others, Reading, InStep
<1>2. \A k \in K : k[1] # p
  BY <1>1 DEF Others
<1>3. \A i : <<p, i>> \notin K
  BY <1>2
<1>4. \A i : <<p, i>> \notin KeysOf(index) \ old => <<p, i>> \notin KeysOf(index') \ old'
  BY <1>1, <1>3 DEF CacheKeeps
<1>5. ASSUME NEW i, <<p, i>> \in DOMAIN files => <<p, i>> \in KeysOf(index)
      PROVE  <<p, i>> \in DOMAIN files' => <<p, i>> \in KeysOf(index')
  BY <1>1, <1>3, <1>5 DEF CacheKeeps, FilesKept
<1>6. QED
  BY <1>1, <1>4, <1>5 DEF Relies, Fresh, Known

LEMMA OthersAll ==
    ASSUME IInv, NEW K, Others(K), Cleared',
           failures' \in Nat, failures' = 0 => failures = 0,
           crashes = 0 =>
                /\ Locked' => setting'.key \notin KeysOf(index')
                /\ \A k \in KeysOf(index') : HeldRight(k)' \/ (Blob(k)' /\ OldIs(files[k])')
                /\ OpPuts' => OldIs(setting.data)',
           failures' = 0 => NamedIsThere' /\ \A k \in KeysOf(index') : CutAtWorst(k)'
    PROVE  IInv'
<1>1. /\ CacheTyped' /\ Room' /\ crashes' = crashes /\ Shape
  BY DEF Others, IInv
<1>2. Shape'
  BY <1>1, OthersShape
<1>3. ASSUME crashes' = 0 PROVE Right'
  <2>1. \A r \in Readers : Reading(r)' => Relies(readers[r])'
    <3>1. SUFFICES ASSUME NEW r \in Readers, Reading(r)' PROVE Relies(readers[r])'
      OBVIOUS
    <3>2. Reading(r)
      BY <3>1 DEF Others, Reading, InStep
    <3>3. Relies(readers[r])
      BY <3>2, <1>1, <1>3 DEF IInv, Right
    <3>4. QED
      BY <3>1, <3>3, <1>1, OthersRelies
  <2>2. QED
    BY <2>1, <1>1, <1>3 DEF Right
<1>4. QED
  BY <1>1, <1>2, <1>3 DEF IInv, Torn

\* What is kept in the cache is still right for an entry that stays.
LEMMA KeptRight ==
    ASSUME CacheTyped', NEW K, CacheKeeps(K), NEW k \in KeysOf(index'), k \notin K
    PROVE  /\ k \in KeysOf(index) /\ k \in Keys
           /\ store'[k[1]] = store[k[1]] => /\ HeldRight(k) => HeldRight(k)'
                                            /\ CutAtWorst(k) => CutAtWorst(k)'
<1>1. k \in KeysOf(index) /\ files'[k] = files[k]
  BY KeptKeys
<1>2. k \in Keys
  BY DEF CacheTyped
<1>3. QED
  BY <1>1, <1>2 DEF HeldRight, CutAtWorst

\* What is deleted from the index is deleted from index.json and the directory.
LEMMA DeletedNamed ==
    ASSUME CacheTyped, Room, NamedIsThere, NEW K, DeleteKeys(K)
    PROVE  NamedIsThere'
<1>1. /\ saved' = index' \/ (saved' = saved /\ index' = index)
      /\ ~ Locked
      /\ DOMAIN files' = DOMAIN files \ (KeysOf(index) \ KeysOf(index'))
  BY DeleteKeysStep
<1>2. QED
  BY <1>1 DEF NamedIsThere

LEMMA CacheStays ==
    ASSUME CacheTyped, Room, UNCHANGED cacheVars
    PROVE  /\ CacheTyped' /\ Room' /\ CacheKeeps({})
           /\ index' = index /\ files' = files /\ setting' = setting /\ Locked' = Locked
           /\ NamedIsThere => NamedIsThere'
<1>1. /\ index' = index /\ old' = old /\ files' = files /\ saved' = saved
      /\ setting' = setting
  BY DEF cacheVars
<1>2. CacheTyped' /\ Room' /\ Locked' = Locked
  BY <1>1 DEF CacheTyped, Room, Locked
<1>3. NamedIsThere => NamedIsThere'
  BY <1>1, <1>2 DEF NamedIsThere
<1>4. QED
  BY <1>1, <1>2, <1>3, UnchangedKeeps

LEMMA RemoveBeginStep ==
    ASSUME IInv, NEW arg \in Args, Free(arg), RemoveBegin(arg)
    PROVE  IInv'
<1> DEFINE o == [kind |-> "remove", step |-> "itself", old |-> arg, new |-> arg]
<1>1. /\ op = NoOp /\ op' = o
      /\ UNCHANGED <<cacheVars, store, readers, crashes, failures>>
  BY DEF RemoveBegin
<1>2. CacheTyped /\ Room /\ Shape /\ failures \in Nat
  BY DEF IInv, Shape
<1>3. /\ CacheTyped' /\ Room' /\ CacheKeeps({})
      /\ index' = index /\ files' = files /\ setting' = setting /\ Locked' = Locked
      /\ NamedIsThere => NamedIsThere'
  BY <1>1, <1>2, CacheStays
<1>4. o \in Op /\ o # NoOp
  <2>1. o \in Op
    BY DEF Op, Given
  <2>2. QED
    BY <2>1, NoneAssumption
<1>5. /\ op' \in Op /\ op' # NoOp /\ op'.kind = "remove" /\ op'.step = "itself"
      /\ op'.old = arg /\ op'.new = arg
  BY <1>1, <1>4
<1> HIDE DEF o
<1>6. OpShape'
  BY <1>5 DEF OpShape
<1>7. Others({})
  <2>1. StoreTyped'
    BY <1>1, <1>2 DEF StoreTyped, Shape
  <2>2. \A r \in Readers : InStep(r, "put") => Locked' /\ setting' = setting
    BY <1>2, <1>3, OnePuts
  <2>3. Locked' => \E r \in Readers : InStep(r, "put")
    BY <1>1, <1>2, <1>3 DEF Shape, OpPuts
  <2>4. InOp' = {arg}
    BY <1>5 DEF InOp
  <2>5. \A r \in Readers : Reading(r) => ~ Under(readers[r].path, arg)
    BY DEF Free, InUse, Reading
  <2>6. QED
    BY <2>1, <2>2, <2>3, <2>4, <2>5, <1>1, <1>3, <1>6 DEF Others
<1>8. Cleared' /\ ~ OpPuts'
  BY <1>5 DEF Cleared, Swept, OpPuts
<1>9. ASSUME crashes = 0
      PROVE  /\ Locked' => setting'.key \notin KeysOf(index')
             /\ \A k \in KeysOf(index') : HeldRight(k)'
  <2>1. Right
    BY <1>9 DEF IInv
  <2>2. ASSUME NEW k \in KeysOf(index') PROVE HeldRight(k)'
    <3>1. HeldRight(k)
      BY <2>1, <2>2, <1>1, <1>3 DEF Right, Blob
    <3>2. QED
      BY <3>1, <2>2, <1>1, <1>3, KeptRight
  <2>3. QED
    BY <2>1, <2>2, <1>3 DEF Right
<1>10. ASSUME failures' = 0 PROVE NamedIsThere' /\ \A k \in KeysOf(index') : CutAtWorst(k)'
  <2>1. Torn
    BY <1>1, <1>10 DEF IInv
  <2>2. ASSUME NEW k \in KeysOf(index') PROVE CutAtWorst(k)'
    BY <2>1, <2>2, <1>1, <1>3, KeptRight DEF Torn
  <2>3. QED
    BY <2>1, <2>2, <1>3 DEF Torn
<1>11. QED
  BY <1>1, <1>2, <1>7, <1>8, <1>9, <1>10, OthersAll

LEMMA KeyTyped ==
    ASSUME CacheTyped, NEW k \in KeysOf(index)
    PROVE  k \in Keys /\ k[1] \in Paths /\ k[1] \in Seq(Names)
<1>1. k \in Keys
  BY DEF CacheTyped
<1>2. k \in Paths \X Nat
  BY <1>1, KeysAssumption
<1>3. QED
  BY <1>1, <1>2, PathsAssumption

LEMMA ArgsAreClean ==
    ASSUME NEW arg \in Args
    PROVE  Clean(arg) = arg
<1>1. arg \in Seq(Names) /\ Slash \notin Names
  BY PathsAssumption
<1>2. arg # <<>> => Head(arg) \in Names
  BY <1>1
<1>3. QED
  BY <1>1, <1>2 DEF Clean

\* The entries that are not in op.old go on being there.
LEMMA RemoveEndStep ==
    ASSUME IInv, RemoveEnd
    PROVE  IInv'
<1>1. /\ op # NoOp /\ op.kind = "remove" /\ op.step = "store"
      /\ store' = [p \in Paths |-> IF Under(p, op.old) THEN NoEntry ELSE store[p]]
      /\ op' = NoOp
      /\ UNCHANGED <<cacheVars, readers, crashes, failures>>
  <2>1. op # NoOp
    BY DEF RemoveEnd
  <2>2. op.old \in Args
    BY <2>1 DEF IInv, Shape, OpShape
  <2>3. Clean(op.old) = op.old
    BY <2>2, ArgsAreClean
  <2>4. QED
    BY <2>3 DEF RemoveEnd
<1>2. CacheTyped /\ Room /\ Shape /\ Cleared /\ failures \in Nat
  BY DEF IInv, Shape
<1>3. /\ CacheTyped' /\ Room' /\ CacheKeeps({})
      /\ index' = index /\ files' = files /\ setting' = setting /\ Locked' = Locked
      /\ NamedIsThere => NamedIsThere'
  BY <1>1, <1>2, CacheStays
<1>4. op.old \in InOp
  BY <1>1 DEF InOp
<1>5. \A p \in Paths : ~ Under(p, op.old) => store'[p] = store[p]
  BY <1>1
<1>6. ASSUME NEW k \in KeysOf(index) PROVE store'[k[1]] = store[k[1]]
  <2>1. k[1] \in Paths
    BY <1>2, KeyTyped
  <2>2. ~ Under(k[1], op.old)
    BY <1>1, <1>2, <1>4 DEF Cleared, Swept
  <2>3. QED
    BY <2>1, <2>2, <1>5
<1>7. Others({})
  <2>1. StoreTyped'
    BY <1>1, <1>2 DEF StoreTyped, Shape
  <2>2. OpShape' /\ InOp' = {}
    BY <1>1 DEF OpShape, InOp
  <2>3. ASSUME NEW r \in Readers, Reading(r)
        PROVE  store'[readers[r].path] = store[readers[r].path]
    <3>1. readers[r].path \in Paths /\ ~ Under(readers[r].path, op.old)
      BY <2>3, <1>2, <1>4 DEF Shape, Placed, Reads
    <3>2. QED
      BY <3>1, <1>5
  <2>4. \A r \in Readers : InStep(r, "put") => Locked' /\ setting' = setting
    BY <1>2, <1>3, OnePuts
  <2>5. Locked' => \E r \in Readers : InStep(r, "put")
    BY <1>1, <1>2, <1>3 DEF Shape, OpPuts
  <2>6. QED
    BY <2>1, <2>2, <2>3, <2>4, <2>5, <1>1, <1>3 DEF Others
<1>8. Cleared' /\ ~ OpPuts'
  BY <1>1 DEF Cleared, OpPuts
<1>9. ASSUME crashes = 0
      PROVE  /\ Locked' => setting'.key \notin KeysOf(index')
             /\ \A k \in KeysOf(index') : HeldRight(k)'
  <2>1. Right
    BY <1>9 DEF IInv
  <2>2. ASSUME NEW k \in KeysOf(index') PROVE HeldRight(k)'
    <3>1. HeldRight(k)
      BY <2>1, <2>2, <1>1, <1>3 DEF Right, Blob
    <3>2. QED
      BY <3>1, <2>2, <1>3, <1>6, KeptRight
  <2>3. QED
    BY <2>1, <2>2, <1>3 DEF Right
<1>10. ASSUME failures' = 0 PROVE NamedIsThere' /\ \A k \in KeysOf(index') : CutAtWorst(k)'
  <2>1. Torn
    BY <1>1, <1>10 DEF IInv
  <2>2. ASSUME NEW k \in KeysOf(index') PROVE CutAtWorst(k)'
    BY <2>1, <2>2, <1>3, <1>6, KeptRight DEF Torn
  <2>3. QED
    BY <2>1, <2>2, <1>3 DEF Torn
<1>11. QED
  BY <1>1, <1>2, <1>7, <1>8, <1>9, <1>10, OthersAll

\* Where a rename leads to, something has been: the path of the new key.
LEMMA RenameTo ==
    ASSUME Shape, NEW a \in Args, NEW b \in Args, Len(a) = Len(b), ~ Empty(a), a \in Paths
    PROVE  b \in Paths /\ <<b, 0>> \in Keys
<1>1. a \in Seq(Names) /\ b \in Seq(Names)
  BY PathsAssumption
<1>2. b \in Paths
  <2>1. Under(a, a)
    BY <1>1, UnderItself
  <2>2. b \o SubSeq(a, Len(a) + 1, Len(a)) \in Paths
    BY <2>1, PathsAssumption
  <2>3. SubSeq(a, Len(a) + 1, Len(a)) = <<>>
    BY <1>1
  <2>4. b \o <<>> = b
    BY <1>1
  <2>5. QED
    BY <2>2, <2>3, <2>4
<1>3. PICK p \in Paths : store[p] # NoEntry
  BY DEF Empty
<1>4. store[p].chunks \in Contents
  BY <1>3 DEF Shape, Whole
<1>5. Len(store[p].chunks) \in Nat
  BY <1>4, ContentTyped, Zenon
<1>6. 0 \in 0 .. Len(store[p].chunks)
  BY <1>5
<1>7. QED
  BY <1>2, <1>4, <1>6, ContentTyped, Zenon

LEMMA RenameBeginShape ==
    ASSUME Shape, NEW a \in Args, NEW b \in Args, Len(a) = Len(b), ~ Empty(a), Empty(b),
           store' = store, NEW step \in {"put", "itself"},
           op' = [kind |-> "rename", step |-> step, old |-> a, new |-> b],
           step = "put" => Locked' /\ setting'.key = <<b, 0>>
    PROVE  /\ op' # NoOp /\ op'.kind = "rename" /\ op'.step = step /\ op'.old = a /\ op'.new = b
           /\ OpShape' /\ InOp' = {a, b}
<1> DEFINE o == [kind |-> "rename", step |-> step, old |-> a, new |-> b]
<1>1. o \in Op
  BY DEF Op, Given
<1>2. o # NoOp
  BY <1>1, NoneAssumption
<1>3. /\ op' \in Op /\ op' # NoOp /\ op'.kind = "rename" /\ op'.step = step
      /\ op'.old = a /\ op'.new = b
  BY <1>1, <1>2
<1>4. a # b /\ Empty(b)'
  BY DEF Empty
<1>5. OpShape' /\ InOp' = {a, b}
  BY <1>3, <1>4 DEF OpShape, InOp, Empty
<1>6. QED
  BY <1>3, <1>5

LEMMA RenameBeginStep ==
    ASSUME IInv, NEW a \in Args, NEW b \in Args, Len(a) = Len(b),
           Free(a), ~ Empty(a), Free(b), Empty(b), RenameBegin(a, b)
    PROVE  IInv'
<1>1. /\ op = NoOp /\ UNCHANGED <<store, readers, crashes, failures>>
  BY DEF RenameBegin
<1>2. CacheTyped /\ Room /\ Shape /\ Cleared /\ failures \in Nat
  BY DEF IInv, Shape
<1>3. ASSUME NEW r \in Readers, Reading(r)
      PROVE  ~ Under(readers[r].path, a) /\ ~ Under(readers[r].path, b) /\ readers[r].path # b
  <2>1. ~ Under(readers[r].path, a) /\ ~ Under(readers[r].path, b)
    BY <1>3 DEF Free, InUse, Reading
  <2>2. Under(b, b)
    BY UnderItself, PathsAssumption
  <2>3. QED
    BY <2>1, <2>2
<1>4. StoreTyped'
  BY <1>1, <1>2 DEF StoreTyped, Shape
<1>5. ASSUME crashes = 0, NEW k \in KeysOf(index) PROVE HeldRight(k)
  BY <1>1, <1>5 DEF IInv, Right, Blob
<1>6. ASSUME <<a, 0>> \in KeysOf(index) \ old,
             NEW data \in ReadFile(<<a, 0>>), SetBegin(<<b, 0>>, data),
             op' = [kind |-> "rename", step |-> "put", old |-> a, new |-> b]
      PROVE  IInv'
  <2> DEFINE k == <<b, 0>>
  <2>1. ~ Locked
    BY <1>6 DEF SetBegin
  <2>2. data = files[<<a, 0>>] /\ data \in Seq(Byte)
    BY <2>1, <1>2, <1>6 DEF ReadFile, CacheTyped
  <2>3. a \in Paths /\ k \in Keys
    <3>1. a \in Paths
      BY <1>2, <1>6, KeyTyped
    <3>2. QED
      BY <3>1, <1>2, RenameTo
  <2>4. /\ CacheTyped' /\ Room' /\ Locked'
        /\ setting' = [key |-> k, data |-> data]
        /\ KeysOf(index') \subseteq KeysOf(index) \ old
    BY <2>2, <2>3, <1>2, <1>6, SetBeginStep
  <2>5. CacheKeeps({k})
    BY <2>2, <2>3, <1>2, <1>6, SetBeginKeeps
  <2>6. setting'.key = k /\ setting'.data = data
    BY <2>4
  <2>7. /\ op' # NoOp /\ op'.kind = "rename" /\ op'.step = "put" /\ op'.old = a /\ op'.new = b
        /\ OpShape' /\ InOp' = {a, b}
    BY <2>4, <2>6, <1>1, <1>2, <1>6, RenameBeginShape
  <2>8. Others({k})
    <3>1. OpPuts'
      BY <2>7 DEF OpPuts
    <3>2. \A r \in Readers : ~ InStep(r, "put")
      BY <2>1, <1>2, OnePuts
    <3>3. QED
      BY <3>1, <3>2, <2>4, <2>5, <2>7, <1>1, <1>3, <1>4 DEF Others
  <2>9. Cleared'
    BY <2>7 DEF Cleared, Swept
  <2>10. ASSUME crashes = 0
         PROVE  /\ k \notin KeysOf(index')
                /\ \A j \in KeysOf(index') : HeldRight(j)'
                /\ OldIs(setting.data)'
    <3>1. k \notin KeysOf(index)
      <4>1. SUFFICES ASSUME k \in KeysOf(index) PROVE FALSE
        OBVIOUS
      <4>2. store[b] # NoEntry
        BY <4>1, <1>5, <2>10 DEF HeldRight
      <4>3. Under(b, b)
        BY UnderItself, PathsAssumption
      <4>4. b \in Paths
        BY <1>2, <2>3, RenameTo
      <4>5. QED
        BY <4>2, <4>3, <4>4 DEF Empty
    <3>2. k \notin KeysOf(index')
      BY <3>1, <2>4
    <3>3. ASSUME NEW j \in KeysOf(index') PROVE HeldRight(j)'
      <4>1. HeldRight(j) /\ j \notin {k}
        BY <3>2, <3>3, <2>4, <2>10, <1>5
      <4>2. QED
        BY <4>1, <3>3, <2>4, <2>5, <1>1, KeptRight
    <3>4. HeldRight(<<a, 0>>)
      BY <2>10, <1>5, <1>6
    <3>5. store[a] # NoEntry /\ data = Bytes(store[a].chunks)
      BY <3>4, <2>2 DEF HeldRight, Held
    <3>6. OldIs(setting.data)'
      BY <3>5, <2>3, <2>6, <2>7, <1>1 DEF OldIs
    <3>7. QED
      BY <3>2, <3>3, <3>6
  <2>11. ASSUME failures' = 0 PROVE NamedIsThere' /\ \A j \in KeysOf(index') : CutAtWorst(j)'
    <3>1. Torn
      BY <1>1, <2>11 DEF IInv
    <3>2. NamedIsThere'
      BY <3>1, <2>2, <2>3, <1>2, <1>6, SetBeginNamed DEF Torn
    <3>3. ASSUME NEW j \in KeysOf(index') PROVE CutAtWorst(j)'
      <4>1. CASE j \in {k}
        BY <4>1 DEF CutAtWorst
      <4>2. CASE j \notin {k}
        <5>1. CutAtWorst(j)
          BY <3>1, <3>3, <2>4 DEF Torn
        <5>2. QED
          BY <5>1, <4>2, <3>3, <2>4, <2>5, <1>1, KeptRight
      <4>3. QED
        BY <4>1, <4>2
    <3>4. QED
      BY <3>2, <3>3
  <2> HIDE DEF k
  <2>12. QED
    BY <2>6, <2>8, <2>9, <2>10, <2>11, <1>1, <1>2, OthersAll
<1>7. ASSUME op' = [kind |-> "rename", step |-> "itself", old |-> a, new |-> b],
             UNCHANGED cacheVars
      PROVE  IInv'
  <2>1. /\ CacheTyped' /\ Room' /\ CacheKeeps({})
        /\ index' = index /\ files' = files /\ setting' = setting /\ Locked' = Locked
        /\ NamedIsThere => NamedIsThere'
    BY <1>2, <1>7, CacheStays
  <2>2. /\ op' # NoOp /\ op'.kind = "rename" /\ op'.step = "itself" /\ op'.old = a /\ op'.new = b
        /\ OpShape' /\ InOp' = {a, b}
    BY <1>1, <1>2, <1>7, RenameBeginShape
  <2>3. Others({})
    <3>1. \A r \in Readers : InStep(r, "put") => Locked' /\ setting' = setting
      BY <2>1, <1>2, OnePuts
    <3>2. Locked' => \E r \in Readers : InStep(r, "put")
      BY <2>1, <1>1, <1>2 DEF Shape, OpPuts
    <3>3. QED
      BY <3>1, <3>2, <2>1, <2>2, <1>1, <1>3, <1>4 DEF Others
  <2>4. Cleared' /\ ~ OpPuts'
    BY <2>2 DEF Cleared, Swept, OpPuts
  <2>5. ASSUME crashes = 0
        PROVE  /\ Locked' => setting'.key \notin KeysOf(index')
               /\ \A j \in KeysOf(index') : HeldRight(j)'
    <3>1. Locked' => setting'.key \notin KeysOf(index')
      BY <2>1, <2>5 DEF IInv, Right
    <3>2. ASSUME NEW j \in KeysOf(index') PROVE HeldRight(j)'
      <4>1. HeldRight(j)
        BY <3>2, <2>1, <2>5, <1>5
      <4>2. QED
        BY <4>1, <3>2, <2>1, <1>1, KeptRight
    <3>3. QED
      BY <3>1, <3>2
  <2>6. ASSUME failures' = 0 PROVE NamedIsThere' /\ \A j \in KeysOf(index') : CutAtWorst(j)'
    <3>1. Torn
      BY <1>1, <2>6 DEF IInv
    <3>2. ASSUME NEW j \in KeysOf(index') PROVE CutAtWorst(j)'
      BY <3>1, <3>2, <2>1, <1>1, KeptRight DEF Torn
    <3>3. QED
      BY <3>1, <3>2, <2>1 DEF Torn
  <2>7. QED
    BY <2>3, <2>4, <2>5, <2>6, <1>1, <1>2, OthersAll
<1>8. Key(a, 0) = <<a, 0>> /\ Key(b, 0) = <<b, 0>>
  BY KeyIs DEF IInv
<1>9. QED
  BY <1>6, <1>7, <1>8 DEF RenameBegin

LEMMA RenamePutStep ==
    ASSUME IInv, RenamePut
    PROVE  IInv'
<1>0. PICK k : k = setting.key
  OBVIOUS
<1>1. /\ op # NoOp /\ op.step = "put" /\ EndOfSet /\ op' = [op EXCEPT !.step = "itself"]
      /\ UNCHANGED <<store, readers, crashes>>
  BY DEF RenamePut
<1>2. CacheTyped /\ Room /\ Shape /\ failures \in Nat
  BY DEF IInv, Shape
<1>3. /\ op \in Op /\ Locked /\ k = <<op.new, 0>> /\ OpPuts
      /\ Len(op.old) = Len(op.new) /\ op.old # op.new /\ Empty(op.new) /\ op.kind = "rename"
      /\ op.old \in Args /\ op.new \in Args
  <2>1. op \in Op /\ op.kind # "remove" /\ Locked /\ k = <<op.new, 0>>
    BY <1>0, <1>1, <1>2 DEF Shape, OpShape
  <2>2. op.kind = "rename"
    BY <2>1 DEF Op
  <2>3. QED
    BY <2>1, <2>2, <1>1, <1>2 DEF Shape, OpShape, OpPuts
<1>4. /\ op' \in Op /\ op'.kind = "rename" /\ op'.step = "itself" /\ op'.old = op.old
      /\ op'.new = op.new
  BY <1>1, <1>3 DEF Op
<1>5. op' # NoOp
  BY <1>4, NoneAssumption
<1>6. OpShape' /\ InOp' = InOp
  BY <1>1, <1>3, <1>4, <1>5 DEF OpShape, InOp, Empty
<1>7. CacheTyped' /\ Room' /\ ~ Locked' /\ CacheKeeps({k})
  <2>1. CASE SetEnd
    BY <2>1, <1>0, <1>2, SetEndStep, SetEndKeeps
  <2>2. CASE SetFails
    BY <2>2, <1>0, <1>2, SetFailsStep, SetFailsKeeps
  <2>3. QED
    BY <2>1, <2>2, <1>1 DEF EndOfSet
<1>8. Others({k})
  <2>1. StoreTyped'
    BY <1>1, <1>2 DEF StoreTyped, Shape
  <2>2. \A r \in Readers : ~ InStep(r, "put")
    BY <1>2, <1>3, OnePuts
  <2>3. ASSUME NEW r \in Readers, Reading(r)
        PROVE  /\ \A arg \in InOp : ~ Under(readers[r].path, arg)
               /\ k[1] # readers[r].path
    <3>1. Placed(readers[r], r)
      BY <2>3, <1>2 DEF Shape
    <3>2. readers[r].path \in Seq(Names)
      BY <3>1, PathsAssumption DEF Placed, Reads
    <3>3. Under(readers[r].path, readers[r].path) /\ op.new \in InOp
      BY <3>2, <1>1, UnderItself DEF InOp
    <3>4. QED
      BY <3>1, <3>3, <1>3 DEF Placed
  <2>4. QED
    BY <2>1, <2>2, <2>3, <1>1, <1>6, <1>7 DEF Others
<1>9. Cleared' /\ ~ OpPuts'
  BY <1>4 DEF Cleared, Swept, OpPuts
<1>10. ASSUME crashes = 0, NEW j \in KeysOf(index')
       PROVE  HeldRight(j)' \/ (Blob(j)' /\ OldIs(files[j])')
  <2>1. Right
    BY <1>10 DEF IInv
  <2>2. CASE j \in {k}
    <3>1. CASE SetEnd
      <4>1. files'[j] = setting.data
        BY <3>1, <2>2, <1>0, <1>2, SetEndStep
      <4>2. OldIs(setting.data)
        BY <2>1, <1>3 DEF Right
      <4>3. Blob(j)'
        BY <2>2, <1>3, <1>4, <1>5 DEF Blob
      <4>4. OldIs(files[j])'
        BY <4>1, <4>2, <1>1, <1>4 DEF OldIs
      <4>5. QED
        BY <4>3, <4>4
    <3>2. CASE SetFails
      <4>1. index' = index
        BY <3>2, <1>2, SetFailsStep
      <4>2. QED
        BY <4>1, <2>1, <2>2, <1>0, <1>3, <1>10 DEF Right
    <3>3. QED
      BY <3>1, <3>2, <1>1 DEF EndOfSet
  <2>3. CASE j \notin {k}
    <3>1. j \in KeysOf(index)
      BY <2>3, <1>7, <1>10, KeptRight
    <3>2. HeldRight(j)
      BY <3>1, <2>1, <1>1 DEF Right, Blob
    <3>3. QED
      BY <3>2, <2>3, <1>1, <1>7, <1>10, KeptRight
  <2>4. QED
    BY <2>2, <2>3
<1>11. failures' \in Nat /\ (failures' = 0 => failures = 0 /\ SetEnd)
  BY <1>1, <1>2 DEF EndOfSet
<1>12. ASSUME failures' = 0 PROVE NamedIsThere' /\ \A j \in KeysOf(index') : CutAtWorst(j)'
  <2>1. Torn
    BY <1>11, <1>12 DEF IInv
  <2>2. saved' = index'
    BY <1>2, <1>11, <1>12, SetEndStep
  <2>3. NamedIsThere'
    BY <2>2 DEF NamedIsThere
  <2>4. ASSUME NEW j \in KeysOf(index') PROVE CutAtWorst(j)'
    <3>1. CASE j \in {k}
      BY <3>1, <1>3 DEF CutAtWorst
    <3>2. CASE j \notin {k}
      BY <3>2, <2>1, <2>4, <1>1, <1>7, KeptRight DEF Torn
    <3>3. QED
      BY <3>1, <3>2
  <2>5. QED
    BY <2>3, <2>4
<1>13. QED
  BY <1>1, <1>7, <1>8, <1>9, <1>10, <1>11, <1>12, OthersAll

\* A call that clears keys of the old path, which nobody reads.
LEMMA ClearStep ==
    ASSUME IInv, NEW step, NEW next, NEW K, Clear(step, next, K),
           <<step, next>> \in {<<"itself", "chunks">>, <<"chunks", "inside">>,
                               <<"inside", "store">>},
           \A k \in Keys : Swept(next, k) => Swept(step, k) \/ k \in K
    PROVE  IInv'
<1>1. /\ op # NoOp /\ op.step = step /\ DeleteKeys(K)
      /\ op' = [op EXCEPT !.step = next]
      /\ UNCHANGED <<store, readers, crashes, failures>>
  BY DEF Clear
<1>2. CacheTyped /\ Room /\ Shape /\ Cleared /\ failures \in Nat
  BY DEF IInv, Shape
<1>3. next \in {"chunks", "inside", "store"} /\ step # "put" /\ next # "put"
  OBVIOUS
<1>4. op \in Op /\ OpShape
  BY <1>1, <1>2 DEF Shape, OpShape
<1>5. /\ op' \in Op /\ op'.kind = op.kind /\ op'.step = next /\ op'.old = op.old
      /\ op'.new = op.new
  BY <1>1, <1>3, <1>4 DEF Op
<1>6. op' # NoOp
  BY <1>5, NoneAssumption
<1>7. OpShape' /\ InOp' = InOp
  BY <1>1, <1>3, <1>4, <1>5, <1>6 DEF OpShape, InOp, Empty
<1>8. /\ CacheTyped' /\ Room' /\ ~ Locked /\ ~ Locked'
      /\ KeysOf(index') = KeysOf(index) \ K
  BY <1>1, <1>2, DeleteKeysStep
<1>9. CacheKeeps({})
  BY <1>1, <1>2, DeleteKeysKeeps
<1>10. Others({})
  <2>1. StoreTyped'
    BY <1>1, <1>2 DEF StoreTyped, Shape
  <2>2. \A r \in Readers : ~ InStep(r, "put")
    BY <1>2, <1>8, OnePuts
  <2>3. \A r \in Readers : Reading(r) => \A arg \in InOp : ~ Under(readers[r].path, arg)
    BY <1>2 DEF Shape, Placed
  <2>4. QED
    BY <2>1, <2>2, <2>3, <1>1, <1>7, <1>8, <1>9 DEF Others
<1>11. Cleared'
  <2>1. KeysOf(index') \subseteq Keys
    BY <1>8 DEF CacheTyped
  <2>2. ASSUME NEW k \in KeysOf(index') PROVE ~ Swept(next, k)
    <3>1. k \in Keys /\ k \in KeysOf(index) /\ k \notin K
      BY <2>1, <2>2, <1>8
    <3>2. ~ Swept(step, k)
      BY <3>1, <1>1, <1>2 DEF Cleared
    <3>3. QED
      BY <3>1, <3>2
  <2>3. \A k : Swept(next, k)' = Swept(next, k)
    BY <1>5 DEF Swept
  <2>4. QED
    BY <2>2, <2>3, <1>5 DEF Cleared, Swept
<1>12. ASSUME crashes = 0, NEW k \in KeysOf(index')
       PROVE  HeldRight(k)' \/ (Blob(k)' /\ OldIs(files[k])')
  <2>1. k \in KeysOf(index) /\ files'[k] = files[k]
    BY <1>8, <1>9, <1>12, KeptKeys
  <2>2. HeldRight(k) \/ (Blob(k) /\ OldIs(files[k]))
    BY <2>1, <1>12 DEF IInv, Right
  <2>3. CASE HeldRight(k)
    BY <2>3, <1>1, <1>8, <1>9, <1>12, KeptRight
  <2>4. CASE Blob(k) /\ OldIs(files[k])
    BY <2>1, <2>4, <1>1, <1>3, <1>5, <1>6 DEF Blob, OldIs
  <2>5. QED
    BY <2>2, <2>3, <2>4
<1>13. ASSUME failures' = 0 PROVE NamedIsThere' /\ \A k \in KeysOf(index') : CutAtWorst(k)'
  <2>1. Torn
    BY <1>1, <1>13 DEF IInv
  <2>2. NamedIsThere'
    BY <2>1, <1>1, <1>2, DeletedNamed DEF Torn
  <2>3. ASSUME NEW k \in KeysOf(index') PROVE CutAtWorst(k)'
    <3>1. CutAtWorst(k)
      BY <2>1, <2>3, <1>8 DEF Torn
    <3>2. QED
      BY <3>1, <2>3, <1>1, <1>8, <1>9, KeptRight
  <2>4. QED
    BY <2>2, <2>3
<1>14. ~ OpPuts'
  BY <1>3, <1>5 DEF OpPuts
<1>15. QED
  BY <1>1, <1>2, <1>8, <1>10, <1>11, <1>12, <1>13, <1>14, OthersAll

\* The three calls, of which the last leaves nothing.
LEMMA ClearSteps ==
    ASSUME IInv, ClearItself \/ ClearChunks \/ ClearInside
    PROVE  IInv'
<1>1. \A k \in Keys : k = <<k[1], k[2]>> /\ k[2] \in Nat
  BY KeysAssumption
<1>2. CASE ClearItself
  <2>1. Clear("itself", "chunks", Itself(op.old))
    BY <1>2 DEF ClearItself
  <2>2. Itself(op.old) = {<<op.old, 0>>}
    BY KeyIs DEF Itself, IInv
  <2>3. \A k \in Keys : Swept("chunks", k) => Swept("itself", k) \/ k \in Itself(op.old)
    BY <2>2, <1>1 DEF Swept
  <2>4. QED
    BY <2>1, <2>3, ClearStep
<1>3. CASE ClearChunks
  <2>1. Clear("chunks", "inside", ChunksOf(op.old))
    BY <1>3 DEF ClearChunks
  <2>2. \A k \in Keys : Swept("inside", k) => Swept("chunks", k) \/ k \in ChunksOf(op.old)
    BY <1>1 DEF Swept, ChunksOf
  <2>3. QED
    BY <2>1, <2>2, ClearStep
<1>4. CASE ClearInside
  <2>1. Clear("inside", "store", Inside(op.old))
    BY <1>4 DEF ClearInside
  <2>2. \A k \in Keys : Swept("store", k) => Swept("inside", k) \/ k \in Inside(op.old)
    BY DEF Swept, Inside
  <2>3. QED
    BY <2>1, <2>2, ClearStep
<1>5. QED
  BY <1>2, <1>3, <1>4

\* The entries as RenameFile leaves them: those of the old path are at the new
\* one, and what is in neither stays.
LEMMA RenamedStore ==
    ASSUME StoreTyped, op.old \in Args, op.new \in Args, Len(op.old) = Len(op.new),
           store' = [q \in Paths |->
                    IF \E p \in Paths : Under(p, op.old) /\ Moved(p) = q
                    THEN store[CHOOSE p \in Paths : Under(p, op.old) /\ Moved(p) = q]
                    ELSE IF Under(q, op.old) THEN NoEntry
                    ELSE store[q]]
    PROVE  /\ StoreTyped'
           /\ \A q \in Paths : ~ Under(q, op.old) /\ ~ Under(q, op.new) => store'[q] = store[q]
           /\ op.old \in Paths /\ op.new \in Paths => store'[op.new] = store[op.old]
<1> DEFINE To(p, q) == p \in Paths /\ Under(p, op.old) /\ Moved(p) = q
           From(q) == CHOOSE p \in Paths : Under(p, op.old) /\ Moved(p) = q
<1>1. \A q \in Paths : store'[q] = IF \E p : To(p, q) THEN store[From(q)]
                                   ELSE IF Under(q, op.old) THEN NoEntry
                                   ELSE store[q]
  OBVIOUS
<1>2. ASSUME NEW q \in Paths, \E p : To(p, q) PROVE To(From(q), q)
  BY <1>2
<1>3. /\ op.old \in Seq(Names) /\ op.new \in Seq(Names) /\ Paths \subseteq Seq(Names)
  BY PathsAssumption
<1>4. ASSUME NEW p, NEW q, To(p, q)
      PROVE  Under(q, op.new) /\ (q = op.new => p = op.old)
  BY <1>3, <1>4, MovedUnder DEF Moved
<1>5. op.old \in Paths => To(op.old, op.new)
  BY <1>3, UnderItself, MovedUnder DEF Moved
<1>6. store' = [q \in Paths |-> store'[q]]
  OBVIOUS
<1> HIDE DEF To, From
<1>7. StoreTyped'
  <2>1. ASSUME NEW q \in Paths PROVE store'[q] \in {NoEntry} \cup Whole
    <3>1. CASE \E p : To(p, q)
      <4>1. From(q) \in Paths
        BY <3>1, <1>2 DEF To
      <4>2. QED
        BY <3>1, <4>1, <1>1 DEF StoreTyped
    <3>2. CASE ~ \E p : To(p, q)
      BY <3>2, <1>1 DEF StoreTyped
    <3>3. QED
      BY <3>1, <3>2
  <2>2. QED
    BY <2>1, <1>6 DEF StoreTyped
<1>8. \A q \in Paths : ~ Under(q, op.old) /\ ~ Under(q, op.new) => store'[q] = store[q]
  BY <1>1, <1>4
<1>9. ASSUME op.old \in Paths, op.new \in Paths PROVE store'[op.new] = store[op.old]
  <2>1. To(From(op.new), op.new)
    BY <1>2, <1>5, <1>9
  <2>2. From(op.new) = op.old
    BY <2>1, <1>4
  <2>3. QED
    BY <2>1, <2>2, <1>1, <1>9
<1>10. QED
  BY <1>7, <1>8, <1>9

LEMMA RenameEndStep ==
    ASSUME IInv, RenameEnd
    PROVE  IInv'
<1>1. /\ op # NoOp /\ op.kind = "rename" /\ op.step = "store" /\ op' = NoOp
      /\ UNCHANGED <<cacheVars, readers, crashes, failures>>
  BY DEF RenameEnd
<1>2. CacheTyped /\ Room /\ Shape /\ Cleared /\ failures \in Nat
  BY DEF IInv, Shape
<1>3. /\ CacheTyped' /\ Room' /\ CacheKeeps({})
      /\ index' = index /\ files' = files /\ setting' = setting /\ Locked' = Locked
      /\ NamedIsThere => NamedIsThere'
  BY <1>1, <1>2, CacheStays
<1>4. /\ op \in Op /\ Len(op.old) = Len(op.new) /\ Empty(op.new) /\ StoreTyped
      /\ op.old \in InOp /\ op.new \in InOp /\ op.old \in Args /\ op.new \in Args
  BY <1>1, <1>2 DEF Shape, OpShape, InOp, StoreTyped
<1>5. /\ StoreTyped'
      /\ \A q \in Paths : ~ Under(q, op.old) /\ ~ Under(q, op.new) => store'[q] = store[q]
      /\ op.old \in Paths /\ op.new \in Paths => store'[op.new] = store[op.old]
  BY <1>4, RenamedStore DEF RenameEnd
<1>6. ASSUME NEW k \in KeysOf(index), store[k[1]] # NoEntry PROVE store'[k[1]] = store[k[1]]
  <2>1. k[1] \in Paths
    BY <1>2, KeyTyped
  <2>2. ~ Under(k[1], op.old)
    BY <1>1, <1>2, <1>4 DEF Cleared, Swept
  <2>3. ~ Under(k[1], op.new)
    BY <2>1, <1>4, <1>6 DEF Empty
  <2>4. QED
    BY <2>1, <2>2, <2>3, <1>5
<1>7. Others({})
  <2>1. OpShape' /\ InOp' = {}
    BY <1>1 DEF OpShape, InOp
  <2>2. ASSUME NEW r \in Readers, Reading(r)
        PROVE  store'[readers[r].path] = store[readers[r].path]
    <3>1. Placed(readers[r], r)
      BY <2>2, <1>2 DEF Shape
    <3>2. /\ readers[r].path \in Paths
          /\ ~ Under(readers[r].path, op.old) /\ ~ Under(readers[r].path, op.new)
      BY <3>1, <1>4 DEF Placed, Reads
    <3>3. QED
      BY <3>2, <1>5
  <2>3. \A r \in Readers : InStep(r, "put") => Locked' /\ setting' = setting
    BY <1>2, <1>3, OnePuts
  <2>4. Locked' => \E r \in Readers : InStep(r, "put")
    BY <1>1, <1>2, <1>3 DEF Shape, OpPuts
  <2>5. QED
    BY <2>1, <2>2, <2>3, <2>4, <1>1, <1>3, <1>5 DEF Others
<1>8. Cleared' /\ ~ OpPuts'
  BY <1>1 DEF Cleared, OpPuts
<1>9. ASSUME crashes = 0
      PROVE  /\ Locked' => setting'.key \notin KeysOf(index')
             /\ \A k \in KeysOf(index') : HeldRight(k)'
  <2>1. Right
    BY <1>9 DEF IInv
  <2>2. ASSUME NEW k \in KeysOf(index') PROVE HeldRight(k)'
    <3>1. k \in KeysOf(index)
      BY <2>2, <1>3
    <3>2. CASE HeldRight(k)
      <4>1. store'[k[1]] = store[k[1]]
        BY <3>1, <3>2, <1>6 DEF HeldRight
      <4>2. QED
        BY <4>1, <3>2, <2>2, <1>3, KeptRight
    <3>3. CASE Blob(k) /\ OldIs(files[k])
      <4>1. k = <<op.new, 0>> /\ op.old \in Paths /\ store[op.old] # NoEntry
            /\ files[k] = Bytes(store[op.old].chunks)
        BY <3>3 DEF Blob, OldIs
      <4>2. op.new \in Paths
        BY <3>1, <4>1, <1>2, KeyTyped
      <4>3. store'[op.new] = store[op.old]
        BY <4>1, <4>2, <1>5
      <4>4. store[op.old].chunks \in Contents
        BY <4>1, <1>4 DEF StoreTyped, Whole
      <4>5. Len(store[op.old].chunks) \in Nat
        BY <4>4, ContentTyped, Zenon
      <4>6. 0 \in 0 .. Len(store[op.old].chunks)
        BY <4>5
      <4>7. QED
        BY <4>1, <4>3, <4>6, <1>3 DEF HeldRight, Held
    <3>4. QED
      BY <3>1, <3>2, <3>3, <2>1 DEF Right
  <2>3. QED
    BY <2>1, <2>2, <1>3 DEF Right
<1>10. ASSUME failures' = 0 PROVE NamedIsThere' /\ \A k \in KeysOf(index') : CutAtWorst(k)'
  <2>1. Torn
    BY <1>1, <1>10 DEF IInv
  <2>2. ASSUME NEW k \in KeysOf(index') PROVE CutAtWorst(k)'
    <3>1. CASE k[2] > 0
      <4>1. CutAtWorst(k) /\ k \in KeysOf(index)
        BY <2>1, <2>2, <1>3 DEF Torn
      <4>2. store'[k[1]] = store[k[1]]
        BY <3>1, <4>1, <1>6 DEF CutAtWorst
      <4>3. QED
        BY <4>1, <4>2, <2>2, <1>3, KeptRight
    <3>2. CASE ~ (k[2] > 0)
      BY <3>2 DEF CutAtWorst
    <3>3. QED
      BY <3>1, <3>2
  <2>3. QED
    BY <2>1, <2>2, <1>3 DEF Torn
<1>11. QED
  BY <1>1, <1>2, <1>7, <1>8, <1>9, <1>10, OthersAll

LEMMA PublishStep ==
    ASSUME IInv, NEW p \in Paths, NEW s \in Sources, NEW c \in ChunkSizes,
           Free(p), Empty(p), Publish(p, s, c)
    PROVE  IInv'
<1> DEFINE e == [incomplete |-> FALSE, chunks |-> Chunks(s, c)]
<1>1. /\ store' = [store EXCEPT ![p] = e]
      /\ UNCHANGED <<cacheVars, readers, op, crashes, failures>>
  BY DEF Publish
<1>2. CacheTyped /\ Room /\ Shape /\ Cleared /\ failures \in Nat
  BY DEF IInv, Shape
<1>3. /\ CacheTyped' /\ Room' /\ CacheKeeps({})
      /\ index' = index /\ files' = files /\ setting' = setting /\ Locked' = Locked
      /\ NamedIsThere => NamedIsThere'
  BY <1>1, <1>2, CacheStays
<1>4. e \in Whole
  BY DEF Whole, Contents
<1> HIDE DEF e
<1>5. StoreTyped'
  BY <1>1, <1>2, <1>4 DEF StoreTyped, Shape
<1>6. \A q \in Paths : q # p => store'[q] = store[q]
  BY <1>1, <1>2 DEF Shape
<1>7. store[p] = NoEntry
  <2>1. Under(p, p)
    BY UnderItself, PathsAssumption
  <2>2. QED
    BY <2>1 DEF Empty
<1>8. OpShape'
  <2>1. SUFFICES ASSUME op # NoOp PROVE OpShape'
    BY <1>1 DEF OpShape
  <2>2. Empty(op.new) => Empty(op.new)'
    <3>1. ~ Under(p, op.new)
      BY <2>1 DEF Free, InOp
    <3>2. QED
      BY <3>1, <1>1, <1>6 DEF Empty
  <2>3. OpShape
    BY <1>2 DEF Shape
  <2>4. QED
    BY <2>2, <2>3, <1>1, <1>3 DEF OpShape
<1>9. Others({})
  <2>1. ASSUME NEW r \in Readers, Reading(r)
        PROVE  /\ store'[readers[r].path] = store[readers[r].path]
               /\ \A arg \in InOp' : ~ Under(readers[r].path, arg)
    <3>1. Placed(readers[r], r)
      BY <2>1, <1>2 DEF Shape
    <3>2. readers[r].path \in Paths /\ readers[r].path # p
      BY <3>1, <1>7 DEF Placed, Reads
    <3>3. QED
      BY <3>1, <3>2, <1>1, <1>6 DEF Placed, InOp
  <2>2. \A r \in Readers : InStep(r, "put") => Locked' /\ setting' = setting
    BY <1>2, <1>3, OnePuts
  <2>3. Locked' => OpPuts' \/ \E r \in Readers : InStep(r, "put")
    BY <1>1, <1>2, <1>3 DEF Shape, OpPuts
  <2>4. QED
    BY <2>1, <2>2, <2>3, <1>1, <1>3, <1>5, <1>8 DEF Others
<1>10. Cleared'
  BY <1>1, <1>2, <1>3 DEF Cleared, Swept
<1>11. ASSUME NEW k \in KeysOf(index), store[k[1]] # NoEntry PROVE store'[k[1]] = store[k[1]]
  BY <1>2, <1>6, <1>7, <1>11, KeyTyped
<1>12. ASSUME crashes = 0
       PROVE  /\ Locked' => setting'.key \notin KeysOf(index')
              /\ \A k \in KeysOf(index') : HeldRight(k)' \/ (Blob(k)' /\ OldIs(files[k])')
              /\ OpPuts' => OldIs(setting.data)'
  <2>1. Right
    BY <1>12 DEF IInv
  <2>2. ASSUME NEW data, OldIs(data)
        PROVE  /\ op.old \in Paths /\ store'[op.old] = store[op.old]
    BY <2>2, <1>6, <1>7 DEF OldIs
  <2>3. ASSUME NEW k \in KeysOf(index') PROVE HeldRight(k)' \/ (Blob(k)' /\ OldIs(files[k])')
    <3>1. k \in KeysOf(index)
      BY <2>3, <1>3
    <3>2. CASE HeldRight(k)
      <4>1. store'[k[1]] = store[k[1]]
        BY <3>1, <3>2, <1>11 DEF HeldRight
      <4>2. QED
        BY <4>1, <3>2, <2>3, <1>3, KeptRight
    <3>3. CASE Blob(k) /\ OldIs(files[k])
      BY <3>3, <2>2, <1>1, <1>3 DEF Blob, OldIs
    <3>4. QED
      BY <3>1, <3>2, <3>3, <2>1 DEF Right
  <2>4. OpPuts' => OldIs(setting.data)'
    <3>1. OpPuts => OldIs(setting.data)
      BY <2>1 DEF Right
    <3>2. QED
      BY <3>1, <2>2, <1>1, <1>3 DEF OpPuts, OldIs
  <2>5. QED
    BY <2>1, <2>3, <2>4, <1>3 DEF Right
<1>13. ASSUME failures' = 0 PROVE NamedIsThere' /\ \A k \in KeysOf(index') : CutAtWorst(k)'
  <2>1. Torn
    BY <1>1, <1>13 DEF IInv
  <2>2. ASSUME NEW k \in KeysOf(index') PROVE CutAtWorst(k)'
    <3>1. CASE k[2] > 0
      <4>1. CutAtWorst(k) /\ k \in KeysOf(index)
        BY <2>1, <2>2, <1>3 DEF Torn
      <4>2. store'[k[1]] = store[k[1]]
        BY <3>1, <4>1, <1>11 DEF CutAtWorst
      <4>3. QED
        BY <4>1, <4>2, <2>2, <1>3, KeptRight
    <3>2. CASE ~ (k[2] > 0)
      BY <3>2 DEF CutAtWorst
    <3>3. QED
      BY <3>1, <3>2
  <2>3. QED
    BY <2>1, <2>2, <1>3 DEF Torn
<1>14. QED
  BY <1>1, <1>2, <1>9, <1>10, <1>12, <1>13, OthersAll

LEMMA CacheTickStep ==
    ASSUME IInv, CacheTick
    PROVE  IInv'
<1>1. UNCHANGED <<store, readers, op, crashes, failures>> /\ (Expire \/ Cleanup)
  BY DEF CacheTick
<1>2. CacheTyped /\ Room /\ Shape /\ Cleared /\ failures \in Nat
  BY DEF IInv, Shape
<1>3. /\ CacheTyped' /\ Room' /\ setting' = setting /\ CacheKeeps({})
      /\ saved' = index' \/ (saved' = saved /\ index' = index /\ files' = files)
  <2>1. CASE Expire
    BY <2>1, <1>2, ExpireStep, ExpireKeeps
  <2>2. CASE Cleanup
    BY <2>2, <1>2, CleanupStep, CleanupKeeps
  <2>3. QED
    BY <2>1, <2>2, <1>1
<1>4. KeysOf(index') \subseteq KeysOf(index) /\ Locked' = Locked
  BY <1>3 DEF CacheKeeps, Locked
<1>5. Others({})
  <2>1. StoreTyped' /\ OpShape' /\ InOp' = InOp
    BY <1>1, <1>2, <1>3, <1>4 DEF StoreTyped, Shape, OpShape, InOp, Empty
  <2>2. \A r \in Readers : Reading(r) => \A arg \in InOp : ~ Under(readers[r].path, arg)
    BY <1>2 DEF Shape, Placed
  <2>3. \A r \in Readers : InStep(r, "put") => Locked' /\ setting' = setting
    BY <1>2, <1>3, <1>4, OnePuts
  <2>4. Locked' => OpPuts' \/ \E r \in Readers : InStep(r, "put")
    BY <1>1, <1>2, <1>4 DEF Shape, OpPuts
  <2>5. QED
    BY <2>1, <2>2, <2>3, <2>4, <1>1, <1>3 DEF Others
<1>6. Cleared'
  BY <1>1, <1>2, <1>4 DEF Cleared, Swept
<1>7. ASSUME crashes = 0
      PROVE  /\ Locked' => setting'.key \notin KeysOf(index')
             /\ \A k \in KeysOf(index') : HeldRight(k)' \/ (Blob(k)' /\ OldIs(files[k])')
             /\ OpPuts' => OldIs(setting.data)'
  <2>1. Right
    BY <1>7 DEF IInv
  <2>2. ASSUME NEW k \in KeysOf(index') PROVE HeldRight(k)' \/ (Blob(k)' /\ OldIs(files[k])')
    <3>1. k \in KeysOf(index) /\ files'[k] = files[k]
      BY <2>2, <1>3, KeptKeys
    <3>2. HeldRight(k) \/ (Blob(k) /\ OldIs(files[k]))
      BY <3>1, <2>1 DEF Right
    <3>3. QED
      BY <3>1, <3>2, <1>1 DEF HeldRight, Blob, OldIs
  <2>3. OpPuts' => OldIs(setting.data)'
    BY <2>1, <1>1, <1>3 DEF Right, OpPuts, OldIs
  <2>4. QED
    BY <2>1, <2>2, <2>3, <1>3, <1>4 DEF Right
<1>8. ASSUME failures' = 0 PROVE NamedIsThere' /\ \A k \in KeysOf(index') : CutAtWorst(k)'
  <2>1. Torn
    BY <1>1, <1>8 DEF IInv
  <2>2. NamedIsThere'
    BY <2>1, <1>3, <1>4 DEF Torn, NamedIsThere
  <2>3. ASSUME NEW k \in KeysOf(index') PROVE CutAtWorst(k)'
    <3>1. CutAtWorst(k)
      BY <2>1, <2>3, <1>4 DEF Torn
    <3>2. QED
      BY <3>1, <2>3, <1>1, <1>3, KeptRight
  <2>4. QED
    BY <2>2, <2>3
<1>9. QED
  BY <1>1, <1>2, <1>3, <1>5, <1>6, <1>7, <1>8, OthersAll

\* A new process finds what index.json names, at worst cut short.
LEMMA CrashStepAll ==
    ASSUME IInv, Crash
    PROVE  IInv'
<1>1. /\ crashes' = crashes + 1 /\ CrashAndLoad /\ readers' = [r \in Readers |-> Closed]
      /\ op' = NoOp /\ UNCHANGED <<store, failures>>
  BY DEF Crash
<1>2. CacheTyped /\ Room /\ Shape /\ failures \in Nat /\ crashes \in Nat
  BY DEF IInv, Shape
<1>3. /\ CacheTyped' /\ Room' /\ ~ Locked' /\ old' = old
      /\ saved' = saved \/ saved' = NoIndex
      /\ KeysOf(index') = IF saved' = NoIndex THEN {} ELSE KeysOf(saved') \cap DOMAIN files'
      /\ DOMAIN files' \subseteq DOMAIN files
      /\ \A k \in DOMAIN files' :
            \/ files'[k] = files[k] /\ ~ (Locked /\ setting.key = k)
            \/ Locked /\ setting.key = k /\ files'[k] \in Prefixes(setting.data)
  BY <1>1, <1>2, CrashStep
<1>4. \A r \in Readers : readers'[r].step = "closed"
  BY <1>1 DEF Closed
<1>5. Shape'
  <2>1. readers' = [r \in Readers |-> readers'[r]]
    BY <1>1
  <2>2. OpShape'
    BY <1>1 DEF OpShape
  <2>3. QED
    BY <2>1, <2>2, <1>1, <1>2, <1>3, <1>4 DEF Shape, Reading, InStep, Putting
<1>6. Cleared'
  BY <1>1 DEF Cleared
<1>7. crashes' # 0
  BY <1>1, <1>2
<1>8. ASSUME failures' = 0 PROVE Torn'
  <2>1. Torn
    BY <1>1, <1>8 DEF IInv
  <2>2. NamedIsThere'
    BY <1>3 DEF NamedIsThere
  <2>3. ASSUME NEW k \in KeysOf(index') PROVE CutAtWorst(k)'
    <3>1. SUFFICES ASSUME k[2] > 0 PROVE CutAtWorst(k)'
      BY DEF CutAtWorst
    <3>2. saved # NoIndex /\ k \in KeysOf(saved) /\ k \in DOMAIN files' /\ k \in DOMAIN files
      BY <2>3, <1>3
    <3>3. k \in KeysOf(index) \/ (Locked /\ setting.key = k)
      BY <3>2, <2>1 DEF Torn, NamedIsThere
    <3>4. CASE ~ (Locked /\ setting.key = k)
      BY <3>2, <3>3, <3>4, <2>1, <1>1, <1>3 DEF Torn, CutAtWorst
    <3>5. CASE Locked /\ setting.key = k
      <4>1. files'[k] \in Prefixes(setting.data)
        BY <3>2, <3>5, <1>3
      <4>2. ~ OpPuts
        BY <3>1, <3>5, <1>2 DEF Shape, OpShape, OpPuts
      <4>3. PICK r \in Readers : InStep(r, "put")
        BY <3>5, <4>2, <1>2 DEF Shape
      <4> DEFINE rd == readers[r]
      <4>4. setting = Sets(rd) /\ Placed(rd, r)
        <5>1. Reading(r)
          BY <4>3 DEF Reading, InStep
        <5>2. QED
          BY <5>1, <4>3, <1>2, OnePuts DEF Shape
      <4>5. k[1] = rd.path /\ k[2] = rd.idx /\ setting.data = rd.chunks[rd.idx].data
        BY <3>1, <3>5, <4>4 DEF Sets
      <4>6. rd \in Reads /\ Asked(rd) /\ rd.idx \in rd.left
        BY <3>1, <4>3, <4>4, <4>5 DEF Placed, Asked, AtChunk, InStep
      <4>7. rd.idx \in 1 .. Len(rd.chunks) /\ rd.chunks[rd.idx].data \in Seq(Byte)
        BY <4>6, ChunkAtHand, Zenon
      <4>8. rd.idx \in DOMAIN rd.chunks
        BY <4>6, <4>7, ContentTyped DEF Reads
      <4>9. IsPrefix(files'[k], rd.chunks[rd.idx].data)
        BY <4>1, <4>5, <4>7, PrefixOfData
      <4>10. QED
        BY <4>4, <4>5, <4>8, <4>9, <1>1 DEF CutAtWorst, Placed
    <3>6. QED
      BY <3>4, <3>5
  <2>4. QED
    BY <2>2, <2>3 DEF Torn
<1>9. QED
  BY <1>1, <1>3, <1>5, <1>6, <1>7, <1>8 DEF IInv

----------------------------------------------------------------------------
(* The invariant, and what follows from it.                                *)

LEMMA InitIInv ==
    ASSUME NoAlias, Init
    PROVE  IInv
<1>1. /\ index = <<>> /\ old = {} /\ files = << >> /\ saved = NoIndex /\ setting = NoSet
      /\ store = [p \in Paths |-> NoEntry] /\ readers = [r \in Readers |-> Closed]
      /\ op = NoOp /\ crashes = 0 /\ failures = 0
  BY DEF Init, CacheInit
<1>2. KeysOf(index) = {} /\ Len(index) = 0 /\ index \in Seq(Slot) /\ Distinct(index)
  BY <1>1 DEF KeysOf, Distinct
<1>3. ~ Locked
  BY <1>1 DEF Locked
<1>4. CacheTyped
  BY <1>1, <1>2, <1>3 DEF CacheTyped
<1>5. Room
  BY <1>1, <1>2, <1>3 DEF Room, Fits
<1>6. \A r \in Readers : ~ Reading(r) /\ ~ InStep(r, "put")
  BY <1>1 DEF Reading, InStep, Closed
<1>7. Shape
  <2>1. readers = [r \in Readers |-> readers[r]]
    BY <1>1
  <2>2. QED
    BY <2>1, <1>1, <1>3, <1>6 DEF Shape, OpShape, Putting
<1>8. Cleared
  BY <1>1 DEF Cleared
<1>9. Right
  BY <1>1, <1>2, <1>3, <1>6 DEF Right, OpPuts
<1>10. Torn
  BY <1>1, <1>2 DEF Torn, NamedIsThere
<1>11. QED
  BY <1>4, <1>5, <1>7, <1>8, <1>9, <1>10 DEF IInv

LEMMA StutterIInv ==
    ASSUME IInv, UNCHANGED vars
    PROVE  IInv'
<1>1. /\ UNCHANGED cacheVars /\ store' = store /\ readers' = readers /\ op' = op
      /\ crashes' = crashes /\ failures' = failures
  BY DEF vars
<1>2. CacheTyped /\ Room /\ Shape /\ Cleared /\ failures \in Nat
  BY DEF IInv, Shape
<1>3. /\ CacheTyped' /\ Room' /\ CacheKeeps({})
      /\ index' = index /\ files' = files /\ setting' = setting /\ Locked' = Locked
      /\ NamedIsThere => NamedIsThere'
  BY <1>1, <1>2, CacheStays
<1>4. Others({})
  <2>1. StoreTyped' /\ OpShape' /\ InOp' = InOp
    BY <1>1, <1>2, <1>3 DEF StoreTyped, Shape, OpShape, InOp, Empty
  <2>2. \A r \in Readers : Reading(r) => \A arg \in InOp : ~ Under(readers[r].path, arg)
    BY <1>2 DEF Shape, Placed
  <2>3. \A r \in Readers : InStep(r, "put") => Locked' /\ setting' = setting
    BY <1>2, <1>3, OnePuts
  <2>4. Locked' => OpPuts' \/ \E r \in Readers : InStep(r, "put")
    BY <1>1, <1>2, <1>3 DEF Shape, OpPuts
  <2>5. QED
    BY <2>1, <2>2, <2>3, <2>4, <1>1, <1>3 DEF Others
<1>5. Cleared'
  BY <1>1, <1>2, <1>3 DEF Cleared, Swept
<1>6. ASSUME crashes = 0
      PROVE  /\ Locked' => setting'.key \notin KeysOf(index')
             /\ \A k \in KeysOf(index') : HeldRight(k)' \/ (Blob(k)' /\ OldIs(files[k])')
             /\ OpPuts' => OldIs(setting.data)'
  BY <1>1, <1>3, <1>6 DEF IInv, Right, HeldRight, Blob, OpPuts, OldIs
<1>7. failures' = 0 => NamedIsThere' /\ \A k \in KeysOf(index') : CutAtWorst(k)'
  BY <1>1, <1>3 DEF IInv, Torn, CutAtWorst
<1>8. QED
  BY <1>1, <1>2, <1>4, <1>5, <1>6, <1>7, OthersAll

LEMMA NextIInv ==
    ASSUME IInv, [Next]_vars
    PROVE  IInv'
<1>1. CASE Always
  BY <1>1, ReaderSteps, RemoveEndStep, RenamePutStep, ClearSteps, RenameEndStep,
     CacheTickStep, CrashStepAll DEF Always
<1>2. ASSUME NEW r \in Readers, NEW p \in Paths, Free(p), Call(r, p) PROVE IInv'
  BY <1>2, ReadAtStep, DownloadStep DEF Call
<1>3. ASSUME NEW p \in Paths, NEW s \in Sources, NEW c \in ChunkSizes,
             Free(p) /\ Empty(p) /\ Publish(p, s, c)
      PROVE  IInv'
  BY <1>3, PublishStep
<1>4. ASSUME NEW arg \in Args, Free(arg) /\ ~ Empty(arg) /\ RemoveBegin(arg)
      PROVE  IInv'
  BY <1>4, RemoveBeginStep
<1>5. ASSUME NEW a \in Args, NEW b \in Args,
             /\ Len(a) = Len(b)
             /\ Free(a) /\ ~ Empty(a) /\ Free(b) /\ Empty(b)
             /\ RenameBegin(a, b)
      PROVE  IInv'
  BY <1>5, RenameBeginStep
<1>6. CASE UNCHANGED vars
  BY <1>6, StutterIInv
<1>7. QED
  BY <1>1, <1>2, <1>3, <1>4, <1>5, <1>6 DEF Next

\* The cache, its readers and the operation that is under way fit together in every
\* state of Spec: that of clients who keep out of each other's way on each path and
\* give normal paths, none of which ends like the key of another one's chunk.
THEOREM Invariance ==
    ASSUME NoAlias
    PROVE  Spec => []IInv
<1>1. Init => IInv
  BY InitIInv
<1>2. IInv /\ [Next]_vars => IInv'
  BY NextIInv
<1>3. QED
  BY <1>1, <1>2, PTL DEF Spec

\* What the index counts fits into the cache, or is one chunk that is too large
\* for it, after any writes, expiries, evictions, deletions and new starts.
THEOREM BudgetIsKept ==
    ASSUME NoAlias
    PROVE  Spec => []Budget
<1>1. IInv => Budget
  BY DEF IInv, Room, Fits, Budget
<1>2. QED
  BY <1>1, Invariance, PTL

\* The lock of the cache is held by exactly who is in the middle of a Set, what is
\* cached is under keys of paths, and a range read asks for chunks as long as it
\* misses bytes.
THEOREM ReaderTyped ==
    ASSUME NoAlias
    PROVE  Spec => []TypeOK
<1>1. ASSUME IInv PROVE TypeOK
  <2>1. CacheTyped /\ Shape
    BY <1>1 DEF IInv
  <2>2. CacheTypeOK
    <3>1. KeysOf(index) \subseteq Keys /\ old \subseteq Keys /\ DOMAIN files \subseteq Keys
      BY <2>1 DEF CacheTyped
    <3>2. \A i, j \in DOMAIN index : index[i].key = index[j].key => i = j
      BY <2>1 DEF CacheTyped, Distinct
    <3>3. saved # NoIndex => KeysOf(saved) \subseteq Keys
      <4>1. ASSUME saved # NoIndex, NEW i \in DOMAIN saved PROVE saved[i].key \in Keys
        <5>1. saved \in Seq(Slot)
          BY <2>1, <4>1 DEF CacheTyped
        <5>2. QED
          BY <5>1, SlotSizes
      <4>2. QED
        BY <4>1 DEF KeysOf
    <3>4. Locked => setting.key \in DOMAIN files
      BY <2>1 DEF CacheTyped
    <3>5. QED
      BY <3>1, <3>2, <3>3, <3>4 DEF CacheTypeOK
  <2>3. ASSUME NEW p \in Paths, store[p] # NoEntry PROVE Len(store[p].chunks) > 0
    <3>1. store[p].chunks \in Contents
      BY <2>1, <2>3 DEF Shape, Whole
    <3>2. Len(store[p].chunks) \in Nat \ {0}
      BY <3>1, ContentTyped, Zenon
    <3>3. QED
      BY <3>2
  <2>4. ASSUME NEW r \in Readers
        PROVE  /\ readers[r].step \in {"closed", "blob", "look", "hit", "miss", "keep", "put"}
               /\ InStep(r, "look") => readers[r].left # {}
    <3>1. CASE Reading(r)
      <4>1. readers[r] \in Reads /\ Asked(readers[r])
        BY <2>1, <3>1 DEF Shape, Placed
      <4>2. QED
        BY <4>1 DEF Reads, Asked, InStep
    <3>2. CASE ~ Reading(r)
      BY <3>2 DEF Reading, InStep
    <3>3. QED
      BY <3>1, <3>2
  <2>5. Locked <=> \/ \E r \in Readers : InStep(r, "put")
                   \/ op # NoOp /\ op.step = "put"
    BY <2>1, OnePuts DEF Shape, OpShape, OpPuts
  <2>6. QED
    BY <2>2, <2>3, <2>4, <2>5 DEF TypeOK
<1>2. QED
  BY <1>1, Invariance, PTL

LEMMA FreeKey ==
    ASSUME IInv, NEW k \in KeysOf(index), Free(k[1])
    PROVE  ~ Blob(k) /\ k[1] \in Paths
<1>1. k[1] \in Paths /\ k[1] \in Seq(Names)
  BY KeyTyped DEF IInv
<1>2. Under(k[1], k[1])
  BY <1>1, UnderItself
<1>3. QED
  BY <1>1, <1>2 DEF Free, InOp, Blob

\* Until the process is started anew, what is cached of a path that nobody is at
\* is what the entry says, whatever was removed, renamed and uploaded in its
\* place before: by clients of Next, who give normal paths, put things in free
\* places, and remove and rename what nobody reads meanwhile.
THEOREM CacheStaysRight ==
    ASSUME NoAlias
    PROVE  Spec => []CacheIsRight
<1>1. ASSUME IInv PROVE CacheIsRight
  <2>1. SUFFICES ASSUME NEW k \in KeysOf(index), crashes = 0, Free(k[1])
                 PROVE  files[k] = IF k[2] = 0 THEN Bytes(store[k[1]].chunks)
                                   ELSE store[k[1]].chunks[k[2]].data
    BY DEF CacheIsRight
  <2>2. HeldRight(k)
    BY <1>1, <2>1, FreeKey DEF IInv, Right
  <2>3. QED
    BY <2>2 DEF HeldRight, Held
<1>2. QED
  BY <1>1, Invariance, PTL

\* If no write into the cache fails, new starts of the process leave chunks that
\* are cut short at worst, never those of something else: of the same clients, and
\* like CacheStaysRight not when two paths share a key.
THEOREM TornStaysAtWorst ==
    ASSUME NoAlias
    PROVE  Spec => []TornAtWorst
<1>1. ASSUME IInv PROVE TornAtWorst
  <2>1. SUFFICES ASSUME NEW k \in KeysOf(index), failures = 0, k[2] > 0
                 PROVE  /\ k[2] \in DOMAIN store[k[1]].chunks
                        /\ IsPrefix(files[k], store[k[1]].chunks[k[2]].data)
    BY DEF TornAtWorst
  <2>2. QED
    BY <1>1, <2>1 DEF IInv, Torn, CutAtWorst
<1>2. QED
  BY <1>1, Invariance, PTL

\* When a removal returns, the index names nothing under the path, whatever was
\* read, put, evicted and moved by others while it cleared the keys in turn: for
\* paths that are normal and that nobody reads meanwhile.
THEOREM DeleteClears ==
    ASSUME NoAlias
    PROVE  Spec => GoneIsUncached
<1> DEFINE Clears == op # NoOp /\ op.kind = "remove" /\ op' = NoOp /\ crashes' = crashes
                        => \A k \in KeysOf(index') : ~ Under(k[1], Clean(op.old))
<1>1. IInv /\ [Next]_vars => Clears
  <2>1. SUFFICES ASSUME IInv, [Next]_vars, op # NoOp, op.kind = "remove", op' = NoOp,
                        crashes' = crashes
                 PROVE  \A k \in KeysOf(index') : ~ Under(k[1], Clean(op.old))
    OBVIOUS
  <2>2. CacheTyped /\ Shape /\ Cleared
    BY <2>1 DEF IInv
  <2>3. op.old \in Args /\ op \in Op
    BY <2>1, <2>2 DEF Shape, OpShape
  <2>4. RemoveEnd
    <3>1. \A s \in {"itself", "chunks", "inside", "store"} : [op EXCEPT !.step = s] # NoOp
      <4>1. \A s \in {"itself", "chunks", "inside", "store"} : [op EXCEPT !.step = s] \in Op
        BY <2>3 DEF Op
      <4>2. QED
        BY <4>1, NoneAssumption
    <3>2. ~ RenamePut /\ ~ ClearItself /\ ~ ClearChunks /\ ~ ClearInside
      BY <3>1, <2>1 DEF RenamePut, ClearItself, ClearChunks, ClearInside, Clear
    <3>3. ~ RenameEnd
      BY <2>1 DEF RenameEnd
    <3>4. ~ Crash
      BY <2>1, <2>2 DEF Crash, Shape
    <3>5. ~ CacheTick /\ ~ UNCHANGED vars
      BY <2>1 DEF CacheTick, vars
    <3>6. ~ \E r \in Readers : ReaderStep(r)
      BY <2>1 DEF ReaderStep, ReadBlob, Look, ReadChunk, Fetch, FetchFails, KeepWhole, Put
    <3>7. ~ \E r \in Readers, p \in Paths : Call(r, p)
      <4>1. \A r \in Readers, p \in Paths, off \in Offsets, n \in ReadSizes :
                ~ ReadAt(r, p, off, n)
        BY <2>1 DEF ReadAt
      <4>2. \A r \in Readers, p \in Paths, mode \in {"download", "stream"} :
                ~ Download(r, p, mode)
        BY <2>1 DEF Download
      <4>3. QED
        BY <4>1, <4>2 DEF Call
    <3>8. ~ \E p \in Paths, s \in Sources, c \in ChunkSizes : Publish(p, s, c)
      BY <2>1 DEF Publish
    <3>9. ~ \E arg \in Args : RemoveBegin(arg)
      BY <2>1 DEF RemoveBegin
    <3>10. ~ \E a, b \in Args : RenameBegin(a, b)
      BY <2>1 DEF RenameBegin
    <3>11. QED
      BY <2>1, <3>2, <3>3, <3>4, <3>5, <3>6, <3>7, <3>8, <3>9, <3>10 DEF Next, Always
  <2>5. op.step = "store" /\ index' = index
    BY <2>4 DEF RemoveEnd, cacheVars
  <2>6. Clean(op.old) = op.old
    BY <2>3, ArgsAreClean
  <2>7. \A k \in KeysOf(index') : ~ Under(k[1], op.old)
    BY <2>1, <2>2, <2>5 DEF Cleared, Swept
  <2>8. QED
    BY <2>6, <2>7
<1>2. QED
  BY Invariance, <1>1, PTL DEF Spec, GoneIsUncached

----------------------------------------------------------------------------
(* What a call returns.                                                    *)

ReturnsRight(r) ==
    /\ readers'[r].result = "ok" => readers'[r].got = Result(readers[r])
    /\ readers'[r].result # "panic"

LEMMA OnlyItsOwnSteps ==
    ASSUME IInv, [Next]_vars, NEW r \in Readers, crashes' = 0, Returns(r)
    PROVE  ReaderStep(r) /\ crashes = 0 /\ Reading(r)
<1>1. Shape
  BY DEF IInv
<1>2. Reading(r) /\ readers'[r] # readers[r]
  BY DEF Returns, Reading, InStep
<1>3. \A q \in Readers : \A x : readers' = [readers EXCEPT ![q] = x] => q = r
  <2>1. SUFFICES ASSUME NEW q \in Readers, NEW x, readers' = [readers EXCEPT ![q] = x], q # r
                 PROVE  FALSE
    OBVIOUS
  <2>2. QED
    BY <2>1, <1>1, <1>2 DEF Shape
<1>4. ASSUME NEW q \in Readers, ReaderStep(q) PROVE q = r /\ crashes' = crashes
  <2>1. \E x : readers' = [readers EXCEPT ![q] = x]
    BY <1>4 DEF ReaderStep, ReadBlob, Look, ReadChunk, Fetch, FetchFails, KeepWhole, Put, Set
  <2>2. crashes' = crashes
    BY <1>4 DEF ReaderStep, ReadBlob, Look, ReadChunk, Fetch, FetchFails, KeepWhole, Put
  <2>3. QED
    BY <2>1, <2>2, <1>3
<1>5. ASSUME NEW q \in Readers, NEW p \in Paths, Call(q, p) PROVE FALSE
  <2>1. InStep(q, "closed") /\ \E x : readers' = [readers EXCEPT ![q] = x]
    BY <1>5 DEF Call, ReadAt, Download, Set
  <2>2. q = r
    BY <2>1, <1>3
  <2>3. QED
    BY <2>1, <2>2, <1>2 DEF Reading
<1>6. ~ Crash
  BY <1>1 DEF Crash, Shape
<1>7. ASSUME \/ RenamePut \/ ClearItself \/ ClearChunks \/ ClearInside
             \/ RemoveEnd \/ RenameEnd \/ CacheTick
      PROVE  FALSE
  BY <1>2, <1>7 DEF RenamePut, ClearItself, ClearChunks, ClearInside, Clear, RemoveEnd,
                    RenameEnd, CacheTick
<1>8. ASSUME NEW p \in Paths, NEW s \in Sources, NEW c \in ChunkSizes, Publish(p, s, c)
      PROVE  FALSE
  BY <1>2, <1>8 DEF Publish
<1>9. ASSUME NEW arg \in Args, RemoveBegin(arg) PROVE FALSE
  BY <1>2, <1>9 DEF RemoveBegin
<1>10. ASSUME NEW a \in Args, NEW b \in Args, RenameBegin(a, b) PROVE FALSE
  BY <1>2, <1>10 DEF RenameBegin
<1>11. ~ UNCHANGED vars
  BY <1>2 DEF vars
<1>12. PICK q \in Readers : ReaderStep(q)
  BY <1>5, <1>6, <1>7, <1>8, <1>9, <1>10, <1>11 DEF Next, Always
<1>13. QED
  BY <1>2, <1>4, <1>12

LEMMA ReadsReturnRight ==
    ASSUME IInv, NEW r \in Readers, ReaderStep(r), crashes = 0, Reading(r),
           readers'[r].step = "closed"
    PROVE  ReturnsRight(r)
<1> DEFINE rd == readers[r]
<1>1. NoAlias /\ CacheTyped /\ Shape /\ Right
  BY DEF IInv
<1>2. rd \in Reads /\ Asked(rd) /\ Relies(rd)
  BY <1>1 DEF Shape, Placed, Right
<1>3. \A x : readers' = [readers EXCEPT ![r] = x] => readers'[r] = x
  BY <1>1 DEF Shape
<1>4. CASE ReadBlob(r)
  <2>1. CASE \E data \in ReadFile(<<rd.path, 0>>) :
                Set(r, Finished("ok", SubSeq(data, rd.off + 1, rd.off + rd.len)))
    <3>1. PICK data \in ReadFile(<<rd.path, 0>>) :
                Set(r, Finished("ok", SubSeq(data, rd.off + 1, rd.off + rd.len)))
      BY <2>1
    <3>2. data = Bytes(rd.chunks)
      BY <1>1, <1>4, BlobIsRight DEF ReadBlob
    <3> DEFINE got == SubSeq(data, rd.off + 1, rd.off + rd.len)
    <3>3. readers'[r] = Finished("ok", got)
      BY <3>1, <1>3 DEF Set
    <3>4. got = Result(rd)
      BY <3>2 DEF Result
    <3> HIDE DEF got
    <3>5. readers'[r].result = "ok" /\ readers'[r].got = Result(rd)
      BY <3>3, <3>4 DEF Finished
    <3>6. QED
      BY <3>5 DEF ReturnsRight
  <2>2. CASE Set(r, WholeOrRange(rd))
    <3>1. PICK mode \in {"whole", "range"} : WholeOrRange(rd) = StartRange(rd, mode)
      BY DEF WholeOrRange
    <3>2. rd.off + rd.len <= TotalSize(rd.chunks)
      BY <1>2 DEF Asked
    <3>3. StartRange(rd, mode).step = "look"
      BY <3>2, <1>2, Starts
    <3>4. QED
      BY <3>1, <3>3, <2>2, <1>3 DEF Set
  <2>3. Key(rd.path, 0) = <<rd.path, 0>>
    BY <1>1, KeyIs
  <2>4. QED
    BY <2>1, <2>2, <2>3, <1>4 DEF ReadBlob
<1>5. CASE Look(r)
  <2>1. PICK i : readers'[r] = [rd EXCEPT !.idx = i,
                        !.step = IF Has(Key(rd.path, i)) THEN "hit" ELSE "miss"]
    BY <1>3, <1>5 DEF Look, Set
  <2>2. readers'[r].step \in {"hit", "miss"}
    BY <2>1, <1>2 DEF Reads
  <2>3. QED
    BY <2>2
<1>6. CASE ReadChunk(r)
  <2>1. CASE \E data \in ReadFile(KeyOf(r)) :
                Set(r, Take(rd, data)) \/ Set(r, Take(rd, Spare(rd, data)))
    <3>1. PICK data \in ReadFile(KeyOf(r)) :
                Set(r, Take(rd, data)) \/ Set(r, Take(rd, Spare(rd, data)))
      BY <2>1
    <3> DEFINE t == Take(rd, rd.chunks[rd.idx].data)
    <3>2. data = rd.chunks[rd.idx].data
      BY <1>1, <1>6, HitIsRight DEF ReadChunk
    <3>4. AtChunk(rd) /\ Collected(rd)
      BY <1>2, <1>6 DEF ReadChunk, AtChunk, InStep, Relies
    <3>7. Spare(rd, rd.chunks[rd.idx].data) = rd.chunks[rd.idx].data
      BY <3>4, <1>2, WholeHasNoSpare, Zenon
    <3>3. readers'[r] = t
      BY <3>1, <3>2, <3>7, <1>3 DEF Set
    <3>5. t.step = "closed" => t.result = "ok" /\ t.got = Result(rd)
      BY <3>4, <1>2, TakeRight, Zenon
    <3> HIDE DEF t
    <3>6. QED
      BY <3>3, <3>5 DEF ReturnsRight
  <2>2. CASE Set(r, [rd EXCEPT !.step = "miss"])
    <3>1. readers'[r] = [rd EXCEPT !.step = "miss"]
      BY <2>2, <1>3 DEF Set
    <3>2. readers'[r].step = "miss"
      BY <3>1, <1>2 DEF Reads
    <3>3. QED
      BY <3>2
  <2>3. QED
    BY <2>1, <2>2, <1>6 DEF ReadChunk
<1>7. CASE Fetch(r) \/ KeepWhole(r)
  <2>1. \/ readers'[r] = [rd EXCEPT !.step = "put"]
        \/ readers'[r] = [rd EXCEPT !.step = "put", !.idx = 0]
    BY <1>3, <1>7 DEF Fetch, KeepWhole, Set
  <2>2. readers'[r].step = "put"
    BY <2>1, <1>2 DEF Reads
  <2>3. QED
    BY <2>2
<1>8. CASE FetchFails(r)
  <2>1. CASE rd.mode = "whole"
    <3>1. rd.off + rd.len <= TotalSize(rd.chunks)
      BY <1>2 DEF Asked
    <3>2. StartRange(rd, "range").step = "look"
      BY <3>1, <1>2, Starts
    <3>3. QED
      BY <3>2, <2>1, <1>3, <1>8 DEF FetchFails, Set
  <2>2. CASE rd.mode # "whole"
    <3>1. readers'[r] = Finished("err", <<>>)
      BY <2>2, <1>3, <1>8 DEF FetchFails, Set
    <3>2. QED
      BY <3>1 DEF Finished, ReturnsRight
  <2>3. QED
    BY <2>1, <2>2
<1>9. CASE Put(r)
  <2> DEFINE x == IF rd.idx = 0
                  THEN Finished("ok", SubSeq(rd.got, rd.off + 1, rd.off + rd.len))
                  ELSE Take(rd, setting.data)
  <2>1. InStep(r, "put") /\ readers'[r] = x
    BY <1>3, <1>9 DEF Put, Set
  <2>2. Right => /\ x.step # "closed" => Collected(x)
                 /\ x.step = "closed" => x.result = "ok" /\ x.got = Result(rd)
    BY <2>1, <1>1, PutGoesOn, Zenon
  <2> HIDE DEF x
  <2>3. QED
    BY <2>1, <2>2, <1>1 DEF ReturnsRight
<1>10. QED
  BY <1>4, <1>5, <1>6, <1>7, <1>8, <1>9 DEF ReaderStep

\* Until the process is started anew, a read or a download that succeeds returns
\* the bytes of the entry that it looked up, and none runs off the end of a chunk:
\* whatever others read, wrote, removed and renamed elsewhere meanwhile, whatever
\* was evicted and expired, and whatever was at the path before.  Of the clients of
\* Next, of which no two are at one path at the same time, and without shared keys;
\* run stale shows it broken by clients who do as they like.
THEOREM ReadsAreRight ==
    ASSUME NoAlias
    PROVE  Spec => ReadIsRight
<1> DEFINE Correct == \A r \in Readers : crashes' = 0 /\ Returns(r) =>
                        /\ readers'[r].result = "ok" =>
                            readers'[r].got = SubSeq(Bytes(readers[r].chunks),
                                                     readers[r].off + 1,
                                                     readers[r].off + readers[r].len)
                        /\ readers'[r].result # "panic"
<1>1. IInv /\ [Next]_vars => Correct
  <2>1. SUFFICES ASSUME IInv, [Next]_vars, NEW r \in Readers, crashes' = 0, Returns(r)
                 PROVE  ReturnsRight(r)
    BY DEF ReturnsRight, Result
  <2>2. ReaderStep(r) /\ crashes = 0 /\ Reading(r)
    BY <2>1, OnlyItsOwnSteps
  <2>3. QED
    BY <2>1, <2>2, ReadsReturnRight DEF Returns
<1>2. QED
  BY Invariance, <1>1, PTL DEF Spec, ReadIsRight
=============================================================================
