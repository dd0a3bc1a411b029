-------------------------- MODULE Namespace_proofs --------------------------
(***************************************************************************)
(* The flat map stays a tree, for any names, depth and number of entries,  *)
(* and in whatever order RenameFile makes its moves.                       *)
(*                                                                         *)
(* The first part is about paths, which are compared place by place; the   *)
(* second about the loop of RenameFile: whatever paths it has still to     *)
(* move, the map is the one that AfterMoves describes, so that the order   *)
(* does not matter in the end; the third about the operations; the last    *)
(* about the listings, which read the map as a tree.                       *)
(***************************************************************************)
EXTENDS Namespace, FiniteSetTheorems, WellFoundedInduction, TLAPS

----------------------------------------------------------------------------
(* Paths.                                                                  *)

\* The folder at path a contains p, directly or not.
Above(a, p) == Len(a) < Len(p) /\ \A i \in 1 .. Len(a) : a[i] = p[i]

LEMMA PathType ==
    /\ \A p \in Paths : p \in Seq(Names) /\ Len(p) \in 1 .. MaxDepth
    /\ \A p \in Seq(Names) : Len(p) \in 1 .. MaxDepth => p \in Paths
<1>. USE BoundsAssumption
<1>1. ASSUME NEW p \in Paths PROVE p \in Seq(Names) /\ Len(p) \in 1 .. MaxDepth
  <2>1. PICK n \in 1 .. MaxDepth : p \in [1 .. n -> Names]
    BY DEF Paths
  <2>2. QED
    BY <2>1
<1>2. ASSUME NEW p \in Seq(Names), Len(p) \in 1 .. MaxDepth PROVE p \in Paths
  <2>1. p \in [1 .. Len(p) -> Names]
    OBVIOUS
  <2>2. QED
    BY <1>2, <2>1 DEF Paths
<1>. QED BY <1>1, <1>2

\* The front of a path, place by place.
LEMMA Front ==
    ASSUME NEW p \in Paths, NEW n \in 0 .. Len(p)
    PROVE  /\ SubSeq(p, 1, n) \in Seq(Names)
           /\ Len(SubSeq(p, 1, n)) = n
           /\ \A i \in 1 .. n : SubSeq(p, 1, n)[i] = p[i]
  BY PathType

LEMMA SeqEqual ==
    ASSUME NEW a \in Seq(Names), NEW b \in Seq(Names), Len(a) = Len(b),
           \A i \in 1 .. Len(a) : a[i] = b[i]
    PROVE  a = b
  OBVIOUS

LEMMA InsideIsBelow ==
    ASSUME NEW p \in Paths, NEW dir \in Paths
    PROVE  Inside(p, dir) <=> Above(dir, p)
<1>1. /\ p \in Seq(Names) /\ dir \in Seq(Names)
      /\ Len(p) \in Nat /\ Len(dir) \in Nat
  BY PathType
<1>2. CASE Len(dir) < Len(p)
  <2>1. Len(dir) \in 0 .. Len(p)
    BY <1>1, <1>2
  <2>2. /\ SubSeq(p, 1, Len(dir)) \in Seq(Names)
        /\ Len(SubSeq(p, 1, Len(dir))) = Len(dir)
        /\ \A i \in 1 .. Len(dir) : SubSeq(p, 1, Len(dir))[i] = p[i]
    BY <2>1, Front
  <2>3. Above(dir, p) => SubSeq(p, 1, Len(dir)) = dir
    <3>1. SUFFICES ASSUME Above(dir, p)
                   PROVE  SubSeq(p, 1, Len(dir)) = dir
      OBVIOUS
    <3>2. \A i \in 1 .. Len(dir) : SubSeq(p, 1, Len(dir))[i] = dir[i]
      BY <2>2, <3>1 DEF Above
    <3>3. QED
      BY <1>1, <2>2, <3>2, SeqEqual
  <2>4. SubSeq(p, 1, Len(dir)) = dir => Above(dir, p)
    BY <1>2, <2>2 DEF Above
  <2>. QED BY <1>2, <1>1, <2>3, <2>4 DEF Inside
<1>3. CASE ~ (Len(dir) < Len(p))
  BY <1>1, <1>3 DEF Inside, Above
<1>. QED BY <1>2, <1>3

LEMMA AncestorsAreAbove ==
    ASSUME NEW p \in Paths
    PROVE  \A a : a \in Ancestors(p) <=> a \in Paths /\ Above(a, p)
<1>. USE BoundsAssumption
<1>1. p \in Seq(Names) /\ Len(p) \in 1 .. MaxDepth
  BY PathType
<1>2. ASSUME NEW n \in 1 .. Len(p) - 1
      PROVE  SubSeq(p, 1, n) \in Paths /\ Above(SubSeq(p, 1, n), p)
  <2>1. n \in 0 .. Len(p) /\ n \in 1 .. MaxDepth /\ n < Len(p)
    BY <1>1
  <2>2. /\ SubSeq(p, 1, n) \in Seq(Names) /\ Len(SubSeq(p, 1, n)) = n
        /\ \A i \in 1 .. n : SubSeq(p, 1, n)[i] = p[i]
    BY <2>1, Front
  <2>. QED BY <2>1, <2>2, PathType DEF Above
<1>3. ASSUME NEW a \in Paths, Above(a, p) PROVE a \in Ancestors(p)
  <2>1. a \in Seq(Names) /\ Len(a) \in 1 .. Len(p) - 1 /\ Len(a) \in 0 .. Len(p)
    BY <1>1, <1>3, PathType DEF Above
  <2>2. /\ SubSeq(p, 1, Len(a)) \in Seq(Names) /\ Len(SubSeq(p, 1, Len(a))) = Len(a)
        /\ \A i \in 1 .. Len(a) : SubSeq(p, 1, Len(a))[i] = p[i]
    BY <2>1, Front
  <2>3. a = SubSeq(p, 1, Len(a))
    BY <2>1, <2>2, <1>3, SeqEqual DEF Above
  <2>. QED BY <2>1, <2>3 DEF Ancestors
<1>. QED BY <1>2, <1>3 DEF Ancestors

\* Being inside is a strict order, and a line above every path.
LEMMA AboveOrder ==
    ASSUME NEW p \in Paths, NEW q \in Paths, NEW r \in Paths
    PROVE  /\ ~ Above(p, p)
           /\ Above(p, q) /\ Above(q, r) => Above(p, r)
           /\ Above(p, r) /\ Above(q, r) => p = q \/ Above(p, q) \/ Above(q, p)
<1>1. /\ p \in Seq(Names) /\ q \in Seq(Names) /\ r \in Seq(Names)
      /\ Len(p) \in Nat /\ Len(q) \in Nat /\ Len(r) \in Nat
  BY PathType
<1>2. ~ Above(p, p)
  BY <1>1 DEF Above
<1>3. Above(p, q) /\ Above(q, r) => Above(p, r)
  BY <1>1 DEF Above
<1>4. ASSUME Above(p, r), Above(q, r) PROVE p = q \/ Above(p, q) \/ Above(q, p)
  <2>1. CASE Len(p) < Len(q)
    BY <1>1, <1>4, <2>1 DEF Above
  <2>2. CASE Len(q) < Len(p)
    BY <1>1, <1>4, <2>2 DEF Above
  <2>3. CASE Len(p) = Len(q)
    BY <1>1, <1>4, <2>3, SeqEqual DEF Above
  <2>. QED BY <1>1, <2>1, <2>2, <2>3
<1>. QED BY <1>2, <1>3, <1>4

----------------------------------------------------------------------------
(* Where a rename puts a path.                                             *)

\* q goes along when old is renamed.
Along(q, old) == q = old \/ Above(old, q)

\* The target, place by place.
LEMMA TargetAt ==
    ASSUME NEW old \in Paths, NEW new \in Paths, NEW q \in Paths, Along(q, old)
    PROVE  /\ Target(q, old, new) \in Seq(Names)
           /\ Len(Target(q, old, new)) = Len(new) + Len(q) - Len(old)
           /\ \A i \in 1 .. Len(new) : Target(q, old, new)[i] = new[i]
           /\ \A i \in 1 .. Len(q) - Len(old) :
                    Target(q, old, new)[Len(new) + i] = q[Len(old) + i]
<1>1. /\ old \in Seq(Names) /\ new \in Seq(Names) /\ q \in Seq(Names)
      /\ Len(old) \in Nat /\ Len(new) \in Nat /\ Len(q) \in Nat
      /\ Len(old) <= Len(q)
  BY PathType DEF Along, Above
<1> DEFINE tail == SubSeq(q, Len(old) + 1, Len(q))
<1>2. /\ tail \in Seq(Names) /\ Len(tail) = Len(q) - Len(old)
      /\ \A i \in 1 .. Len(tail) : tail[i] = q[Len(old) + i]
  BY <1>1
<1> HIDE DEF tail
<1>3. /\ new \o tail \in Seq(Names)
      /\ Len(new \o tail) = Len(new) + Len(tail)
      /\ \A i \in 1 .. Len(new) : (new \o tail)[i] = new[i]
      /\ \A i \in 1 .. Len(tail) : (new \o tail)[Len(new) + i] = tail[i]
  <2>1. new \in Seq(Names) /\ tail \in Seq(Names)
    BY <1>1, <1>2
  <2>2. \A i \in 1 .. Len(new) + Len(tail) :
            (new \o tail)[i] = IF i <= Len(new) THEN new[i] ELSE tail[i - Len(new)]
    BY <2>1
  <2>5. new \o tail \in Seq(Names)
    BY <2>1
  <2>6. Len(new \o tail) = Len(new) + Len(tail)
    BY <2>1
  <2>3. ASSUME NEW i \in 1 .. Len(new) PROVE (new \o tail)[i] = new[i]
    BY <1>1, <1>2, <2>2
  <2>4. ASSUME NEW i \in 1 .. Len(tail) PROVE (new \o tail)[Len(new) + i] = tail[i]
    <3>1. /\ Len(new) + i \in 1 .. Len(new) + Len(tail) /\ ~ (Len(new) + i <= Len(new))
          /\ (Len(new) + i) - Len(new) = i
      BY <1>1, <1>2
    <3>. QED BY <2>2, <3>1
  <2>. QED BY <2>3, <2>4, <2>5, <2>6
<1>. QED BY <1>1, <1>2, <1>3 DEF Target, tail

LEMMA TargetOfOld ==
    ASSUME NEW old \in Paths, NEW new \in Paths
    PROVE  Target(old, old, new) = new
<1>1. /\ Target(old, old, new) \in Seq(Names)
      /\ Len(Target(old, old, new)) = Len(new) + Len(old) - Len(old)
      /\ \A i \in 1 .. Len(new) : Target(old, old, new)[i] = new[i]
  BY TargetAt DEF Along
<1>2. /\ new \in Seq(Names) /\ Len(new) \in Nat /\ Len(old) \in Nat
  BY PathType
<1>. QED BY <1>1, <1>2, SeqEqual

\* Targets are the new path and paths inside of it, and as far apart as the
\* paths they belong to.
LEMMA TargetOrder ==
    ASSUME NEW old \in Paths, NEW new \in Paths,
           NEW q \in Paths, Along(q, old), NEW r \in Paths, Along(r, old)
    PROVE  /\ Target(q, old, new) = new \/ Above(new, Target(q, old, new))
           /\ Target(q, old, new) = Target(r, old, new) => q = r
           /\ Above(old, q) => Above(new, Target(q, old, new))
<1> DEFINE t == Target(q, old, new)
           u == Target(r, old, new)
<1>1. /\ t \in Seq(Names) /\ Len(t) = Len(new) + Len(q) - Len(old)
      /\ \A i \in 1 .. Len(new) : t[i] = new[i]
      /\ \A i \in 1 .. Len(q) - Len(old) : t[Len(new) + i] = q[Len(old) + i]
  BY TargetAt
<1>2. /\ u \in Seq(Names) /\ Len(u) = Len(new) + Len(r) - Len(old)
      /\ \A i \in 1 .. Len(new) : u[i] = new[i]
      /\ \A i \in 1 .. Len(r) - Len(old) : u[Len(new) + i] = r[Len(old) + i]
  BY TargetAt
<1>3. /\ old \in Seq(Names) /\ new \in Seq(Names) /\ q \in Seq(Names) /\ r \in Seq(Names)
      /\ Len(old) \in Nat /\ Len(new) \in Nat /\ Len(q) \in Nat /\ Len(r) \in Nat
      /\ Len(old) <= Len(q) /\ Len(old) <= Len(r)
      /\ \A i \in 1 .. Len(old) : q[i] = old[i] /\ r[i] = old[i]
  BY PathType DEF Along, Above
<1>4. t = new \/ Above(new, t)
  BY <1>1, <1>3, TargetOfOld DEF Along, Above
<1>5. Above(old, q) => Above(new, t)
  BY <1>1, <1>3 DEF Above
<1> HIDE DEF t, u
<1>6. ASSUME t = u PROVE q = r
  <2>1. Len(q) = Len(r)
    BY <1>1, <1>2, <1>3, <1>6
  <2>2. ASSUME NEW i \in 1 .. Len(q) PROVE q[i] = r[i]
    <3>1. CASE i <= Len(old)
      BY <1>3, <3>1
    <3>2. CASE i > Len(old)
      <4>1. /\ i - Len(old) \in 1 .. Len(q) - Len(old)
            /\ i - Len(old) \in 1 .. Len(r) - Len(old)
            /\ Len(old) + (i - Len(old)) = i
        BY <1>3, <2>1, <3>2
      <4>2. t[Len(new) + (i - Len(old))] = q[i] /\ u[Len(new) + (i - Len(old))] = r[i]
        BY <1>1, <1>2, <4>1
      <4>. QED BY <1>6, <4>2
    <3>. QED BY <1>3, <3>1, <3>2
  <2>. QED BY <1>3, <2>1, <2>2, SeqEqual
<1>. QED BY <1>4, <1>5, <1>6 DEF t, u

\* What is above a target is above the new path, is the new path, or is itself a
\* target, of a path above.
LEMMA AboveTarget ==
    ASSUME NEW old \in Paths, NEW new \in Paths, NEW q \in Paths, Along(q, old),
           NEW a \in Paths, Above(a, Target(q, old, new))
    PROVE  \/ Above(a, new)
           \/ \E r \in Paths : /\ Along(r, old) /\ Above(r, q)
                               /\ a = Target(r, old, new)
<1> DEFINE t == Target(q, old, new)
<1>1. /\ t \in Seq(Names) /\ Len(t) = Len(new) + Len(q) - Len(old)
      /\ \A i \in 1 .. Len(new) : t[i] = new[i]
      /\ \A i \in 1 .. Len(q) - Len(old) : t[Len(new) + i] = q[Len(old) + i]
  BY TargetAt
<1>2. /\ old \in Seq(Names) /\ new \in Seq(Names) /\ q \in Seq(Names) /\ a \in Seq(Names)
      /\ Len(old) \in Nat \ {0} /\ Len(new) \in Nat /\ Len(q) \in Nat /\ Len(a) \in Nat
      /\ Len(old) <= Len(q) /\ Len(q) <= MaxDepth
      /\ \A i \in 1 .. Len(old) : q[i] = old[i]
  BY PathType, BoundsAssumption DEF Along, Above
<1>3. Len(a) < Len(t) /\ \A i \in 1 .. Len(a) : a[i] = t[i]
  BY DEF Above
<1> HIDE DEF t
<1>4. CASE Len(a) < Len(new)
  BY <1>1, <1>2, <1>3, <1>4 DEF Above
<1>5. CASE Len(a) >= Len(new)
  <2>1. PICK n \in Int : n = Len(a) - Len(new) + Len(old)
    <3>1. Len(a) - Len(new) + Len(old) \in Int
      BY <1>2
    <3>. QED BY <3>1
  <2>2. n \in 0 .. Len(q) /\ n \in 1 .. MaxDepth /\ Len(old) <= n /\ n < Len(q)
    BY <1>1, <1>2, <1>3, <1>5, <2>1, BoundsAssumption
  <2>3. PICK r \in Paths : /\ Along(r, old) /\ Above(r, q) /\ Len(r) = n
                           /\ \A i \in 1 .. n : r[i] = q[i]
    <3>1. PICK r \in Seq(Names) : Len(r) = n /\ \A i \in 1 .. n : r[i] = q[i]
      BY <2>2, Front
    <3>2. r \in Paths /\ Above(r, q)
      BY <2>2, <3>1, PathType DEF Above
    <3>3. \A i \in 1 .. Len(old) : r[i] = old[i]
      BY <1>2, <2>2, <3>1
    <3>4. n = Len(old) => r = old
      BY <1>2, <3>1, <3>3, SeqEqual
    <3>5. n # Len(old) => Above(old, r)
      BY <1>2, <2>2, <3>1, <3>3 DEF Above
    <3>6. Along(r, old)
      BY <3>4, <3>5 DEF Along
    <3>. QED BY <3>1, <3>2, <3>6
  <2> DEFINE u == Target(r, old, new)
  <2>4. u \in Seq(Names)
    BY <2>3, TargetAt
  <2>5. Len(u) = Len(a)
    <3>1. Len(u) = Len(new) + Len(r) - Len(old)
      BY <2>3, TargetAt
    <3>. QED BY <1>2, <2>1, <2>3, <3>1
  <2>6. \A i \in 1 .. Len(new) : u[i] = new[i]
    BY <2>3, TargetAt
  <2>7. \A i \in 1 .. Len(r) - Len(old) : u[Len(new) + i] = r[Len(old) + i]
    BY <2>3, TargetAt
  <2> HIDE DEF u
  <2>8. ASSUME NEW i \in 1 .. Len(a) PROVE a[i] = u[i]
    <3>1. CASE i <= Len(new)
      BY <1>1, <1>2, <1>3, <2>6, <3>1
    <3>2. CASE i > Len(new)
      <4>1. PICK j \in Nat : i = Len(new) + j
        <5>1. i - Len(new) \in Nat /\ i = Len(new) + (i - Len(new))
          BY <1>2, <3>2
        <5>. QED BY <5>1
      <4>2. /\ j \in 1 .. Len(r) - Len(old) /\ j \in 1 .. Len(q) - Len(old)
            /\ Len(old) + j \in 1 .. n
        BY <1>2, <2>1, <2>2, <2>3, <3>2, <4>1
      <4>3. a[i] = q[Len(old) + j] /\ u[i] = r[Len(old) + j]
        BY <1>1, <1>3, <2>7, <4>1, <4>2
      <4>. QED BY <2>3, <4>2, <4>3
    <3>. QED BY <1>2, <3>1, <3>2
  <2>9. a = u
    BY <1>2, <2>4, <2>5, <2>8, SeqEqual
  <2>. QED BY <2>3, <2>9 DEF u
<1>. QED BY <1>2, <1>4, <1>5

----------------------------------------------------------------------------
(* The loop of RenameFile.                                                 *)

Map == entries \in [DOMAIN entries -> File \cup {Folder}]

MapTyped ==
    /\ DOMAIN entries \subseteq Paths
    /\ \A p \in DOMAIN entries : entries[p] \in File \cup {Folder}

\* Strengthening of MapTyped and TreeOK that their steps need.
TInv ==
    /\ MapTyped
    /\ TreeOK
    /\ Map
    /\ IsFiniteSet(DOMAIN entries)

NoFileAbove(p) == \A a \in Ancestors(p) : ~ IsFile(a)

\* What Rename asks for.
MayRename(old, new) ==
    /\ old \in DOMAIN entries
    /\ new # old
    /\ ~ Inside(new, old)
    /\ ~ IsFolder(new)
    /\ \A q \in Subtree(old) : Target(q, old, new) \in Paths

\* The places the paths of S have moved to.
Places(S, old, new) == {Target(q, old, new) : q \in S}

\* The map once the paths of S have moved.
AfterMoves(S, old, new) ==
    [p \in (DOMAIN entries \ S) \cup Places(S, old, new) |->
        IF p \in Places(S, old, new)
        THEN entries[CHOOSE q \in S : Target(q, old, new) = p]
        ELSE entries[p]]

\* The paths of the subtree are in the tree, and go along.
LEMMA SubtreeGoesAlong ==
    ASSUME TInv, NEW old \in Paths, old \in DOMAIN entries
    PROVE  /\ Subtree(old) \subseteq DOMAIN entries
           /\ Subtree(old) \subseteq Paths
           /\ \A q \in Subtree(old) : Along(q, old)
           /\ \A q \in DOMAIN entries : Along(q, old) => q \in Subtree(old)
           /\ IsFiniteSet(Subtree(old))
<1>1. DOMAIN entries \subseteq Paths /\ IsFiniteSet(DOMAIN entries)
  BY DEF TInv, MapTyped
<1>2. Subtree(old) \subseteq DOMAIN entries
  BY DEF Subtree
<1>3. \A q \in Subtree(old) : Along(q, old)
  BY <1>1, InsideIsBelow DEF Subtree, Along
<1>4. ASSUME NEW q \in DOMAIN entries, Along(q, old) PROVE q \in Subtree(old)
  <2>1. CASE q = old
    BY <2>1 DEF Subtree
  <2>2. CASE Above(old, q)
    <3>1. old \in Ancestors(q) /\ Inside(q, old)
      BY <1>1, <2>2, AncestorsAreAbove, InsideIsBelow
    <3>2. entries[old] = Folder
      BY <3>1 DEF TInv, TreeOK, IsFolder
    <3>. QED BY <3>1, <3>2 DEF Subtree
  <2>. QED BY <1>4, <2>1, <2>2 DEF Along
<1>5. IsFiniteSet(Subtree(old))
  BY <1>1, <1>2, FS_Subset
<1>. QED BY <1>1, <1>2, <1>3, <1>4, <1>5

\* No path of the subtree is the place another moves to: nothing that has moved
\* is moved again or overwritten.
LEMMA PlacesAreApart ==
    ASSUME TInv, NEW old \in Paths, NEW new \in Paths, MayRename(old, new),
           NEW q \in Subtree(old), NEW r \in Subtree(old)
    PROVE  /\ Target(q, old, new) # r
           /\ Target(q, old, new) = Target(r, old, new) => q = r
<1>1. /\ q \in Paths /\ r \in Paths /\ Along(q, old) /\ Along(r, old)
      /\ r \in DOMAIN entries
      /\ DOMAIN entries \subseteq Paths
  BY SubtreeGoesAlong DEF MayRename, TInv, MapTyped
<1>2. Target(q, old, new) = Target(r, old, new) => q = r
  BY <1>1, TargetOrder
<1>3. ASSUME Target(q, old, new) = r PROVE FALSE
  <2>1. r = new \/ Above(new, r)
    BY <1>1, <1>3, TargetOrder
  <2>2. new # old /\ ~ Above(old, new) /\ ~ IsFolder(new)
    BY InsideIsBelow DEF MayRename
  <2>3. Above(new, old) \/ Above(old, new)
    BY <1>1, <2>1, <2>2, AboveOrder DEF Along
  <2>4. new \in Ancestors(old) /\ old \in DOMAIN entries
    BY <2>2, <2>3, AncestorsAreAbove DEF MayRename
  <2>. QED BY <2>2, <2>4 DEF TInv, TreeOK
<1>. QED BY <1>2, <1>3

LEMMA AtPlace ==
    ASSUME TInv, NEW old \in Paths, NEW new \in Paths, MayRename(old, new),
           NEW S \in SUBSET Subtree(old), NEW q \in S
    PROVE  AfterMoves(S, old, new)[Target(q, old, new)] = entries[q]
<1> DEFINE t == Target(q, old, new)
           c == CHOOSE r \in S : Target(r, old, new) = t
<1>1. t \in Places(S, old, new)
  BY DEF Places
<1>2. c \in S /\ Target(c, old, new) = t
  OBVIOUS
<1>3. c = q
  BY <1>2, PlacesAreApart
<1>4. AfterMoves(S, old, new)[t] = entries[c]
  BY <1>1 DEF AfterMoves
<1>. QED BY <1>3, <1>4

\* One turn of the loop.
LEMMA MoveOne ==
    ASSUME TInv, NEW old \in Paths, NEW new \in Paths, MayRename(old, new),
           NEW S \in SUBSET Subtree(old), NEW q \in Subtree(old) \ S
    PROVE  Move(AfterMoves(S, old, new), q, old, new) = AfterMoves(S \cup {q}, old, new)
<1> DEFINE M == AfterMoves(S, old, new)
           N == AfterMoves(S \cup {q}, old, new)
           t == Target(q, old, new)
           at == Places(S, old, new)
<1>1. q \in DOMAIN entries /\ S \subseteq DOMAIN entries
  BY SubtreeGoesAlong DEF MayRename
<1>2. q \notin at /\ t \notin at /\ q # t
  BY PlacesAreApart DEF Places
<1>3. Places(S \cup {q}, old, new) = at \cup {t}
  BY DEF Places
<1>4. DOMAIN M = (DOMAIN entries \ S) \cup at
  BY DEF AfterMoves
<1>5. DOMAIN N = (DOMAIN entries \ (S \cup {q})) \cup at \cup {t}
  BY <1>3 DEF AfterMoves
<1>6. M[q] = entries[q]
  BY <1>1, <1>2 DEF AfterMoves
<1>7. N[t] = entries[q]
  BY AtPlace
<1>8. ASSUME NEW p \in DOMAIN N, p # t PROVE N[p] = M[p]
  <2>1. CASE p \in at
    <3>1. PICK r \in S : p = Target(r, old, new)
      BY <2>1 DEF Places
    <3>2. M[p] = entries[r]
      BY <3>1, AtPlace
    <3>3. N[p] = entries[r]
      <4>1. r \in S \cup {q} /\ S \cup {q} \in SUBSET Subtree(old)
        OBVIOUS
      <4>. QED BY <3>1, <4>1, AtPlace
    <3>. QED BY <3>2, <3>3
  <2>2. CASE p \notin at
    <3>1. p \in DOMAIN entries \ (S \cup {q})
      BY <1>5, <1>8, <2>2
    <3>2. M[p] = entries[p]
      BY <2>2, <3>1 DEF AfterMoves
    <3>3. N[p] = entries[p]
      BY <1>3, <1>8, <2>2, <3>1 DEF AfterMoves
    <3>. QED BY <3>2, <3>3
  <2>. QED BY <2>1, <2>2
<1>9. N = [p \in DOMAIN N |-> N[p]]
  BY DEF AfterMoves
<1> HIDE DEF M, N, t, at
<1>10. Move(M, q, old, new) =
        [p \in (DOMAIN M \cup {t}) \ {q} |-> IF p = t THEN M[q] ELSE M[p]]
  BY DEF Move, Drop, Put, t
<1>11. (DOMAIN M \cup {t}) \ {q} = DOMAIN N
  BY <1>1, <1>2, <1>4, <1>5
<1>12. Move(M, q, old, new) = [p \in DOMAIN N |-> N[p]]
  BY <1>6, <1>7, <1>8, <1>10, <1>11
<1>. QED BY <1>9, <1>12 DEF M, N

\* Every non-empty set of natural numbers has a least element.
LEMMA Least ==
    ASSUME NEW S \in SUBSET Nat, S # {}
    PROVE  \E m \in S : \A k \in S : m <= k
<1>1. IsWellFoundedOn(OpToRel(<, Nat), Nat)
  BY NatLessThanWellFounded, Zenon
<1>2. PICK m \in S : \A k \in S : <<k, m>> \notin OpToRel(<, Nat)
  BY <1>1, WFMin, Zenon
<1>3. \A k \in S : k < m => <<k, m>> \in OpToRel(<, Nat)
  BY Zenon DEF OpToRel
<1>4. \A k \in S : ~ (k < m)
  BY <1>2, <1>3, Zenon
<1>. QED BY <1>4

\* The states of the loop after n turns: which paths have moved is open.
States(n, old, new) ==
    {[map |-> AfterMoves(S, old, new), left |-> Subtree(old) \ S] :
        S \in {R \in SUBSET Subtree(old) : Cardinality(R) = n}}

\* What a turn makes of the states.
Turn(states, old, new) ==
    UNION {{[map |-> Move(m.map, q, old, new), left |-> m.left \ {q}] :
                q \in m.left} : m \in states}

LEMMA FirstState ==
    ASSUME TInv, NEW old \in Paths, NEW new \in Paths, MayRename(old, new)
    PROVE  States(0, old, new) = {[map |-> entries, left |-> Subtree(old)]}
<1>1. IsFiniteSet(Subtree(old))
  BY SubtreeGoesAlong DEF MayRename
<1>2. {R \in SUBSET Subtree(old) : Cardinality(R) = 0} = {{}}
  BY <1>1, FS_Subset, FS_EmptySet
<1>3. Places({}, old, new) = {}
  BY DEF Places
<1>4. AfterMoves({}, old, new) = entries
  BY <1>3 DEF AfterMoves, TInv, Map
<1>. QED BY <1>2, <1>4 DEF States

LEMMA NextStates ==
    ASSUME TInv, NEW old \in Paths, NEW new \in Paths, MayRename(old, new),
           NEW n \in Nat, n < Cardinality(Subtree(old))
    PROVE  States(n + 1, old, new) = Turn(States(n, old, new), old, new)
<1> DEFINE Sub == Subtree(old)
           State(S) == [map |-> AfterMoves(S, old, new), left |-> Sub \ S]
<1>1. IsFiniteSet(Sub)
  BY SubtreeGoesAlong DEF MayRename
<1>2. ASSUME NEW S \in SUBSET Sub, NEW q \in Sub \ S
      PROVE  [map |-> Move(State(S).map, q, old, new), left |-> State(S).left \ {q}]
                = State(S \cup {q})
  BY MoveOne
<1>3. ASSUME NEW S \in SUBSET Sub, NEW q \in Sub \ S
      PROVE  Cardinality(S \cup {q}) = Cardinality(S) + 1 /\ Cardinality(S) \in Nat
  BY <1>1, FS_Subset, FS_AddElement, FS_CardinalityType
<1>4. ASSUME NEW x \in Turn(States(n, old, new), old, new)
      PROVE  x \in States(n + 1, old, new)
  <2>1. PICK m \in States(n, old, new) :
            \E q \in m.left : x = [map |-> Move(m.map, q, old, new), left |-> m.left \ {q}]
    BY <1>4 DEF Turn
  <2>2. PICK q \in m.left : x = [map |-> Move(m.map, q, old, new), left |-> m.left \ {q}]
    BY <2>1
  <2>3. PICK S \in SUBSET Sub : Cardinality(S) = n /\ m = State(S)
    BY DEF States
  <2>4. q \in Sub \ S
    BY <2>2, <2>3
  <2>5. x = State(S \cup {q}) /\ Cardinality(S \cup {q}) = n + 1
    BY <1>2, <1>3, <2>2, <2>3, <2>4
  <2>6. S \cup {q} \in SUBSET Sub
    BY <2>4
  <2>. QED BY <2>5, <2>6 DEF States
<1>5. ASSUME NEW x \in States(n + 1, old, new)
      PROVE  x \in Turn(States(n, old, new), old, new)
  <2>1. PICK R \in SUBSET Sub : Cardinality(R) = n + 1 /\ x = State(R)
    BY <1>5 DEF States
  <2>2. R # {}
    BY <2>1, FS_EmptySet
  <2>3. PICK q \in R : TRUE
    BY <2>2
  <2>4. Cardinality(R \ {q}) = n
    <3>1. IsFiniteSet(R)
      BY <1>1, <2>1, FS_Subset
    <3>2. Cardinality(R \ {q}) = Cardinality(R) - 1
      BY <2>3, <3>1, FS_RemoveElement
    <3>. QED BY <2>1, <3>2
  <2>5. q \in Sub \ (R \ {q}) /\ (R \ {q}) \cup {q} = R /\ R \ {q} \in SUBSET Sub
    BY <2>3
  <2>6. x = [map |-> Move(State(R \ {q}).map, q, old, new),
             left |-> State(R \ {q}).left \ {q}]
    BY <1>2, <2>1, <2>5
  <2>7. State(R \ {q}) \in States(n, old, new) /\ q \in State(R \ {q}).left
    BY <2>4, <2>5 DEF States
  <2>8. \A states : \A m \in states : \A r \in m.left :
            [map |-> Move(m.map, r, old, new), left |-> m.left \ {r}]
                \in Turn(states, old, new)
    BY DEF Turn
  <2> HIDE DEF State
  <2>. QED BY <2>6, <2>7, <2>8, Zenon
<1>. QED BY <1>4, <1>5

\* Whatever order the moves are made in, the map is the same in the end.
LEMMA OneOutcome ==
    ASSUME TInv, NEW old \in Paths, NEW new \in Paths, MayRename(old, new)
    PROVE  MovesOf(old, new) = {AfterMoves(Subtree(old), old, new)}
<1> DEFINE c == Cardinality(Subtree(old))
           Step(g, n) == IF n = 0 THEN {[map |-> entries, left |-> Subtree(old)]}
                         ELSE Turn(g[n - 1], old, new)
           f == CHOOSE g : g = [n \in 0 .. c |-> Step(g, n)]
<1>1. IsFiniteSet(Subtree(old)) /\ c \in Nat
  BY SubtreeGoesAlong, FS_CardinalityType DEF MayRename
<1>2. \E g : g = [n \in 0 .. c |-> Step(g, n)]
  <2> DEFINE w == [n \in 0 .. c |-> States(n, old, new)]
  <2>1. ASSUME NEW n \in 0 .. c PROVE w[n] = Step(w, n)
    <3>1. CASE n = 0
      BY <3>1, FirstState
    <3>2. CASE n # 0
      <4>1. n - 1 \in Nat /\ n - 1 < c /\ n - 1 \in 0 .. c /\ (n - 1) + 1 = n
        BY <1>1, <3>2
      <4>2. States((n - 1) + 1, old, new) = Turn(States(n - 1, old, new), old, new)
        BY <4>1, NextStates
      <4>3. w[n - 1] = States(n - 1, old, new) /\ w[n] = States(n, old, new)
        BY <4>1
      <4>. QED BY <3>2, <4>1, <4>2, <4>3
    <3>. QED BY <3>1, <3>2
  <2>2. w = [n \in 0 .. c |-> Step(w, n)]
    BY <2>1
  <2>. QED BY <2>2
<1>3. f = [n \in 0 .. c |-> Step(f, n)]
  BY <1>2
<1>4. MovesOf(old, new) = {m.map : m \in f[c]}
  BY DEF MovesOf, Turn
<1> HIDE DEF f
<1>5. \A n \in 0 .. c : f[n] = States(n, old, new)
  <2> DEFINE Bad == {n \in 0 .. c : f[n] # States(n, old, new)}
  <2>1. SUFFICES ASSUME Bad # {} PROVE FALSE
    OBVIOUS
  <2>2. PICK k \in Bad : \A n \in Bad : k <= n
    <3>1. Bad \in SUBSET Nat
      BY <1>1
    <3>. QED BY <2>1, <3>1, Least, Zenon
  <2>3. k # 0
    BY <1>1, <1>3, FirstState
  <2>4. k - 1 \in Nat /\ k - 1 < c /\ k - 1 \in 0 .. c /\ (k - 1) + 1 = k
    BY <1>1, <2>3
  <2>5. f[k - 1] = States(k - 1, old, new)
    BY <2>2, <2>4
  <2>6. f[k] = Turn(f[k - 1], old, new)
    BY <1>3, <2>3
  <2>7. States((k - 1) + 1, old, new) = Turn(States(k - 1, old, new), old, new)
    BY <2>4, NextStates
  <2>. QED BY <2>4, <2>5, <2>6, <2>7
<1>6. f[c] = States(c, old, new)
  BY <1>1, <1>5
<1>7. {R \in SUBSET Subtree(old) : Cardinality(R) = c} = {Subtree(old)}
  BY <1>1, FS_Subset
<1>8. States(c, old, new) = {[map |-> AfterMoves(Subtree(old), old, new), left |-> {}]}
  BY <1>7 DEF States
<1>. QED BY <1>4, <1>6, <1>8

----------------------------------------------------------------------------
(* The operations.                                                         *)

LEMMA FiniteAncestors ==
    ASSUME NEW p \in Paths
    PROVE  IsFiniteSet(Ancestors(p)) /\ Ancestors(p) \subseteq Paths
<1>1. Len(p) \in Nat
  BY PathType
<1> DEFINE f == [n \in 1 .. Len(p) - 1 |-> SubSeq(p, 1, n)]
<1>2. f \in Surjection(1 .. Len(p) - 1, Ancestors(p))
  BY DEF Surjection, Ancestors
<1>3. IsFiniteSet(1 .. Len(p) - 1)
  BY <1>1, FS_Interval
<1>4. IsFiniteSet(Ancestors(p))
  BY <1>2, <1>3, FS_Surjection
<1>. QED BY <1>4, AncestorsAreAbove

\* ensureFolders turns any finite map of folders and files into one that is
\* closed above p, given that no file is there.
LEMMA EnsuringKeepsType ==
    ASSUME NEW map, IsFiniteSet(DOMAIN map), DOMAIN map \subseteq Paths,
           \A q \in DOMAIN map : map[q] \in File \cup {Folder},
           NEW p \in Paths, entries' = EnsureFolders(map, p)
    PROVE  MapTyped' /\ Map' /\ IsFiniteSet(DOMAIN entries')
<1>1. DOMAIN entries' = DOMAIN map \cup Ancestors(p)
  BY DEF EnsureFolders
<1>2. IsFiniteSet(DOMAIN entries') /\ DOMAIN entries' \subseteq Paths
  BY <1>1, FiniteAncestors, FS_Union
<1>3. \A q \in DOMAIN entries' : entries'[q] \in File \cup {Folder}
  BY DEF EnsureFolders
<1>4. entries' = [q \in DOMAIN entries' |-> entries'[q]]
  BY DEF EnsureFolders
<1>. QED BY <1>2, <1>3, <1>4 DEF MapTyped, Map

\* Mkdir and AddFile keep the tree: p may not be below a file, nor, unless it is
\* to be a folder, the place of one.
LEMMA PutKeepsTree ==
    ASSUME TInv, NEW p \in Paths, NEW e \in File \cup {Folder}, NoFileAbove(p),
           e = Folder \/ ~ IsFolder(p),
           entries' = EnsureFolders(Put(entries, p, e), p)
    PROVE  TInv'
<1> DEFINE map == Put(entries, p, e)
<1>1. /\ DOMAIN map = DOMAIN entries \cup {p}
      /\ map[p] = e
      /\ \A q \in DOMAIN entries : q # p => map[q] = entries[q]
  BY DEF Put
<1>2. /\ DOMAIN entries' = DOMAIN entries \cup {p} \cup Ancestors(p)
      /\ \A q \in DOMAIN map : entries'[q] = map[q]
      /\ \A q \in Ancestors(p) : q \notin DOMAIN map => entries'[q] = Folder
  BY <1>1 DEF EnsureFolders
<1>3. p \notin Ancestors(p)
  BY AncestorsAreAbove, AboveOrder
<1>4. ASSUME NEW a \in Ancestors(p) PROVE a \in DOMAIN entries' /\ entries'[a] = Folder
  BY <1>1, <1>2, <1>3 DEF NoFileAbove, IsFile
<1>5. ASSUME NEW q \in DOMAIN entries', NEW a \in Ancestors(q)
      PROVE  a \in DOMAIN entries' /\ entries'[a] = Folder
  <2>1. CASE q = p
    BY <1>4, <1>5, <2>1
  <2>2. CASE q \in Ancestors(p)
    <3>1. a \in Ancestors(p)
      <4>1. q \in Paths /\ a \in Paths /\ Above(q, p) /\ Above(a, q)
        BY <1>5, <2>2, AncestorsAreAbove
      <4>. QED BY <4>1, AboveOrder, AncestorsAreAbove
    <3>. QED BY <1>4, <3>1
  <2>3. CASE q \in DOMAIN entries
    <3>1. a \in DOMAIN entries /\ entries[a] = Folder
      BY <1>5, <2>3 DEF TInv, TreeOK, IsFolder
    <3>2. a = p => e = Folder
      BY <3>1 DEF IsFolder
    <3>. QED BY <1>1, <1>2, <3>1, <3>2
  <2>. QED BY <1>2, <2>1, <2>2, <2>3
<1>6. /\ IsFiniteSet(DOMAIN map) /\ DOMAIN map \subseteq Paths
      /\ \A q \in DOMAIN map : map[q] \in File \cup {Folder}
  <2>1. IsFiniteSet(DOMAIN map)
    BY <1>1, FS_AddElement DEF TInv
  <2>. QED BY <1>1, <2>1 DEF TInv, MapTyped
<1> HIDE DEF map
<1>7. MapTyped' /\ Map' /\ IsFiniteSet(DOMAIN entries')
  BY <1>6, EnsuringKeepsType DEF map
<1>. QED BY <1>5, <1>7 DEF TInv, TreeOK, IsFolder

\* RemoveFile takes the whole subtree.
LEMMA RemoveKeepsTree ==
    ASSUME TInv, NEW p \in Paths, RemoveFile(p)
    PROVE  TInv'
<1>1. /\ DOMAIN entries' = DOMAIN entries \ Subtree(p)
      /\ \A q \in DOMAIN entries' : entries'[q] = entries[q]
      /\ entries' = [q \in DOMAIN entries' |-> entries'[q]]
      /\ p \in DOMAIN entries
  BY DEF RemoveFile, Drop
<1>2. ASSUME NEW q \in DOMAIN entries', NEW a \in Ancestors(q)
      PROVE  a \in DOMAIN entries' /\ entries'[a] = Folder
  <2>1. a \in DOMAIN entries /\ entries[a] = Folder
    BY <1>1, <1>2 DEF TInv, TreeOK, IsFolder
  <2>2. q \in Paths /\ a \in Paths /\ Above(a, q)
    BY <1>1, <1>2, AncestorsAreAbove DEF TInv, MapTyped
  <2>3. a \in Subtree(p) => q \in Subtree(p)
    <3>1. SUFFICES ASSUME a \in Subtree(p) PROVE Along(q, p)
      BY <1>1, SubtreeGoesAlong
    <3>2. a = p \/ Above(p, a)
      BY <1>1, <3>1, SubtreeGoesAlong DEF Along
    <3>. QED BY <2>2, <3>2, AboveOrder DEF Along
  <2>. QED BY <1>1, <2>1, <2>3
<1>3. IsFiniteSet(DOMAIN entries')
  BY <1>1, FS_Subset DEF TInv
<1>. QED BY <1>1, <1>2, <1>3 DEF TInv, MapTyped, TreeOK, IsFolder, Map

\* RenameFile, to a place that is not below a file.
LEMMA RenameKeepsTree ==
    ASSUME TInv, NEW old \in Paths, NEW new \in Paths, Rename(old, new),
           NoFileAbove(new)
    PROVE  TInv'
<1> DEFINE Sub == Subtree(old)
           at == Places(Sub, old, new)
           map == AfterMoves(Sub, old, new)
<1>1. MayRename(old, new)
  BY DEF Rename, RenameFile, MayRename
<1>2. entries' = EnsureFolders(map, new)
  BY <1>1, OneOutcome DEF Rename, RenameFile
<1>3. /\ Sub \subseteq DOMAIN entries /\ Sub \subseteq Paths
      /\ \A q \in Sub : Along(q, old)
      /\ \A q \in DOMAIN entries : Along(q, old) => q \in Sub
      /\ IsFiniteSet(Sub)
  BY <1>1, SubtreeGoesAlong DEF MayRename
<1>4. DOMAIN map = (DOMAIN entries \ Sub) \cup at
  BY DEF AfterMoves
<1>5. \A q \in Sub : map[Target(q, old, new)] = entries[q]
  BY <1>1, AtPlace
<1>6. \A p \in DOMAIN entries \ Sub : p \notin at => map[p] = entries[p]
  BY DEF AfterMoves
<1>7. at \subseteq Paths /\ \A p \in at : \E q \in Sub : p = Target(q, old, new)
  BY <1>1 DEF Places, MayRename
<1>8. /\ DOMAIN entries \subseteq Paths /\ IsFiniteSet(DOMAIN entries)
      /\ \A q \in DOMAIN entries : entries[q] \in File \cup {Folder}
      /\ \A q \in DOMAIN entries : \A a \in Ancestors(q) :
            a \in DOMAIN entries /\ entries[a] = Folder
  BY DEF TInv, MapTyped, TreeOK, IsFolder
<1>9. /\ IsFiniteSet(DOMAIN map) /\ DOMAIN map \subseteq Paths
      /\ \A q \in DOMAIN map : map[q] \in File \cup {Folder}
  <2> DEFINE f == [q \in Sub |-> Target(q, old, new)]
  <2>1. f \in Surjection(Sub, at)
    BY DEF Surjection, Places
  <2>2. IsFiniteSet(at)
    BY <1>3, <2>1, FS_Surjection
  <2>3. IsFiniteSet(DOMAIN entries \ Sub)
    BY <1>8, FS_Subset
  <2>4. IsFiniteSet(DOMAIN map)
    BY <1>4, <2>2, <2>3, FS_Union
  <2>. QED BY <1>3, <1>4, <1>5, <1>6, <1>7, <1>8, <2>4
<1> HIDE DEF Sub, at, map
<1>10. /\ DOMAIN entries' = DOMAIN map \cup Ancestors(new)
       /\ \A q \in DOMAIN map : entries'[q] = map[q]
       /\ \A q \in Ancestors(new) : q \notin DOMAIN map => entries'[q] = Folder
  BY <1>2 DEF EnsureFolders
<1>11. ASSUME NEW p \in at, NEW a, a \in Ancestors(new) \/ IsFolder(a), a \in Paths,
              a = p
       PROVE  FALSE
  <2>1. PICK q \in Sub : p = Target(q, old, new)
    BY <1>7
  <2>2. a = new \/ Above(new, a)
    BY <1>3, <1>11, <2>1, TargetOrder
  <2>3. ~ IsFolder(new)
    BY <1>1 DEF MayRename
  <2>4. CASE a \in Ancestors(new)
    <3>1. Above(a, new)
      BY <2>4, AncestorsAreAbove
    <3>. QED BY <1>11, <2>2, <3>1, AboveOrder
  <2>5. CASE IsFolder(a)
    <3>1. new \in Ancestors(a) /\ a \in DOMAIN entries
      BY <1>11, <2>2, <2>3, <2>5, AncestorsAreAbove DEF IsFolder
    <3>. QED BY <1>8, <2>3, <3>1 DEF IsFolder
  <2>. QED BY <1>11, <2>4, <2>5
<1>12. ASSUME NEW a \in Ancestors(new) PROVE a \in DOMAIN entries' /\ entries'[a] = Folder
  <2>1. a \in DOMAIN entries => entries[a] = Folder
    BY DEF NoFileAbove, IsFile
  <2>2. a \in Paths /\ a \notin at
    BY <1>11, AncestorsAreAbove
  <2>. QED BY <1>4, <1>6, <1>10, <2>1, <2>2
<1>13. ASSUME NEW p \in DOMAIN entries', NEW a \in Ancestors(p)
       PROVE  a \in DOMAIN entries' /\ entries'[a] = Folder
  <2>0. p \in Paths /\ a \in Paths /\ Above(a, p)
    BY <1>9, <1>10, <1>13, FiniteAncestors, AncestorsAreAbove
  <2>1. CASE p \in Ancestors(new)
    <3>1. a \in Ancestors(new)
      BY <2>0, <2>1, AboveOrder, AncestorsAreAbove
    <3>. QED BY <1>12, <3>1
  <2>2. CASE p \in at
    <3>1. PICK q \in Sub : p = Target(q, old, new)
      BY <1>7, <2>2
    <3>2. q \in Paths /\ Along(q, old) /\ q \in DOMAIN entries
      BY <1>3
    <3>3. CASE Above(a, new)
      BY <1>12, <2>0, <3>3, AncestorsAreAbove
    <3>4. CASE \E r \in Paths : /\ Along(r, old) /\ Above(r, q)
                                /\ a = Target(r, old, new)
      <4>1. PICK r \in Paths : Along(r, old) /\ Above(r, q) /\ a = Target(r, old, new)
        BY <3>4
      <4>2. r \in DOMAIN entries /\ entries[r] = Folder
        BY <1>8, <3>2, <4>1, AncestorsAreAbove
      <4>3. r \in Sub
        BY <1>3, <4>1, <4>2
      <4>4. a \in DOMAIN map /\ map[a] = Folder
        BY <1>4, <1>5, <4>1, <4>2, <4>3 DEF at, Places
      <4>. QED BY <1>10, <4>4
    <3>. QED BY <2>0, <3>1, <3>2, <3>3, <3>4, AboveTarget
  <2>3. CASE p \in DOMAIN entries \ Sub
    <3>1. a \in DOMAIN entries /\ entries[a] = Folder
      BY <1>8, <1>13, <2>3
    <3>2. a \notin at
      BY <1>11, <2>0, <3>1 DEF IsFolder
    <3>3. a \notin Sub
      <4>1. SUFFICES ASSUME a \in Sub PROVE Along(p, old)
        BY <1>3, <2>3
      <4>2. a = old \/ Above(old, a)
        BY <1>3, <4>1 DEF Along
      <4>. QED BY <2>0, <4>2, AboveOrder DEF Along
    <3>. QED BY <1>4, <1>6, <1>10, <3>1, <3>2, <3>3
  <2>. QED BY <1>4, <1>10, <2>1, <2>2, <2>3
<1>14. MapTyped' /\ Map' /\ IsFiniteSet(DOMAIN entries')
  BY <1>2, <1>9, EnsuringKeepsType
<1>. QED BY <1>13, <1>14 DEF TInv, TreeOK, IsFolder

\* What a rename does, from the invariant.
LEMMA RenameDoes ==
    ASSUME TInv, NEW old \in Paths, NEW new \in Paths, Rename(old, new)
    PROVE  /\ \A q \in Subtree(old) :
                /\ Target(q, old, new) \in DOMAIN entries'
                /\ entries'[Target(q, old, new)] = entries[q]
           /\ \A q \in DOMAIN entries' :
                \/ \E r \in Subtree(old) : q = Target(r, old, new)
                \/ q \in DOMAIN entries \ Subtree(old) /\ entries'[q] = entries[q]
                \/ q \in Ancestors(new) /\ entries'[q] = Folder
           /\ DOMAIN entries \ Subtree(old) \subseteq DOMAIN entries'
<1> DEFINE Sub == Subtree(old)
           at == Places(Sub, old, new)
           map == AfterMoves(Sub, old, new)
<1>1. MayRename(old, new)
  BY DEF Rename, RenameFile, MayRename
<1>2. entries' = EnsureFolders(map, new)
  BY <1>1, OneOutcome DEF Rename, RenameFile
<1>3. DOMAIN map = (DOMAIN entries \ Sub) \cup at
  BY DEF AfterMoves
<1>4. \A q \in Sub : map[Target(q, old, new)] = entries[q]
  BY <1>1, AtPlace
<1>5. \A p \in DOMAIN entries \ Sub : p \notin at => map[p] = entries[p]
  BY DEF AfterMoves
<1>6. /\ \A q \in Sub : Target(q, old, new) \in at
      /\ \A p \in at : \E q \in Sub : p = Target(q, old, new)
  BY DEF Places
<1> HIDE DEF Sub, at, map
<1>7. /\ DOMAIN entries' = DOMAIN map \cup Ancestors(new)
      /\ \A q \in DOMAIN map : entries'[q] = map[q]
      /\ \A q \in Ancestors(new) : q \notin DOMAIN map => entries'[q] = Folder
  BY <1>2 DEF EnsureFolders
<1>8. ASSUME NEW q \in Sub
      PROVE  /\ Target(q, old, new) \in DOMAIN entries'
             /\ entries'[Target(q, old, new)] = entries[q]
  BY <1>3, <1>4, <1>6, <1>7
<1>9. ASSUME NEW q \in DOMAIN entries'
      PROVE  \/ \E r \in Sub : q = Target(r, old, new)
             \/ q \in DOMAIN entries \ Sub /\ entries'[q] = entries[q]
             \/ q \in Ancestors(new) /\ entries'[q] = Folder
  <2>1. CASE q \in at
    BY <1>6, <2>1
  <2>2. CASE q \notin at /\ q \in DOMAIN map
    BY <1>3, <1>5, <1>7, <2>2
  <2>3. CASE q \notin DOMAIN map
    BY <1>7, <2>3
  <2>. QED BY <2>1, <2>2, <2>3
<1>10. DOMAIN entries \ Sub \subseteq DOMAIN entries'
  BY <1>3, <1>7
<1>. QED BY <1>8, <1>9, <1>10 DEF Sub

----------------------------------------------------------------------------
(* The uploads on their way.                                               *)

\* No upload on its way finds a folder at its place, a file above it, or another
\* one above it, however late it writes: the strengthening TreeOK needs.
Ready ==
    \A u \in uploading : ~ IsFolder(u) /\ FreeAbove(u)

\* The inductive invariant.
IInv == TInv /\ uploading \subseteq Paths /\ Ready

\* It is enough that no file turns up above such a place and no folder at it.
LEMMA StaysReady ==
    ASSUME IInv, uploading' \subseteq uploading,
           \A q \in DOMAIN entries' :
                /\ IsFolder(q)' => IsFolder(q) \/ q \notin uploading
                /\ IsFile(q)' => IsFile(q) \/ \A u \in uploading : q \notin Ancestors(u)
    PROVE  uploading' \subseteq Paths /\ Ready'
<1>1. ASSUME NEW u \in uploading' PROVE ~ IsFolder(u)' /\ FreeAbove(u)'
  <2>1. u \in uploading /\ ~ IsFolder(u) /\ FreeAbove(u)
    BY <1>1 DEF IInv, Ready
  <2>2. ~ IsFolder(u)'
    BY <2>1 DEF IsFolder
  <2>3. ASSUME NEW a \in Ancestors(u) PROVE ~ IsFile(a)' /\ a \notin uploading'
    BY <2>1 DEF FreeAbove, IsFile
  <2>. QED BY <2>2, <2>3 DEF FreeAbove
<1>. QED BY <1>1 DEF IInv, Ready

\* What Put and ensureFolders change.
LEMMA PutChanges ==
    ASSUME NEW p \in Paths, NEW e, entries' = EnsureFolders(Put(entries, p, e), p)
    PROVE  /\ p \in DOMAIN entries' /\ entries'[p] = e
           /\ \A q \in DOMAIN entries' : q # p =>
                \/ q \in DOMAIN entries /\ entries'[q] = entries[q]
                \/ q \in Ancestors(p) /\ entries'[q] = Folder
  BY DEF Put, EnsureFolders

\* An upload writes its entry.
LEMMA WriteKeeps ==
    ASSUME IInv, NEW p \in uploading, NEW file \in File, AddFile(p, file),
           uploading' \subseteq uploading
    PROVE  IInv'
<1>1. p \in Paths /\ ~ IsFolder(p) /\ FreeAbove(p)
  BY DEF IInv, Ready
<1>2. TInv'
  BY <1>1, PutKeepsTree DEF IInv, AddFile, FreeAbove, NoFileAbove
<1>3. /\ p \in DOMAIN entries' /\ entries'[p] = file
      /\ \A q \in DOMAIN entries' : q # p =>
            \/ q \in DOMAIN entries /\ entries'[q] = entries[q]
            \/ q \in Ancestors(p) /\ entries'[q] = Folder
  BY <1>1, PutChanges DEF AddFile
<1>4. ASSUME NEW q \in DOMAIN entries'
      PROVE  /\ IsFolder(q)' => IsFolder(q) \/ q \notin uploading
             /\ IsFile(q)' => IsFile(q) \/ \A u \in uploading : q \notin Ancestors(u)
  <2>1. CASE q = p
    <3>1. file # Folder
      BY FolderAssumption
    <3>2. \A u \in uploading : p \notin Ancestors(u)
      BY DEF IInv, Ready, FreeAbove
    <3>. QED BY <1>3, <2>1, <3>1, <3>2 DEF IsFolder
  <2>2. CASE q # p
    BY <1>1, <1>3, <2>2 DEF IsFolder, IsFile, FreeAbove
  <2>. QED BY <2>1, <2>2
<1>. QED BY <1>2, <1>4, StaysReady DEF IInv

LEMMA MakeFolderKeeps ==
    ASSUME IInv, NEW p \in Paths, MakeFolder(p), FreeAbove(p), p \notin uploading
    PROVE  IInv'
<1>1. TInv'
  BY PutKeepsTree DEF IInv, MakeFolder, Mkdir, FreeAbove, NoFileAbove
<1>2. /\ entries'[p] = Folder
      /\ \A q \in DOMAIN entries' : q # p =>
            \/ q \in DOMAIN entries /\ entries'[q] = entries[q]
            \/ q \in Ancestors(p) /\ entries'[q] = Folder
  BY PutChanges DEF MakeFolder, Mkdir
<1>3. ASSUME NEW q \in DOMAIN entries'
      PROVE  /\ IsFolder(q)' => IsFolder(q) \/ q \notin uploading
             /\ IsFile(q)' => IsFile(q) \/ \A u \in uploading : q \notin Ancestors(u)
  <2>1. CASE q = p
    BY <1>2, <2>1 DEF IsFile
  <2>2. CASE q # p
    BY <1>2, <2>2 DEF IsFolder, IsFile, FreeAbove
  <2>. QED BY <2>1, <2>2
<1>. QED BY <1>1, <1>3, StaysReady DEF IInv, MakeFolder

LEMMA BeginKeeps ==
    ASSUME IInv, NEW p \in Paths, BeginUpload(p), FreeAbove(p), FreeInside(p)
    PROVE  IInv'
<1>1. entries' = entries /\ uploading' = uploading \cup {p} /\ ~ IsFolder(p)
  BY DEF BeginUpload
<1>2. TInv'
  BY <1>1 DEF IInv, TInv, MapTyped, TreeOK, IsFolder, Map
<1>3. ASSUME NEW u \in uploading' PROVE ~ IsFolder(u) /\ \A a \in Ancestors(u) : ~ IsFile(a)
  BY <1>1, <1>3 DEF IInv, Ready, FreeAbove
<1>4. ASSUME NEW u \in uploading', NEW a \in Ancestors(u), a \in uploading' PROVE FALSE
  <2>1. u \in Paths /\ a \in Paths /\ Above(a, u)
    BY <1>1, <1>4, AncestorsAreAbove DEF IInv
  <2>2. u # a
    BY <2>1, AboveOrder
  <2>3. CASE a = p
    <3>1. u \in uploading /\ Inside(u, p)
      BY <1>1, <2>1, <2>2, <2>3, InsideIsBelow
    <3>. QED BY <3>1 DEF FreeInside
  <2>4. CASE a # p
    BY <1>1, <1>4, <2>4 DEF IInv, Ready, FreeAbove
  <2>. QED BY <2>3, <2>4
<1>. QED BY <1>1, <1>2, <1>3, <1>4 DEF IInv, Ready, FreeAbove, IsFolder, IsFile

LEMMA DeleteKeeps ==
    ASSUME IInv, NEW p \in Paths, Delete(p)
    PROVE  IInv'
<1>1. TInv'
  BY RemoveKeepsTree DEF IInv, Delete
<1>2. \A q \in DOMAIN entries' : q \in DOMAIN entries /\ entries'[q] = entries[q]
  BY DEF Delete, RemoveFile, Drop
<1>. QED BY <1>1, <1>2, StaysReady DEF IInv, Delete, IsFolder, IsFile

LEMMA RenameKeeps ==
    ASSUME IInv, NEW old \in Paths, NEW new \in Paths, Rename(old, new),
           FreeAbove(new), FreeInside(new), new \notin uploading
    PROVE  IInv'
<1>1. TInv'
  BY RenameKeepsTree DEF IInv, FreeAbove, NoFileAbove
<1>2. old \in DOMAIN entries /\ DOMAIN entries' \subseteq Paths
  BY <1>1 DEF Rename, RenameFile, TInv, MapTyped
<1>3. ASSUME NEW q \in DOMAIN entries', NEW r \in Subtree(old), q = Target(r, old, new)
      PROVE  q \notin uploading /\ \A u \in uploading : q \notin Ancestors(u)
  <2>1. r \in Paths /\ Along(r, old)
    BY <1>2, SubtreeGoesAlong DEF IInv
  <2>2. q \in Paths /\ (q = new \/ Above(new, q))
    BY <1>2, <1>3, <2>1, TargetOrder
  <2>3. ASSUME NEW u \in uploading, q = u \/ Above(q, u) PROVE FALSE
    <3>1. u \in Paths /\ (u = new \/ Above(new, u))
      BY <2>2, <2>3, AboveOrder DEF IInv
    <3>. QED BY <3>1, InsideIsBelow DEF FreeInside
  <2>. QED BY <2>3, AncestorsAreAbove DEF IInv
<1>4. ASSUME NEW q \in DOMAIN entries'
      PROVE  /\ IsFolder(q)' => IsFolder(q) \/ q \notin uploading
             /\ IsFile(q)' => IsFile(q) \/ \A u \in uploading : q \notin Ancestors(u)
  <2>1. \/ \E r \in Subtree(old) : q = Target(r, old, new)
        \/ q \in DOMAIN entries \ Subtree(old) /\ entries'[q] = entries[q]
        \/ q \in Ancestors(new) /\ entries'[q] = Folder
    BY RenameDoes DEF IInv
  <2>2. CASE \E r \in Subtree(old) : q = Target(r, old, new)
    BY <1>3, <2>2
  <2>3. CASE q \in DOMAIN entries \ Subtree(old) /\ entries'[q] = entries[q]
    BY <2>3 DEF IsFolder, IsFile
  <2>4. CASE q \in Ancestors(new) /\ entries'[q] = Folder
    BY <2>4 DEF IsFile, FreeAbove
  <2>. QED BY <2>1, <2>2, <2>3, <2>4
<1>. QED BY <1>1, <1>4, StaysReady DEF IInv, Rename

LEMMA InitKeeps == Init => IInv
<1> SUFFICES ASSUME Init PROVE IInv
  OBVIOUS
<1>1. entries = << >> /\ DOMAIN entries = {} /\ uploading = {}
  BY DEF Init
<1>2. entries = [p \in {} |-> entries[p]]
  BY <1>1
<1>. QED BY <1>1, <1>2, FS_EmptySet DEF IInv, Ready, TInv, MapTyped, TreeOK, Map

LEMMA StepKeeps == IInv /\ [Next]_vars => IInv'
<1> SUFFICES ASSUME IInv, [Next]_vars PROVE IInv'
  OBVIOUS
<1>1. ASSUME NEW p \in Paths, NEW content \in Contents, UploadWrites(p, content)
      PROVE  IInv'
  BY <1>1, WriteKeeps DEF UploadWrites, File
<1>2. ASSUME NEW p \in Paths, NEW content \in Contents, UploadEnds(p, content)
      PROVE  IInv'
  BY <1>2, WriteKeeps DEF UploadEnds, LastOf, File
<1>3. ASSUME NEW p \in Paths, UploadFails(p) PROVE IInv'
  <2>1. entries' = entries /\ uploading' \subseteq uploading
    BY <1>3 DEF UploadFails
  <2>. QED BY <2>1 DEF IInv, Ready, FreeAbove, TInv, MapTyped, TreeOK, IsFolder, IsFile, Map
<1>4. CASE UNCHANGED vars
  BY <1>4 DEF vars, IInv, Ready, FreeAbove, TInv, MapTyped, TreeOK, IsFolder, IsFile, Map
<1>. QED BY <1>1, <1>2, <1>3, <1>4, MakeFolderKeeps, BeginKeeps, DeleteKeeps, RenameKeeps
     DEF Next, Goes

\* The map holds files and folders at paths that are not too long.
THEOREM MapOfPaths == Spec => []TypeOK
<1>1. IInv => TypeOK
  BY DEF IInv, TInv, MapTyped, TypeOK
<1>. QED BY InitKeeps, StepKeeps, <1>1, PTL DEF Spec

\* Every entry can be reached from the root through folders, whatever is created,
\* removed and renamed while uploads are on their way, and in whatever order
\* RenameFile makes its moves.  It is a theorem about users who keep clear of the
\* uploads on their way and of what failed ones have left, which no listing shows
\* them; it is false of those who only go by what is listed.
THEOREM MapIsTree == Spec => []TreeOK
<1>1. IInv => TreeOK
  BY DEF IInv, TInv
<1>. QED BY InitKeeps, StepKeeps, <1>1, PTL DEF Spec

\* A rename moves the whole subtree and leaves the rest alone, in whatever order
\* the Go map gives the paths.
THEOREM RenameMovesAll == Spec => RenameMoves
<1>1. IInv /\ [Next]_vars =>
        [\A old \in DOMAIN entries \ DOMAIN entries' : \A new \in Paths :
            Rename(old, new) =>
                /\ \A q \in Subtree(old) :
                    /\ Target(q, old, new) \in DOMAIN entries'
                    /\ entries'[Target(q, old, new)] = entries[q]
                /\ \A q \in DOMAIN entries' :
                    \/ \E r \in Subtree(old) : q = Target(r, old, new)
                    \/ q \in DOMAIN entries \ Subtree(old) /\ entries'[q] = entries[q]
                    \/ q \in Ancestors(new) /\ entries'[q] = Folder
                /\ DOMAIN entries \ Subtree(old) \subseteq DOMAIN entries']_vars
  <2>1. IInv => DOMAIN entries \subseteq Paths
    BY DEF IInv, TInv, MapTyped
  <2>. QED BY <2>1, RenameDoes DEF IInv
<1>. QED BY InitKeeps, StepKeeps, <1>1, PTL DEF Spec, RenameMoves

----------------------------------------------------------------------------
(* The listings.                                                           *)

\* What can be seen at depth n below dir.
Level(n, dir) ==
    {p \in DOMAIN entries : Shown(p) /\ Inside(p, dir) /\ Len(p) = Len(dir) + n}

\* The n names of dir in front of a path, and those of a folder in between.
LEMMA FrontOfFront ==
    ASSUME NEW p \in Paths, NEW n \in 0 .. Len(p), NEW k \in 0 .. n
    PROVE  SubSeq(SubSeq(p, 1, n), 1, k) = SubSeq(p, 1, k)
<1> DEFINE q == SubSeq(p, 1, n)
           a == SubSeq(q, 1, k)
           b == SubSeq(p, 1, k)
<1>1. p \in Seq(Names) /\ Len(p) \in Nat /\ k \in 0 .. Len(p) /\ n \in Nat /\ k \in Nat
  BY PathType
<1>2. q \in Seq(Names) /\ Len(q) = n /\ \A i \in 1 .. n : q[i] = p[i]
  BY Front
<1>3. b \in Seq(Names) /\ Len(b) = k /\ \A i \in 1 .. k : b[i] = p[i]
  BY <1>1, Front
<1> HIDE DEF q, b
<1>4. a \in Seq(Names) /\ Len(a) = k /\ \A i \in 1 .. k : a[i] = q[i]
  BY <1>1, <1>2
<1> HIDE DEF a
<1>5. \A i \in 1 .. k : a[i] = b[i]
  BY <1>1, <1>2, <1>3, <1>4
<1>6. a = b
  BY <1>3, <1>4, <1>5, SeqEqual
<1>. QED BY <1>6 DEF a, b, q

\* The folder that a path is listed in can be seen itself.
LEMMA ParentIsFolder ==
    ASSUME MapTyped, TreeOK, NEW dir \in Paths \cup {<<>>}, NEW n \in Nat \ {0},
           NEW p \in Level(n + 1, dir)
    PROVE  \E q \in Level(n, dir) : IsFolder(q) /\ p \in ShowList(q)
<1> DEFINE m == Len(p) - 1
           q == SubSeq(p, 1, m)
<1>1. /\ p \in DOMAIN entries /\ p \in Paths /\ Shown(p)
      /\ Len(p) > Len(dir) /\ SubSeq(p, 1, Len(dir)) = dir
      /\ Len(p) = Len(dir) + (n + 1)
  BY DEF Level, Inside, MapTyped
<1>2. Len(p) \in Nat /\ Len(dir) \in Nat
  BY <1>1, PathType
<1>3. /\ m \in 1 .. Len(p) - 1 /\ m \in 0 .. Len(p) /\ m = Len(dir) + n
      /\ Len(dir) \in 0 .. m /\ Len(p) = m + 1 /\ m > Len(dir)
  BY <1>1, <1>2
<1> HIDE DEF m
<1>4. q \in Ancestors(p)
  BY <1>3 DEF Ancestors
<1>5. q \in DOMAIN entries /\ entries[q] = Folder
  BY <1>1, <1>4 DEF TreeOK, IsFolder
<1>6. Len(q) = m
  BY <1>1, <1>3, Front
<1>7. SubSeq(q, 1, Len(dir)) = dir
  BY <1>1, <1>3, FrontOfFront
<1>8. SubSeq(p, 1, Len(q)) = q
  BY <1>6
<1> HIDE DEF q
<1>9. q \in Level(n, dir)
  BY <1>3, <1>5, <1>6, <1>7 DEF Level, Inside, Shown
<1>10. p \in ShowList(q)
  BY <1>1, <1>3, <1>6, <1>8 DEF ShowList
<1>. QED BY <1>5, <1>9, <1>10 DEF IsFolder

\* What is listed in a folder below dir is below dir.
LEMMA ListedIsBelow ==
    ASSUME MapTyped, NEW dir \in Paths \cup {<<>>}, NEW n \in Nat \ {0},
           NEW q \in Level(n, dir), NEW p \in ShowList(q)
    PROVE  p \in Level(n + 1, dir)
<1>1. /\ p \in DOMAIN entries /\ p \in Paths /\ Shown(p)
      /\ Len(p) = Len(q) + 1 /\ SubSeq(p, 1, Len(q)) = q
  BY DEF ShowList, MapTyped
<1>2. /\ q \in Paths /\ Len(q) > Len(dir) /\ SubSeq(q, 1, Len(dir)) = dir
      /\ Len(q) = Len(dir) + n
  BY DEF Level, Inside, MapTyped
<1>3. Len(p) \in Nat /\ Len(q) \in Nat /\ Len(dir) \in Nat
  BY <1>1, <1>2, PathType
<1>4. /\ Len(q) \in 0 .. Len(p) /\ Len(dir) \in 0 .. Len(q) /\ Len(p) > Len(dir)
      /\ Len(p) = Len(dir) + (n + 1)
  BY <1>1, <1>2, <1>3
<1>5. SubSeq(SubSeq(p, 1, Len(q)), 1, Len(dir)) = SubSeq(p, 1, Len(dir))
  BY <1>1, <1>4, FrontOfFront
<1>6. SubSeq(p, 1, Len(dir)) = dir
  BY <1>1, <1>2, <1>5
<1>. QED BY <1>1, <1>4, <1>6 DEF Level, Inside

\* One round of listing finds the next level.
LEMMA NextLevel ==
    ASSUME MapTyped, TreeOK, NEW dir \in Paths \cup {<<>>}, NEW n \in Nat \ {0}
    PROVE  UNION {ShowList(q) : q \in {r \in Level(n, dir) : IsFolder(r)}}
                = Level(n + 1, dir)
<1>1. ASSUME NEW q \in Level(n, dir), NEW p \in ShowList(q)
      PROVE  p \in Level(n + 1, dir)
  BY <1>1, ListedIsBelow
<1>2. ASSUME NEW p \in Level(n + 1, dir)
      PROVE  \E q \in Level(n, dir) : IsFolder(q) /\ p \in ShowList(q)
  BY <1>2, ParentIsFolder
<1>. QED BY <1>1, <1>2

LEMMA FirstLevel ==
    ASSUME MapTyped, NEW dir \in Paths \cup {<<>>}
    PROVE  ShowList(dir) = Level(1, dir)
<1>1. ASSUME NEW p \in DOMAIN entries
      PROVE  Len(p) = Len(dir) + 1 => Len(p) > Len(dir)
  BY <1>1, PathType DEF MapTyped
<1>. QED BY <1>1 DEF ShowList, Level, Inside

\* Who walks the tree finds what is inside, at any depth, and nothing else.
LEMMA WalkFindsInside ==
    ASSUME MapTyped, TreeOK, NEW dir \in Paths \cup {<<>>}
    PROVE  Walk(dir) = {p \in DOMAIN entries : Shown(p) /\ Inside(p, dir)}
<1> DEFINE Step(g, n) ==
                IF n = 1 THEN ShowList(dir)
                ELSE UNION {ShowList(p) : p \in {q \in g[n - 1] : IsFolder(q)}}
           found == CHOOSE g : g = [n \in 1 .. MaxDepth |-> Step(g, n)]
<1>1. MaxDepth \in Nat
  BY BoundsAssumption
<1>2. \E g : g = [n \in 1 .. MaxDepth |-> Step(g, n)]
  <2> DEFINE w == [n \in 1 .. MaxDepth |-> Level(n, dir)]
  <2>1. ASSUME NEW n \in 1 .. MaxDepth PROVE w[n] = Step(w, n)
    <3>1. CASE n = 1
      BY <3>1, <2>1, FirstLevel
    <3>2. CASE n # 1
      <4>1. n - 1 \in Nat \ {0} /\ n - 1 \in 1 .. MaxDepth /\ (n - 1) + 1 = n
        BY <1>1, <2>1, <3>2
      <4>2. UNION {ShowList(q) : q \in {r \in Level(n - 1, dir) : IsFolder(r)}}
                = Level((n - 1) + 1, dir)
        BY <4>1, NextLevel
      <4>3. w[n - 1] = Level(n - 1, dir) /\ w[n] = Level(n, dir)
        BY <4>1, <2>1
      <4>. QED BY <3>2, <4>1, <4>2, <4>3
    <3>. QED BY <3>1, <3>2
  <2>2. w = [n \in 1 .. MaxDepth |-> Step(w, n)]
    BY <2>1
  <2>. QED BY <2>2
<1>3. found = [n \in 1 .. MaxDepth |-> Step(found, n)]
  BY <1>2
<1>4. Walk(dir) = UNION {found[n] : n \in 1 .. MaxDepth}
  BY DEF Walk
<1> HIDE DEF found
<1>5. \A n \in 1 .. MaxDepth : found[n] = Level(n, dir)
  <2> DEFINE Bad == {n \in 1 .. MaxDepth : found[n] # Level(n, dir)}
  <2>1. SUFFICES ASSUME Bad # {} PROVE FALSE
    OBVIOUS
  <2>2. PICK k \in Bad : \A n \in Bad : k <= n
    <3>1. Bad \in SUBSET Nat
      BY <1>1
    <3>. QED BY <2>1, <3>1, Least, Zenon
  <2>3. k # 1
    BY <1>1, <1>3, FirstLevel
  <2>4. k - 1 \in Nat \ {0} /\ k - 1 \in 1 .. MaxDepth /\ (k - 1) + 1 = k /\ ~ (k <= k - 1)
    BY <1>1, <2>3
  <2>5. found[k - 1] = Level(k - 1, dir)
    BY <2>2, <2>4
  <2>6. found[k] = UNION {ShowList(p) : p \in {q \in found[k - 1] : IsFolder(q)}}
    BY <1>3, <2>3
  <2>7. UNION {ShowList(q) : q \in {r \in Level(k - 1, dir) : IsFolder(r)}}
            = Level((k - 1) + 1, dir)
    BY <2>4, NextLevel
  <2>. QED BY <2>4, <2>5, <2>6, <2>7
<1>6. ASSUME NEW p \in DOMAIN entries, Shown(p), Inside(p, dir)
      PROVE  \E n \in 1 .. MaxDepth : p \in Level(n, dir)
  <2>1. Len(p) \in 1 .. MaxDepth /\ Len(dir) \in Nat /\ Len(p) > Len(dir)
    BY <1>6, PathType DEF MapTyped, Inside
  <2>2. Len(p) - Len(dir) \in 1 .. MaxDepth
        /\ Len(p) = Len(dir) + (Len(p) - Len(dir))
    BY <1>1, <2>1
  <2>. QED BY <1>6, <2>2 DEF Level
<1>7. \A n \in 1 .. MaxDepth : \A p \in Level(n, dir) :
            p \in DOMAIN entries /\ Shown(p) /\ Inside(p, dir)
  BY DEF Level
<1>8. ASSUME NEW p PROVE p \in Walk(dir) <=> \E n \in 1 .. MaxDepth : p \in Level(n, dir)
  BY <1>4, <1>5
<1>. QED BY <1>6, <1>7, <1>8

\* The counts of `info`, at any depth and without going down the tree, are those
\* of somebody who lists every level: every file that can be seen lies in a folder
\* that can be seen, up to dir, so that CountChildren may compare prefixes only.
THEOREM CountsAreWalks == Spec => []CountIsWalk
<1>1. ASSUME IInv PROVE CountIsWalk
  <2>1. ASSUME NEW dir \in {<<>>} \cup {p \in DOMAIN entries : IsFolder(p)}
        PROVE  Walk(dir) = {p \in DOMAIN entries : Shown(p) /\ Inside(p, dir)}
    BY <1>1, <2>1, WalkFindsInside DEF IInv, TInv, MapTyped
  <2>. QED BY <2>1 DEF CountIsWalk, CountChildren
<1>. QED BY InitKeeps, StepKeeps, <1>1, PTL DEF Spec
=============================================================================
