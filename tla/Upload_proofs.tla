--------------------------- MODULE Upload_proofs ---------------------------
(***************************************************************************)
(* Proofs about Upload, for any contents, chunk sizes and concurrency.     *)
(*                                                                         *)
(* For any number of calls: the inductive invariant IInv and the safety    *)
(* properties that follow from it, the size of what a call publishes, and  *)
(* what is known of the messages that entries name (LandedInv).            *)
(*                                                                         *)
(* For one call at a time: what the path shows while chunks are sent and   *)
(* after a crash (AloneInv), the progress that is recorded (InArray), and, *)
(* with one content, that Upload implements Publication.                   *)
(***************************************************************************)
EXTENDS Upload, ChunkPlan_proofs

LEMMA ChunkSizeType ==
    ASSUME NEW asked \in Int
    PROVE  ChunkSizeFor(asked) \in Nat \ {0}
  BY SettingsAssumption DEF ChunkSizeFor, ClampChunkSize

\* The resume check takes all the recorded chunks or none; what it takes fits
\* the plan and ends where the plan has a boundary.
LEMMA ResumeFromBounds ==
    ASSUME NEW resumed \in Seq(Chunk), Tiles(resumed),
           NEW total \in Nat \ {0}, NEW size \in Nat \ {0}
    PROVE  LET F == ResumeFrom(resumed, total, size) IN
           /\ F \in 0 .. Len(resumed)
           /\ F <= PlanLen(total, size)
           /\ F > 0 => /\ F = Len(resumed)
                       /\ EndOf(resumed) = PlanEnd(total, size, F)
<1>1. PlanLen(total, size) \in Nat \ {0}
  BY PlanLenBounds
<1>2. Len(resumed) \in Nat
  OBVIOUS
<1>3. TotalSize(resumed) = EndOf(resumed)
  BY SumOfTiles DEF Chunk
<1>4. CASE ResumeFrom(resumed, total, size) = 0
  BY <1>1, <1>2, <1>4
<1>5. CASE ResumeFrom(resumed, total, size) # 0
  BY <1>1, <1>2, <1>3, <1>5 DEF ResumeFrom
<1>6. QED
  BY <1>4, <1>5

\* A sequence that has the resumed chunks in front and chunks of the plan
\* behind them has no gap, and when it is complete it ends with the content.
LEMMA SplicedTiles ==
    ASSUME NEW resumed \in Seq(Chunk), Tiles(resumed),
           NEW total \in Nat \ {0}, NEW size \in Nat \ {0},
           NEW c \in Seq(Chunk),
           Len(c) <= PlanLen(total, size),
           \A i \in 1 .. Len(c) :
                /\ i <= ResumeFrom(resumed, total, size) => c[i] = resumed[i]
                /\ i > ResumeFrom(resumed, total, size) =>
                        /\ c[i].off = PlanOffset(size, i)
                        /\ c[i].size = PlanSize(total, size, i)
    PROVE  /\ Tiles(c)
           /\ Len(c) = PlanLen(total, size) => EndOf(c) = total
<1> DEFINE n == PlanLen(total, size)
           F == ResumeFrom(resumed, total, size)
<1>1. n \in Nat \ {0} /\ Len(c) \in Nat /\ Len(resumed) \in Nat /\ Len(c) <= n
  <2>1. PlanLen(total, size) \in Nat \ {0}
    BY PlanLenBounds, Zenon
  <2>2. Len(c) \in Nat /\ Len(resumed) \in Nat
    OBVIOUS
  <2>3. QED
    BY <2>1, <2>2
<1>2. /\ F \in 0 .. Len(resumed)
      /\ F <= n
      /\ F > 0 => F = Len(resumed) /\ EndOf(resumed) = PlanEnd(total, size, F)
  BY ResumeFromBounds
<1>3. \A i \in 1 .. n :
        /\ PlanOffset(size, i) \in Nat
        /\ PlanSize(total, size, i) \in Nat \ {0}
        /\ i = 1 => PlanOffset(size, i) = 0
        /\ i < n => PlanEnd(total, size, i) = PlanOffset(size, i + 1)
        /\ i = n => PlanEnd(total, size, i) = total
  <2>1. SUFFICES ASSUME NEW i \in 1 .. n
                 PROVE  /\ PlanOffset(size, i) \in Nat
                        /\ PlanSize(total, size, i) \in Nat \ {0}
                        /\ i = 1 => PlanOffset(size, i) = 0
                        /\ i < n => PlanEnd(total, size, i) = PlanOffset(size, i + 1)
                        /\ i = n => PlanEnd(total, size, i) = total
    BY Zenon
  <2>2. QED
    BY PlanTilesFile
<1>4. \A i \in 1 .. Len(c) :
        /\ i <= F => c[i] = resumed[i]
        /\ i > F => /\ c[i].off = PlanOffset(size, i)
                    /\ c[i].size = PlanSize(total, size, i)
  OBVIOUS
<1>5. F > 0 => resumed[F].off + resumed[F].size = PlanEnd(total, size, F)
  BY <1>1, <1>2 DEF EndOf
<1>6. \A i \in 1 .. F :
        /\ resumed[i].size > 0
        /\ resumed[i].off = IF i = 1 THEN 0
                            ELSE resumed[i - 1].off + resumed[i - 1].size
  BY <1>1, <1>2 DEF Tiles
<1> HIDE DEF n, F
<1>7. ASSUME NEW i \in 1 .. Len(c)
      PROVE  /\ c[i].size > 0
             /\ c[i].off = IF i = 1 THEN 0 ELSE c[i - 1].off + c[i - 1].size
  <2>1. i \in 1 .. n /\ i \in Nat /\ F \in Nat
    BY <1>1, <1>2
  <2>2. CASE i <= F
    <3>1. c[i] = resumed[i]
      BY <2>1, <2>2, <1>4
    <3>2. i # 1 => c[i - 1] = resumed[i - 1]
      <4>1. i # 1 => i - 1 \in 1 .. Len(c) /\ i - 1 <= F
        BY <2>1, <2>2, <1>1
      <4>2. QED
        BY <4>1, <1>4
    <3>3. QED
      BY <3>1, <3>2, <2>1, <2>2, <1>6
  <2>3. CASE i > F
    <3>1. /\ c[i].off = PlanOffset(size, i)
          /\ c[i].size \in Nat \ {0}
      BY <2>1, <2>3, <1>3, <1>4
    <3>2. CASE i = 1
      BY <3>1, <3>2, <2>1, <1>3
    <3>3. CASE i # 1
      <4>1. i - 1 \in 1 .. n /\ i - 1 \in 1 .. Len(c) /\ i - 1 < n /\ (i - 1) + 1 = i
        BY <2>1, <3>3, <1>1
      <4>2. PlanEnd(total, size, i - 1) = PlanOffset(size, i)
        BY <4>1, <1>3
      <4>3. c[i - 1].off + c[i - 1].size = PlanEnd(total, size, i - 1)
        <5>1. CASE i - 1 = F
          BY <5>1, <4>1, <2>1, <1>2, <1>4, <1>5
        <5>2. CASE i - 1 > F
          BY <5>2, <4>1, <2>1, <1>4 DEF PlanEnd
        <5>3. QED
          BY <5>1, <5>2, <2>1, <2>3
      <4>4. QED
        BY <3>1, <3>3, <4>2, <4>3
    <3>4. QED
      BY <3>2, <3>3
  <2>4. QED
    BY <2>1, <2>2, <2>3
<1>8. ASSUME Len(c) = n PROVE EndOf(c) = total
  <2>1. n \in 1 .. Len(c) /\ n \in 1 .. n
    BY <1>1, <1>8
  <2>2. CASE n <= F
    BY <2>1, <2>2, <1>1, <1>2, <1>3, <1>4, <1>5, <1>8 DEF EndOf
  <2>3. CASE n > F
    BY <2>1, <2>3, <1>1, <1>2, <1>3, <1>4, <1>8 DEF EndOf, PlanEnd
  <2>4. QED
    BY <2>2, <2>3, <1>1, <1>2
<1>9. QED
  BY <1>7, <1>8 DEF Tiles, n

\* The front of an array that is filled that far is a sequence of chunks.
LEMMA FilledPrefix ==
    ASSUME NEW array \in Seq(Chunk \cup {NoChunk}), NEW k \in 0 .. Len(array),
           \A i \in 1 .. k : array[i] # NoChunk
    PROVE  /\ SubSeq(array, 1, k) \in Seq(Chunk)
           /\ Len(SubSeq(array, 1, k)) = k
           /\ \A i \in 1 .. k : SubSeq(array, 1, k)[i] = array[i]
<1>1. \A i \in 1 .. k : array[i] \in Chunk
  BY ElementOfSeq
<1>2. SubSeq(array, 1, k) = [i \in 1 .. k |-> array[i]]
  OBVIOUS
<1>3. QED
  BY <1>1, <1>2

----------------------------------------------------------------------------
(* Entries that may be stored, and calls in terms of them.                 *)

Good ==
    {e \in Entry : /\ Tiles(e.chunks)
                   /\ e.incomplete \/ \E s \in Sources : EndOf(e.chunks) = SizeOf[s]}

Stored == Good \cup {NoEntry}

\* The part of the type invariant that is about the calls.
CallsTyped ==
    /\ pc \in [Uploads -> Calls]
    /\ src \in [Uploads -> Sources]
    /\ csize \in [Uploads -> Nat \ {0}]
    /\ resume \in [Uploads -> Seq(Chunk)]
    /\ chunks \in [Uploads -> Seq(Chunk \cup {NoChunk})]
    /\ work \in [Uploads -> Seq(Steps)]
    /\ firstErr \in [Uploads -> BOOLEAN]

StoreTyped == dirty \in BOOLEAN /\ landed \in SUBSET Chunk

Parts == /\ mem \in Stored /\ disk \in Stored
         /\ StoreTyped /\ CallsTyped /\ ArrayFollowsPlan

\* The invariant, split into what the store keeps and what the calls keep.
LEMMA IInvParts == IInv <=> Parts
<1>1. TypeOK <=> /\ mem \in Entry \cup {NoEntry} /\ disk \in Entry \cup {NoEntry}
                 /\ StoreTyped /\ CallsTyped
  BY Zenon DEF TypeOK, StoreTyped, CallsTyped
<1>2. /\ mem \in Stored /\ disk \in Stored
      <=> /\ mem \in Entry \cup {NoEntry} /\ disk \in Entry \cup {NoEntry}
          /\ EntriesTile /\ VisibleSize
  BY NoneAssumption DEF Stored, Good, EntriesTile, VisibleSize, Published, Entries
<1>3. QED
  BY <1>1, <1>2, Zenon DEF IInv, Parts

LEMMA PlanChunkType ==
    ASSUME CallsTyped, NEW u \in Uploads, NEW i \in 1 .. PlanLenOf(u)
    PROVE  PlanChunk(u, i) \in Chunk /\ PlanChunk(u, i) # NoChunk
<1>1. Total(u) \in Nat \ {0} /\ csize[u] \in Nat \ {0} /\ src[u] \in Sources
  BY SourcesAssumption DEF CallsTyped, Total
<1>2. PlanOffset(csize[u], i) \in Nat /\ PlanSize(Total(u), csize[u], i) \in Nat \ {0}
  BY <1>1, PlanTilesFile DEF PlanLenOf
<1>3. QED
  BY <1>1, <1>2, NoneAssumption DEF PlanChunk, Chunk

\* What a sending call stores is good, however far its array is filled.
LEMMA ArrayPrefixGood ==
    ASSUME CallsTyped, NEW u \in Uploads, Tiles(resume[u]),
           NEW array \in Seq(Chunk \cup {NoChunk}),
           Len(array) = PlanLenOf(u),
           \A i \in 1 .. PlanLenOf(u) :
                /\ i <= From(u) => array[i] = resume[u][i]
                /\ i > From(u) => array[i] \in {NoChunk, PlanChunk(u, i)},
           NEW k \in 0 .. Len(array), \A i \in 1 .. k : array[i] # NoChunk
    PROVE  /\ SubSeq(array, 1, k) \in Seq(Chunk)
           /\ Len(SubSeq(array, 1, k)) = k
           /\ Tiles(SubSeq(array, 1, k))
           /\ k = PlanLenOf(u) => EndOf(SubSeq(array, 1, k)) = Total(u)
<1> DEFINE c == SubSeq(array, 1, k)
<1>1. /\ Total(u) \in Nat \ {0} /\ csize[u] \in Nat \ {0} /\ src[u] \in Sources
      /\ resume[u] \in Seq(Chunk)
  BY SourcesAssumption DEF CallsTyped, Total
<1>2. c \in Seq(Chunk) /\ Len(c) = k /\ \A i \in 1 .. k : c[i] = array[i]
  BY FilledPrefix
<1>3. PlanLenOf(u) = PlanLen(Total(u), csize[u]) /\ PlanLenOf(u) \in Nat
  BY <1>1, PlanLenBounds DEF PlanLenOf
<1> HIDE DEF c
<1>4. Len(c) <= PlanLen(Total(u), csize[u])
  BY <1>2, <1>3
<1>5. ASSUME NEW i \in 1 .. Len(c)
      PROVE  /\ i <= From(u) => c[i] = resume[u][i]
             /\ i > From(u) => /\ c[i].off = PlanOffset(csize[u], i)
                               /\ c[i].size = PlanSize(Total(u), csize[u], i)
  <2>1. i \in 1 .. k /\ i \in 1 .. PlanLenOf(u)
    BY <1>2, <1>3
  <2>2. i > From(u) => c[i] = PlanChunk(u, i)
    BY <2>1, <1>2
  <2>3. QED
    BY <2>1, <2>2, <1>2 DEF PlanChunk
<1>6. Tiles(c) /\ (Len(c) = PlanLen(Total(u), csize[u]) => EndOf(c) = Total(u))
  BY <1>1, <1>2, <1>4, <1>5, SplicedTiles DEF From
<1>7. QED
  BY <1>2, <1>3, <1>6 DEF c

----------------------------------------------------------------------------
(* The inductive invariant, one lemma for each kind of step of a call.     *)

LEMMA ExceptSeq ==
    ASSUME NEW R, NEW s \in Seq(R), NEW i \in 1 .. Len(s), NEW x \in R
    PROVE  /\ [s EXCEPT ![i] = x] \in Seq(R)
           /\ Len([s EXCEPT ![i] = x]) = Len(s)
           /\ [s EXCEPT ![i] = x][i] = x
           /\ \A j \in 1 .. Len(s) : j # i => [s EXCEPT ![i] = x][j] = s[j]
  OBVIOUS

LEMMA PrefixSeq ==
    ASSUME NEW R, NEW s \in Seq(R), NEW k \in 0 .. Len(s)
    PROVE  /\ SubSeq(s, 1, k) \in Seq(R)
           /\ Len(SubSeq(s, 1, k)) = k
           /\ \A i \in 1 .. k : SubSeq(s, 1, k)[i] = s[i]
  OBVIOUS

LEMMA InitIInv == Init => IInv
<1>1. SUFFICES ASSUME Init PROVE IInv
  OBVIOUS
<1>2. mem \in Stored /\ disk \in Stored /\ StoreTyped
  BY <1>1 DEF Init, Stored, StoreTyped
<1>3. CallsTyped
  <2>1. ChunkSizeFor(0) \in Nat \ {0}
    BY ChunkSizeType
  <2>2. QED
    BY <1>1, <2>1 DEF Init, CallsTyped, Calls
<1>4. ArrayFollowsPlan
  BY <1>1 DEF Init, ArrayFollowsPlan, FollowsPlan, Running
<1>5. QED
  BY <1>2, <1>3, <1>4, IInvParts DEF Parts

\* A step of another call does not matter to this one.
LEMMA OthersFollow ==
    ASSUME ArrayFollowsPlan, NEW v \in Uploads,
           pc'[v] = pc[v], src'[v] = src[v], csize'[v] = csize[v],
           resume'[v] = resume[v], chunks'[v] = chunks[v], work'[v] = work[v],
           firstErr'[v] = firstErr[v]
    PROVE  FollowsPlan(v)'
<1>1. FollowsPlan(v)
  BY DEF ArrayFollowsPlan
<1>2. QED
  BY <1>1 DEF FollowsPlan, Running, PlanLenOf, From, Total, PlanChunk

LEMMA ReturnCalls ==
    ASSUME CallsTyped, ArrayFollowsPlan,
           NEW u \in Uploads, NEW result \in {"ok", "err"}, Return(u, result)
    PROVE  CallsTyped' /\ ArrayFollowsPlan'
<1>1. CallsTyped'
  BY DEF Return, CallsTyped, Calls
<1>2. ASSUME NEW v \in Uploads PROVE FollowsPlan(v)'
  <2>1. CASE v = u
    BY <2>1 DEF Return, CallsTyped, FollowsPlan, Running
  <2>2. CASE v # u
    BY <2>2, OthersFollow DEF Return, CallsTyped
  <2>3. QED
    BY <2>1, <2>2
<1>3. QED
  BY <1>1, <1>2 DEF ArrayFollowsPlan

LEMMA StartCalls ==
    ASSUME CallsTyped, ArrayFollowsPlan, mem \in Stored,
           NEW u \in Uploads, NEW s \in Sources, NEW asked \in AskedSizes,
           Start(u, s, asked)
    PROVE  CallsTyped' /\ ArrayFollowsPlan'
<1> DEFINE found == IF mem # NoEntry /\ mem.incomplete THEN mem.chunks ELSE <<>>
<1>1. found \in Seq(Chunk) /\ Tiles(found)
  BY DEF Stored, Good, Entry, Tiles
<1>2. ChunkSizeFor(asked) \in Nat \ {0}
  BY ChunkSizeType, SettingsAssumption
<1> HIDE DEF found
<1>3. resume' = [resume EXCEPT ![u] = found]
  BY DEF Start, found
<1>4. CallsTyped'
  BY <1>1, <1>2, <1>3 DEF Start, CallsTyped, Calls
<1>5. ASSUME NEW v \in Uploads PROVE FollowsPlan(v)'
  <2>1. CASE v = u
    BY <2>1, <1>1, <1>3 DEF Start, CallsTyped, FollowsPlan, Running
  <2>2. CASE v # u
    BY <2>2, <1>3, OthersFollow DEF Start, CallsTyped
  <2>3. QED
    BY <2>1, <2>2
<1>6. QED
  BY <1>4, <1>5 DEF ArrayFollowsPlan

LEMMA FromType ==
    ASSUME CallsTyped, NEW u \in Uploads, Tiles(resume[u])
    PROVE  /\ PlanLenOf(u) \in Nat \ {0}
           /\ From(u) \in 0 .. Len(resume[u]) /\ From(u) <= PlanLenOf(u)
<1>1. /\ Total(u) \in Nat \ {0} /\ csize[u] \in Nat \ {0}
      /\ resume[u] \in Seq(Chunk)
  BY SourcesAssumption DEF CallsTyped, Total
<1>2. PlanLenOf(u) \in Nat \ {0}
  BY <1>1, PlanLenBounds DEF PlanLenOf
<1>3. From(u) \in 0 .. Len(resume[u]) /\ From(u) <= PlanLenOf(u)
  BY <1>1, ResumeFromBounds DEF From, PlanLenOf
<1>4. QED
  BY <1>2, <1>3

\* What the resume check takes from an earlier attempt is good by itself.
LEMMA InitialEntryGood ==
    ASSUME CallsTyped, ArrayFollowsPlan, NEW u \in Uploads, pc[u] = "looked"
    PROVE  /\ InitialEntry(u) \in Stored
           /\ PlanLenOf(u) \in Nat \ {0}
           /\ From(u) \in 0 .. Len(resume[u]) /\ From(u) <= PlanLenOf(u)
           /\ resume[u] \in Seq(Chunk) /\ Tiles(resume[u])
<1>1. resume[u] \in Seq(Chunk)
  BY DEF CallsTyped
<1>2. Tiles(resume[u])
  BY DEF ArrayFollowsPlan, FollowsPlan, Running
<1>3. PlanLenOf(u) \in Nat \ {0}
  BY <1>2, FromType
<1>4. From(u) \in 0 .. Len(resume[u]) /\ From(u) <= PlanLenOf(u)
  BY <1>2, FromType
<1>5. /\ SubSeq(resume[u], 1, From(u)) \in Seq(Chunk)
      /\ Tiles(SubSeq(resume[u], 1, From(u)))
  <2> DEFINE c == SubSeq(resume[u], 1, From(u))
  <2>1. c \in Seq(Chunk) /\ Len(c) = From(u)
        /\ \A i \in 1 .. From(u) : c[i] = resume[u][i]
    BY <1>1, <1>4, PrefixSeq, Zenon
  <2> HIDE DEF c
  <2>2. Tiles(c)
    BY <2>1, <1>1, <1>2, <1>4 DEF Tiles
  <2>3. QED
    BY <2>1, <2>2 DEF c
<1>6. InitialEntry(u) \in Stored
  BY <1>5 DEF InitialEntry, Stored, Good, Entry
<1>7. QED
  BY <1>1, <1>2, <1>3, <1>4, <1>6

LEMMA InitEntryCalls ==
    ASSUME CallsTyped, ArrayFollowsPlan, NEW u \in Uploads, InitEntry(u)
    PROVE  CallsTyped' /\ ArrayFollowsPlan'
<1> DEFINE n == PlanLenOf(u)
           F == From(u)
           array == [i \in 1 .. n |-> IF i <= F THEN resume[u][i] ELSE NoChunk]
           steps == [i \in 1 .. n |-> IF i <= F THEN "over" ELSE "queued"]
<1>1. /\ n \in Nat \ {0} /\ F \in 0 .. Len(resume[u]) /\ F <= n
      /\ resume[u] \in Seq(Chunk) /\ Tiles(resume[u])
  BY InitialEntryGood DEF InitEntry
<1>2. \A i \in 1 .. F : resume[u][i] \in Chunk
  BY <1>1
<1>3. chunks' = [chunks EXCEPT ![u] = array] /\ work' = [work EXCEPT ![u] = steps]
  BY DEF InitEntry
<1>4. PlanLenOf(u)' = n /\ From(u)' = F
  BY DEF InitEntry, PlanLenOf, From, Total
<1> HIDE DEF n, F
<1>5. array \in Seq(Chunk \cup {NoChunk}) /\ Len(array) = n
  BY <1>1, <1>2
<1>6. steps \in Seq(Steps) /\ Len(steps) = n
  BY <1>1 DEF Steps
<1>7. \A i \in 1 .. n :
        /\ i <= F => array[i] = resume[u][i]
        /\ i > F => array[i] = NoChunk
        /\ steps[i] = "over" => array[i] # NoChunk
        /\ i <= F => steps[i] = "over"
  BY <1>1, <1>2, NoneAssumption
<1> HIDE DEF array, steps
<1>8. CallsTyped'
  <2>1. pc' = [pc EXCEPT ![u] = "sending"] /\ UNCHANGED <<src, csize, resume, firstErr>>
    BY DEF InitEntry
  <2>2. pc' \in [Uploads -> Calls]
    BY <2>1 DEF CallsTyped, Calls
  <2>3. chunks' \in [Uploads -> Seq(Chunk \cup {NoChunk})]
    BY <1>3, <1>5 DEF CallsTyped
  <2>4. work' \in [Uploads -> Seq(Steps)]
    BY <1>3, <1>6 DEF CallsTyped
  <2>5. QED
    BY <2>1, <2>2, <2>3, <2>4 DEF CallsTyped
<1>9. ASSUME NEW v \in Uploads PROVE FollowsPlan(v)'
  <2>1. CASE v = u
    <3>1. chunks'[u] = array /\ work'[u] = steps /\ resume'[u] = resume[u]
      BY <1>3 DEF InitEntry, CallsTyped
    <3>2. QED
      BY <2>1, <3>1, <1>1, <1>4, <1>5, <1>6, <1>7 DEF FollowsPlan, Running
  <2>2. CASE v # u
    BY <2>2, <1>3, OthersFollow DEF InitEntry, CallsTyped
  <2>3. QED
    BY <2>1, <2>2
<1>10. QED
  BY <1>8, <1>9 DEF ArrayFollowsPlan

\* A worker that goes on without touching the array; if it is over, then
\* because something has failed.
LEMMA WorkerCalls ==
    ASSUME CallsTyped, ArrayFollowsPlan, NEW u \in Uploads, NEW i, NEW to \in Steps,
           pc[u] = "sending", i \in DOMAIN work[u], work[u][i] # "over",
           work' = [work EXCEPT ![u][i] = to],
           UNCHANGED <<pc, src, csize, resume, chunks>>,
           firstErr' \in {firstErr, [firstErr EXCEPT ![u] = TRUE]},
           to = "over" => firstErr'[u]
    PROVE  CallsTyped' /\ ArrayFollowsPlan'
<1> DEFINE steps == [work[u] EXCEPT ![i] = to]
<1>1. work[u] \in Seq(Steps) /\ i \in 1 .. Len(work[u])
  BY DEF CallsTyped
<1>2. /\ steps \in Seq(Steps) /\ Len(steps) = Len(work[u]) /\ steps[i] = to
      /\ \A j \in 1 .. Len(work[u]) : j # i => steps[j] = work[u][j]
  BY <1>1, ExceptSeq
<1>3. work' = [work EXCEPT ![u] = steps]
  BY DEF CallsTyped
<1> HIDE DEF steps
<1>4. CallsTyped'
  BY <1>2, <1>3 DEF CallsTyped
<1>5. ASSUME NEW v \in Uploads PROVE FollowsPlan(v)'
  <2>1. CASE v = u
    <3>1. work'[u] = steps
      BY <1>3 DEF CallsTyped
    <3>2. firstErr[u] => firstErr'[u]
      BY DEF CallsTyped
    <3>3. FollowsPlan(u)
      BY DEF ArrayFollowsPlan
    <3>4. /\ Running(u)' = Running(u) /\ PlanLenOf(u)' = PlanLenOf(u)
          /\ From(u)' = From(u)
          /\ \A j : PlanChunk(u, j)' = PlanChunk(u, j)
      BY DEF Running, PlanLenOf, From, Total, PlanChunk
    <3>5. QED
      BY <2>1, <3>1, <3>2, <3>3, <3>4, <1>1, <1>2 DEF FollowsPlan
  <2>2. CASE v # u
    BY <2>2, <1>3, OthersFollow DEF CallsTyped
  <2>3. QED
    BY <2>1, <2>2
<1>6. QED
  BY <1>4, <1>5 DEF ArrayFollowsPlan

\* Recording a chunk: the array stays on its plan, and what is stored of it is
\* good.
LEMMA RecordGood ==
    ASSUME CallsTyped, ArrayFollowsPlan, NEW u \in Uploads, NEW i \in DOMAIN work[u],
           Record(u, i)
    PROVE  CallsTyped' /\ ArrayFollowsPlan' /\ mem' \in Stored
<1> DEFINE array == [chunks[u] EXCEPT ![i] = PlanChunk(u, i)]
           steps == [work[u] EXCEPT ![i] = "over"]
<1>1. FollowsPlan(u) /\ pc[u] = "sending"
  BY DEF ArrayFollowsPlan, Record
<1>2. /\ work[u] \in Seq(Steps) /\ chunks[u] \in Seq(Chunk \cup {NoChunk})
      /\ i \in 1 .. Len(work[u]) /\ i \in 1 .. Len(chunks[u]) /\ i \in 1 .. PlanLenOf(u)
  BY <1>1 DEF CallsTyped, FollowsPlan
<1>3. PlanChunk(u, i) \in Chunk /\ PlanChunk(u, i) # NoChunk
  BY <1>2, PlanChunkType
<1>4. /\ steps \in Seq(Steps) /\ Len(steps) = Len(work[u])
      /\ \A j \in 1 .. Len(work[u]) : j # i => steps[j] = work[u][j]
  BY <1>2, ExceptSeq DEF Steps
<1>5. /\ array \in Seq(Chunk \cup {NoChunk}) /\ Len(array) = Len(chunks[u])
      /\ array[i] = PlanChunk(u, i)
      /\ \A j \in 1 .. Len(chunks[u]) : j # i => array[j] = chunks[u][j]
  BY <1>2, <1>3, ExceptSeq
<1>6. work' = [work EXCEPT ![u] = steps] /\ chunks' = [chunks EXCEPT ![u] = array]
  BY DEF Record, CallsTyped
<1> HIDE DEF array, steps
<1>7. chunks'[u] = array /\ work'[u] = steps
  BY <1>6 DEF CallsTyped
<1>8. /\ Running(u)' = Running(u) /\ PlanLenOf(u)' = PlanLenOf(u)
      /\ From(u)' = From(u) /\ resume' = resume /\ firstErr' = firstErr /\ pc' = pc
      /\ \A j : PlanChunk(u, j)' = PlanChunk(u, j)
  BY DEF Record, Running, PlanLenOf, From, Total, PlanChunk
<1>9. Tiles(resume[u]) /\ Len(chunks[u]) = PlanLenOf(u)
  BY <1>1 DEF FollowsPlan, Running
<1>10. i > From(u)
  <2>1. From(u) \in Nat
    BY <1>9, FromType
  <2>2. ~ (i <= From(u))
    BY <1>1, <1>2 DEF FollowsPlan, Record
  <2>3. QED
    BY <1>2, <2>1, <2>2
<1>11. ASSUME NEW j \in 1 .. PlanLenOf(u)
       PROVE  /\ j <= From(u) => array[j] = resume[u][j] /\ steps[j] = "over"
              /\ j > From(u) => array[j] \in {NoChunk, PlanChunk(u, j)}
              /\ steps[j] = "over" /\ ~ firstErr[u] => array[j] # NoChunk
  <2>1. CASE j = i
    <3>1. array[j] = PlanChunk(u, j) /\ array[j] # NoChunk
      BY <2>1, <1>3, <1>5
    <3>2. ~ (j <= From(u))
      <4>1. From(u) \in Nat
        BY <1>9, FromType
      <4>2. QED
        BY <2>1, <4>1, <1>10
    <3>3. QED
      BY <3>1, <3>2, Zenon
  <2>2. CASE j # i
    <3>1. /\ j <= From(u) => chunks[u][j] = resume[u][j] /\ work[u][j] = "over"
          /\ j > From(u) => chunks[u][j] \in {NoChunk, PlanChunk(u, j)}
          /\ work[u][j] = "over" /\ ~ firstErr[u] => chunks[u][j] # NoChunk
      BY <1>1 DEF FollowsPlan
    <3>2. j \in 1 .. Len(chunks[u]) /\ j \in 1 .. Len(work[u])
      BY <1>1, <1>9 DEF FollowsPlan
    <3>3. array[j] = chunks[u][j] /\ steps[j] = work[u][j]
      BY <2>2, <3>2, <1>4, <1>5
    <3>4. j <= From(u) => array[j] = resume[u][j] /\ steps[j] = "over"
      BY <3>1, <3>3
    <3>5. j > From(u) => array[j] \in {NoChunk, PlanChunk(u, j)}
      BY <3>1, <3>3
    <3>6. steps[j] = "over" /\ ~ firstErr[u] => array[j] # NoChunk
      BY <3>1, <3>3, Zenon
    <3>7. QED
      BY <3>4, <3>5, <3>6, Zenon
  <2>3. QED
    BY <2>1, <2>2
<1>12. CallsTyped'
  <2>1. chunks' \in [Uploads -> Seq(Chunk \cup {NoChunk})]
    BY <1>5, <1>6 DEF CallsTyped
  <2>2. work' \in [Uploads -> Seq(Steps)]
    BY <1>4, <1>6 DEF CallsTyped
  <2>3. UNCHANGED <<pc, src, csize, resume, firstErr>>
    BY DEF Record
  <2>4. QED
    BY <2>1, <2>2, <2>3 DEF CallsTyped
<1>13. ASSUME NEW v \in Uploads PROVE FollowsPlan(v)'
  <2>1. CASE v = u
    BY <2>1, <1>2, <1>4, <1>5, <1>7, <1>8, <1>9, <1>11, <1>1 DEF FollowsPlan
  <2>2. CASE v # u
    BY <2>2, <1>6, <1>8, OthersFollow DEF Record, CallsTyped
  <2>3. QED
    BY <2>1, <2>2
<1>14. mem' \in Stored
  <2>1. PICK k \in 0 .. Len(chunks[u]) :
            IsContig(array, k) /\ mem' = ProgressEntry(array, k)
    BY <1>7 DEF Record
  <2>2. k \in 0 .. Len(array) /\ \A j \in 1 .. k : array[j] # NoChunk
    BY <2>1 DEF IsContig
  <2>3. SubSeq(array, 1, k) \in Seq(Chunk) /\ Tiles(SubSeq(array, 1, k))
    BY <2>2, <1>5, <1>9, <1>11, ArrayPrefixGood
  <2>4. QED
    BY <2>1, <2>3 DEF ProgressEntry, Stored, Good, Entry
<1>15. QED
  BY <1>12, <1>13, <1>14 DEF ArrayFollowsPlan

\* When all workers are over and nothing has failed, the array is the whole
\* file, of the size of the content that was given to the call.
LEMMA FinishGood ==
    ASSUME CallsTyped, ArrayFollowsPlan, NEW u \in Uploads, AllOver(u), ~ firstErr[u]
    PROVE  /\ [chunks |-> chunks[u], incomplete |-> FALSE] \in Stored
           /\ chunks[u] \in Seq(Chunk)
           /\ Tiles(chunks[u])
           /\ EndOf(chunks[u]) = Total(u)
<1> DEFINE n == PlanLenOf(u)
           array == chunks[u]
<1>1. FollowsPlan(u) /\ pc[u] = "sending"
  BY DEF ArrayFollowsPlan, AllOver
<1>2. /\ Tiles(resume[u]) /\ Len(chunks[u]) = n /\ Len(work[u]) = n
      /\ work[u] \in Seq(Steps) /\ chunks[u] \in Seq(Chunk \cup {NoChunk})
  BY <1>1 DEF FollowsPlan, Running, CallsTyped
<1>3. n \in 0 .. Len(chunks[u]) /\ \A i \in 1 .. n : chunks[u][i] # NoChunk
  BY <1>1, <1>2 DEF FollowsPlan, AllOver
<1>4. \A i \in 1 .. n :
        /\ i <= From(u) => chunks[u][i] = resume[u][i]
        /\ i > From(u) => chunks[u][i] \in {NoChunk, PlanChunk(u, i)}
  BY <1>1 DEF FollowsPlan
<1>5. /\ SubSeq(chunks[u], 1, n) \in Seq(Chunk)
      /\ Tiles(SubSeq(chunks[u], 1, n))
      /\ EndOf(SubSeq(chunks[u], 1, n)) = Total(u)
  <2>1. /\ SubSeq(chunks[u], 1, n) \in Seq(Chunk)
        /\ Tiles(SubSeq(chunks[u], 1, n))
        /\ n = PlanLenOf(u) => EndOf(SubSeq(chunks[u], 1, n)) = Total(u)
    <3>1. array \in Seq(Chunk \cup {NoChunk}) /\ Len(array) = PlanLenOf(u)
      BY <1>2
    <3>2. n \in 0 .. Len(array) /\ \A i \in 1 .. n : array[i] # NoChunk
      BY <1>3
    <3>3. \A i \in 1 .. PlanLenOf(u) :
            /\ i <= From(u) => array[i] = resume[u][i]
            /\ i > From(u) => array[i] \in {NoChunk, PlanChunk(u, i)}
      BY <1>4
    <3>4. Tiles(resume[u])
      BY <1>2
    <3> HIDE DEF array, n
    <3>5. QED
      BY <3>1, <3>2, <3>3, <3>4, ArrayPrefixGood DEF array
  <2>2. QED
    BY <2>1
<1>6. SubSeq(chunks[u], 1, n) = chunks[u]
  BY <1>2
<1>7. Total(u) = SizeOf[src[u]] /\ src[u] \in Sources
  BY DEF Total, CallsTyped
<1>8. QED
  BY <1>5, <1>6, <1>7 DEF Stored, Good, Entry

\* Every step keeps the invariant: one step here for each action.
LEMMA NextIInv == IInv /\ [Next]_vars => IInv'
<1> USE DEF SaveOk, SaveFails, storeVars, callVars
<1>1. SUFFICES ASSUME mem \in Stored, disk \in Stored, StoreTyped, CallsTyped,
                      ArrayFollowsPlan, [Next]_vars
               PROVE  /\ mem' \in Stored /\ disk' \in Stored
                      /\ StoreTyped' /\ CallsTyped' /\ ArrayFollowsPlan'
  <2>1. IInv' <=> Parts'
    BY IInvParts, PTL
  <2>2. QED
    BY <2>1, IInvParts DEF Parts
<1>2. ASSUME UNCHANGED callVars PROVE CallsTyped' /\ ArrayFollowsPlan'
  BY <1>1, <1>2, OthersFollow DEF CallsTyped, ArrayFollowsPlan
<1>3. ASSUME NEW u \in Uploads, NEW s \in Sources, NEW asked \in AskedSizes,
             Start(u, s, asked)
      PROVE  /\ mem' \in Stored /\ disk' \in Stored
             /\ StoreTyped' /\ CallsTyped' /\ ArrayFollowsPlan'
  BY <1>1, <1>3, StartCalls DEF Start, StoreTyped
<1>4. ASSUME NEW u \in Uploads, StartFails(u)
      PROVE  /\ mem' \in Stored /\ disk' \in Stored
             /\ StoreTyped' /\ CallsTyped' /\ ArrayFollowsPlan'
  BY <1>1, <1>4, ReturnCalls DEF StartFails, StoreTyped
<1>5. ASSUME NEW u \in Uploads, InitEntry(u)
      PROVE  /\ mem' \in Stored /\ disk' \in Stored
             /\ StoreTyped' /\ CallsTyped' /\ ArrayFollowsPlan'
  <2>1. InitialEntry(u) \in Stored
    BY <1>1, <1>5, InitialEntryGood DEF InitEntry
  <2>2. QED
    BY <1>1, <1>5, <2>1, InitEntryCalls DEF InitEntry, StoreTyped
<1>6. ASSUME NEW u \in Uploads, InitEntryFails(u)
      PROVE  /\ mem' \in Stored /\ disk' \in Stored
             /\ StoreTyped' /\ CallsTyped' /\ ArrayFollowsPlan'
  <2>1. InitialEntry(u) \in Stored
    BY <1>1, <1>6, InitialEntryGood DEF InitEntryFails
  <2>2. QED
    BY <1>1, <1>6, <2>1, ReturnCalls DEF InitEntryFails, StoreTyped
<1>7. ASSUME NEW u \in Uploads, NEW i \in DOMAIN work[u], WorkerStep(u, i)
      PROVE  /\ mem' \in Stored /\ disk' \in Stored
             /\ StoreTyped' /\ CallsTyped' /\ ArrayFollowsPlan'
  <2>1. CASE Spawn(u, i)
    BY <1>1, <1>7, <2>1, WorkerCalls DEF Spawn, StoreTyped, Steps
  <2>2. CASE CheckErr(u, i)
    <3>1. "over" \in Steps /\ "sending" \in Steps
      BY DEF Steps
    <3>2. CASE firstErr[u]
      BY <1>1, <1>7, <2>2, <3>1, <3>2, WorkerCalls DEF CheckErr, WorkerMoves, StoreTyped
    <3>3. CASE ~ firstErr[u]
      BY <1>1, <1>7, <2>2, <3>1, <3>3, WorkerCalls DEF CheckErr, WorkerMoves, StoreTyped
    <3>4. QED
      BY <3>2, <3>3
  <2>3. ASSUME WorkerMoves(u, i, "sending", "sent") \/ WorkerMoves(u, i, "sending", "over")
        PROVE  PlanChunk(u, i) \in Chunk
    <3>1. i \in 1 .. PlanLenOf(u)
      BY <1>1, <1>7, <2>3
      DEF WorkerMoves, ArrayFollowsPlan, FollowsPlan, CallsTyped
    <3>2. QED
      BY <1>1, <3>1, PlanChunkType
  <2>4. CASE SendOk(u, i)
    <3>1. CallsTyped' /\ ArrayFollowsPlan'
      BY <1>1, <1>7, <2>4, WorkerCalls DEF SendOk, WorkerMoves, Steps
    <3>2. StoreTyped'
      BY <1>1, <2>3, <2>4 DEF SendOk, WorkerMoves, StoreTyped
    <3>3. QED
      BY <1>1, <2>4, <3>1, <3>2 DEF SendOk, WorkerMoves
  <2>5. CASE SendFails(u, i)
    <3>1. CallsTyped' /\ ArrayFollowsPlan'
      <4>1. firstErr' = [firstErr EXCEPT ![u] = TRUE] /\ firstErr'[u]
        BY <1>1, <2>5 DEF SendFails, CallsTyped
      <4>2. QED
        BY <1>1, <1>7, <2>5, <4>1, WorkerCalls DEF SendFails, WorkerMoves, Steps
    <3>2. StoreTyped'
      BY <1>1, <2>3, <2>5 DEF SendFails, WorkerMoves, StoreTyped
    <3>3. QED
      BY <1>1, <2>5, <3>1, <3>2 DEF SendFails, WorkerMoves
  <2>6. CASE Record(u, i)
    <3>1. CallsTyped' /\ ArrayFollowsPlan' /\ mem' \in Stored
      BY <1>1, <1>7, <2>6, RecordGood
    <3>2. disk' = disk /\ landed' = landed /\ dirty' = TRUE
      BY <2>6 DEF Record
    <3>3. QED
      BY <1>1, <3>1, <3>2 DEF StoreTyped
  <2>7. CASE PrepareFails(u, i)
    <3>1. firstErr' = [firstErr EXCEPT ![u] = TRUE] /\ firstErr'[u]
      BY <1>1, <2>7 DEF PrepareFails, CallsTyped
    <3>2. CallsTyped' /\ ArrayFollowsPlan'
      BY <1>1, <1>7, <2>7, <3>1, WorkerCalls DEF PrepareFails, WorkerMoves, Steps
    <3>3. QED
      BY <1>1, <2>7, <3>2 DEF PrepareFails, WorkerMoves, StoreTyped
  <2>8. QED
    BY <1>7, <2>1, <2>2, <2>4, <2>5, <2>6, <2>7 DEF WorkerStep
<1>8. ASSUME NEW u \in Uploads, Finish(u) \/ FinishSaveFails(u)
      PROVE  /\ mem' \in Stored /\ disk' \in Stored
             /\ StoreTyped' /\ CallsTyped' /\ ArrayFollowsPlan'
  <2>1. [chunks |-> chunks[u], incomplete |-> FALSE] \in Stored
    BY <1>1, <1>8, FinishGood DEF Finish, FinishSaveFails
  <2>2. CASE Finish(u)
    BY <1>1, <2>1, <2>2, ReturnCalls DEF Finish, StoreTyped
  <2>3. CASE FinishSaveFails(u)
    BY <1>1, <2>1, <2>3, ReturnCalls DEF FinishSaveFails, StoreTyped
  <2>4. QED
    BY <1>8, <2>2, <2>3
<1>9. ASSUME NEW u \in Uploads, FinishFailed(u)
      PROVE  /\ mem' \in Stored /\ disk' \in Stored
             /\ StoreTyped' /\ CallsTyped' /\ ArrayFollowsPlan'
  BY <1>1, <1>9, ReturnCalls DEF FinishFailed, StoreTyped
<1>10. ASSUME Flush \/ ShutdownSave \/ Remove
       PROVE  /\ mem' \in Stored /\ disk' \in Stored
              /\ StoreTyped' /\ CallsTyped' /\ ArrayFollowsPlan'
  <2>1. CallsTyped' /\ ArrayFollowsPlan'
    BY <1>2, <1>10 DEF Flush, ShutdownSave, Remove
  <2>2. mem' \in Stored /\ disk' \in Stored /\ StoreTyped'
    BY <1>1, <1>10 DEF Flush, ShutdownSave, Remove, Stored, StoreTyped
  <2>3. QED
    BY <2>1, <2>2
<1>11. ASSUME Restart
       PROVE  /\ mem' \in Stored /\ disk' \in Stored
              /\ StoreTyped' /\ CallsTyped' /\ ArrayFollowsPlan'
  <2>1. mem' \in Stored /\ disk' \in Stored /\ StoreTyped'
    BY <1>1, <1>11 DEF Restart, StoreTyped
  <2>2. CallsTyped'
    BY <1>1, <1>11 DEF Restart, CallsTyped, Calls
  <2>3. ArrayFollowsPlan'
    BY <1>11 DEF Restart, ArrayFollowsPlan, FollowsPlan, Running
  <2>4. QED
    BY <2>1, <2>2, <2>3
<1>12. ASSUME UNCHANGED vars
       PROVE  /\ mem' \in Stored /\ disk' \in Stored
              /\ StoreTyped' /\ CallsTyped' /\ ArrayFollowsPlan'
  BY <1>1, <1>2, <1>12 DEF vars, StoreTyped
<1>13. QED
  <2>1. CASE Next
    BY <2>1, <1>3, <1>4, <1>5, <1>6, <1>7, <1>8, <1>9, <1>10, <1>11
    DEF Next, CallStep
  <2>2. QED
    BY <1>1, <1>12, <2>1

----------------------------------------------------------------------------
(* The theorems.                                                           *)

\* The inductive invariant holds in every reachable state.
THEOREM Invariance == Spec => []IInv
BY InitIInv, NextIInv, PTL DEF Spec

\* The type invariant of Upload.
THEOREM TypeCorrect == Spec => []TypeOK
<1>1. IInv => TypeOK
  BY DEF IInv
<1>2. QED
  BY Invariance, <1>1, PTL

\* Whatever concurrent uploads, resumes with another chunk size, failures and
\* restarts there are, what is stored can be read back in order.
THEOREM StoredEntriesTile == Spec => []EntriesTile
<1>1. IInv => EntriesTile
  BY DEF IInv
<1>2. QED
  BY Invariance, <1>1, PTL

\* What becomes visible has the size of one of the contents.
THEOREM VisibleHasASize == Spec => []VisibleSize
<1>1. IInv => VisibleSize
  BY DEF IInv
<1>2. QED
  BY Invariance, <1>1, PTL

\* With a single content, an entry that may be stored and is visible holds that
\* content.
LEMMA OneSourceWhole ==
    ASSUME NEW e \in Good, ~ e.incomplete, NEW s, Sources = {s}
    PROVE  IsWhole(e, s)
<1>1. e \in Entry /\ Tiles(e.chunks) /\ EndOf(e.chunks) = SizeOf[s]
  BY DEF Good
<1>2. e.chunks \in Seq(Chunk) /\ Len(e.chunks) \in Nat
  BY <1>1 DEF Entry
<1>3. SizeOf[s] # 0
  BY SourcesAssumption
<1>4. Len(e.chunks) # 0
  BY <1>1, <1>3 DEF EndOf
<1>5. \A i \in 1 .. Len(e.chunks) : e.chunks[i].src = s
  <2>1. \A i \in 1 .. Len(e.chunks) : e.chunks[i] \in Chunk
    BY <1>2, ElementOfSeq
  <2>2. QED
    BY <2>1 DEF Chunk
<1>6. SourcesOf(e) = {s}
  BY <1>2, <1>4, <1>5 DEF SourcesOf
<1>7. QED
  BY <1>1, <1>6 DEF IsWhole

\* As long as only one content is ever uploaded to the path, what is visible is
\* that content, whole.  (With two it is not: see the run "splice".)
THEOREM OneSourceIsWhole ==
    ASSUME NEW s, Sources = {s}
    PROVE  Spec => []VisibleIsWhole
<1>1. ASSUME IInv PROVE VisibleIsWhole
  <2>1. \A e \in Published : e \in Good /\ ~ e.incomplete
    BY <1>1, IInvParts DEF Parts, Stored, Published, Entries
  <2>2. QED
    BY <2>1, OneSourceWhole DEF VisibleIsWhole
<1>2. QED
  BY Invariance, <1>1, PTL

LEMMA OnlyFinishSucceeds ==
    ASSUME CallsTyped, [Next]_vars,
           NEW u \in Uploads, pc[u] = "sending", pc'[u] = "ok"
    PROVE  Finish(u)
<1>1. pc \in [Uploads -> Calls]
  BY DEF CallsTyped
<1>2. pc' # pc
  OBVIOUS
<1>3. \A v \in Uploads : \A x \in {"looked", "sending", "err"} :
            pc' # [pc EXCEPT ![v] = x]
  BY <1>1
<1>4. Next
  BY <1>2 DEF vars, callVars
<1>5. ~ (Flush \/ ShutdownSave \/ Remove \/ Restart)
  BY <1>2 DEF Flush, ShutdownSave, Remove, Restart, callVars
<1>6. PICK v \in Uploads :
        \/ \E s \in Sources, asked \in AskedSizes : Start(v, s, asked)
        \/ StartFails(v)
        \/ CallStep(v)
  BY <1>4, <1>5 DEF Next
<1>7. ~ (\/ \E s \in Sources, asked \in AskedSizes : Start(v, s, asked)
         \/ StartFails(v))
  BY <1>3 DEF Start, StartFails, Return
<1>8. ~ (InitEntry(v) \/ InitEntryFails(v) \/ FinishSaveFails(v) \/ FinishFailed(v))
  BY <1>3 DEF InitEntry, InitEntryFails, FinishSaveFails, FinishFailed, Return
<1>9. ~ \E i \in DOMAIN work[v] : WorkerStep(v, i)
  BY <1>2 DEF WorkerStep, Spawn, CheckErr, PrepareFails, SendOk, SendFails, WorkerMoves, Record
<1>10. Finish(v)
  BY <1>6, <1>7, <1>8, <1>9 DEF CallStep
<1>11. v = u
  BY <1>1, <1>10 DEF Finish, Return
<1>12. QED
  BY <1>10, <1>11

\* A call that returns without an error has made visible an entry that reads
\* back in order and is as long as the content it was given.
THEOREM PublishesItsSize == Spec => PublishedSize
<1> DEFINE Publishes ==
        \A u \in Uploads :
            pc[u] = "sending" /\ pc'[u] = "ok" =>
                /\ Tiles(mem'.chunks)
                /\ EndOf(mem'.chunks) = Total(u)
<1>1. ASSUME IInv, [Next]_vars PROVE [Publishes]_vars
  <2>1. CallsTyped /\ ArrayFollowsPlan
    BY <1>1, IInvParts DEF Parts
  <2>2. SUFFICES ASSUME NEW u \in Uploads, pc[u] = "sending", pc'[u] = "ok"
                 PROVE  Tiles(mem'.chunks) /\ EndOf(mem'.chunks) = Total(u)
    OBVIOUS
  <2>3. Finish(u)
    BY <1>1, <2>1, <2>2, OnlyFinishSucceeds
  <2>4. Tiles(chunks[u]) /\ EndOf(chunks[u]) = Total(u)
    BY <2>1, <2>3, FinishGood DEF Finish
  <2>5. mem' = [chunks |-> chunks[u], incomplete |-> FALSE]
    BY <2>3 DEF Finish, SaveOk
  <2>6. QED
    BY <2>4, <2>5
<1>2. QED
  BY Invariance, <1>1, PTL DEF Spec, PublishedSize
----------------------------------------------------------------------------
(* What an entry names has reached Telegram and is not sent twice, for any *)
(* number of calls; and for one call at a time, the path is hidden while   *)
(* it sends, and a reported success is on disk.                            *)

\* All the chunks that an entry names are among `there`.
Names(entry, there) ==
    entry # NoEntry => \A i \in 1 .. Len(entry.chunks) : entry.chunks[i] \in there

\* What a call took over from an earlier attempt, what is in its array, and what
\* a worker is about to record has reached Telegram.
Held(u) ==
    /\ \A i \in 1 .. Len(resume[u]) : resume[u][i] \in landed
    /\ \A i \in 1 .. Len(chunks[u]) : chunks[u][i] # NoChunk => chunks[u][i] \in landed
    /\ pc[u] = "sending" =>
        \A i \in DOMAIN work[u] : work[u][i] = "sent" => PlanChunk(u, i) \in landed

\* Inductive together with IInv.
LandedInv ==
    /\ Names(mem, landed) /\ Names(disk, landed)
    /\ \A u \in Uploads : Held(u)

\* Nothing disappears from Telegram, so a call that does not move still holds
\* what is there.
LEMMA HeldStays ==
    ASSUME NEW v \in Uploads, Held(v), landed \subseteq landed',
           pc'[v] = pc[v], src'[v] = src[v], csize'[v] = csize[v],
           resume'[v] = resume[v], chunks'[v] = chunks[v], work'[v] = work[v]
    PROVE  Held(v)'
  BY DEF Held, PlanChunk, Total

\* A call that has returned holds nothing.
LEMMA ReturnHeld ==
    ASSUME CallsTyped, LandedInv, landed \subseteq landed',
           NEW u \in Uploads, NEW result \in {"ok", "err"}, Return(u, result)
    PROVE  \A v \in Uploads : Held(v)'
<1>1. SUFFICES ASSUME NEW v \in Uploads PROVE Held(v)'
  OBVIOUS
<1>2. CASE v = u
  BY <1>2 DEF Return, CallsTyped, Held
<1>3. CASE v # u
  BY <1>3, HeldStays DEF Return, CallsTyped, LandedInv
<1>4. QED
  BY <1>2, <1>3

\* The first two steps of a call hand over what the entry named.
LEMMA HeadHeld ==
    ASSUME CallsTyped, ArrayFollowsPlan, mem \in Stored, LandedInv, NEW u \in Uploads,
           \/ \E s \in Sources, asked \in AskedSizes : Start(u, s, asked)
           \/ InitEntry(u)
    PROVE  \A v \in Uploads : Held(v)'
<1>1. SUFFICES ASSUME NEW v \in Uploads PROVE Held(v)'
  OBVIOUS
<1>2. landed' = landed
  BY DEF Start, InitEntry
<1>3. Held(v) /\ Held(u)
  BY DEF LandedInv
<1>4. CASE v # u
  BY <1>2, <1>3, <1>4, HeldStays DEF Start, InitEntry, CallsTyped
<1>5. ASSUME v = u, NEW s \in Sources, NEW asked \in AskedSizes, Start(u, s, asked)
      PROVE  Held(v)'
  <2>1. resume'[u] = IF mem # NoEntry /\ mem.incomplete THEN mem.chunks ELSE <<>>
    BY <1>5 DEF Start, CallsTyped
  <2>2. \A i \in 1 .. Len(resume'[u]) : resume'[u][i] \in landed
    BY <2>1 DEF LandedInv, Names
  <2>3. pc'[u] = "looked" /\ chunks'[u] = chunks[u]
    BY <1>5 DEF Start, CallsTyped
  <2>4. QED
    BY <1>2, <1>3, <1>5, <2>2, <2>3 DEF Held
<1>6. CASE v = u /\ InitEntry(u)
  <2>1. /\ From(u) \in 0 .. Len(resume[u]) /\ PlanLenOf(u) \in Nat
        /\ resume[u] \in Seq(Chunk)
    BY <1>6, InitialEntryGood DEF InitEntry
  <2>2. /\ chunks'[u] = [i \in 1 .. PlanLenOf(u) |->
                            IF i <= From(u) THEN resume[u][i] ELSE NoChunk]
        /\ work'[u] = [i \in 1 .. PlanLenOf(u) |->
                            IF i <= From(u) THEN "over" ELSE "queued"]
        /\ resume' = resume
    BY <1>6 DEF InitEntry, CallsTyped
  <2>3. Len(chunks'[u]) = PlanLenOf(u)
    BY <2>1, <2>2
  <2>4. ASSUME NEW i \in 1 .. Len(chunks'[u]), chunks'[u][i] # NoChunk
        PROVE  chunks'[u][i] \in landed
    <3>1. i \in 1 .. PlanLenOf(u) /\ i <= From(u) /\ chunks'[u][i] = resume[u][i]
      BY <2>2, <2>3, <2>4
    <3>2. i \in 1 .. Len(resume[u])
      BY <2>1, <3>1
    <3>3. QED
      BY <1>3, <3>1, <3>2 DEF Held
  <2>5. \A i \in DOMAIN work'[u] : work'[u][i] # "sent"
    BY <2>2
  <2>6. QED
    BY <1>2, <1>3, <1>6, <2>2, <2>4, <2>5 DEF Held
<1>7. QED
  BY <1>4, <1>5, <1>6

\* A worker: it sends before it counts as having sent, and records only then.
LEMMA WorkerHeld ==
    ASSUME CallsTyped, ArrayFollowsPlan, LandedInv,
           NEW u \in Uploads, NEW i \in DOMAIN work[u], WorkerStep(u, i)
    PROVE  landed \subseteq landed' /\ Names(mem', landed')
           /\ \A v \in Uploads : Held(v)'
<1>1. /\ landed \subseteq landed' /\ disk' = disk
      /\ UNCHANGED <<pc, src, csize, resume>> /\ pc[u] = "sending"
  BY DEF WorkerStep, Spawn, CheckErr, PrepareFails, SendOk, SendFails, Record, WorkerMoves, storeVars
<1>2. Held(u) /\ FollowsPlan(u)
  BY DEF LandedInv, ArrayFollowsPlan
<1>3. /\ work[u] \in Seq(Steps) /\ chunks[u] \in Seq(Chunk \cup {NoChunk})
      /\ i \in 1 .. Len(chunks[u]) /\ Len(chunks[u]) = PlanLenOf(u)
      /\ i \in 1 .. Len(work[u])
  BY <1>1, <1>2 DEF CallsTyped, FollowsPlan
<1>4. PICK to \in Steps : work' = [work EXCEPT ![u][i] = to]
  BY DEF WorkerStep, Spawn, CheckErr, PrepareFails, SendOk, SendFails, Record, WorkerMoves, Steps
<1>5. /\ work'[u] = [work[u] EXCEPT ![i] = to]
      /\ \A v \in Uploads : v # u => work'[v] = work[v]
  BY <1>4 DEF CallsTyped
<1>6. \A j : PlanChunk(u, j)' = PlanChunk(u, j)
  BY <1>1 DEF PlanChunk, Total
<1>7. CASE Record(u, i)
  <2> DEFINE array == [chunks[u] EXCEPT ![i] = PlanChunk(u, i)]
  <2>1. PlanChunk(u, i) \in landed
    BY <1>1, <1>2, <1>7 DEF Held, Record
  <2>2. /\ chunks'[u] = array /\ landed' = landed /\ to = "over"
        /\ \A v \in Uploads : v # u => chunks'[v] = chunks[v]
    <3>1. work'[u][i] = "over"
      BY <1>3, <1>7 DEF Record, CallsTyped
    <3>2. QED
      BY <1>3, <1>5, <1>7, <3>1 DEF Record, CallsTyped
  <2>3. PlanChunk(u, i) \in Chunk
    BY <1>3, PlanChunkType
  <2>4. /\ array \in Seq(Chunk \cup {NoChunk}) /\ Len(array) = Len(chunks[u])
        /\ array[i] = PlanChunk(u, i)
        /\ \A j \in 1 .. Len(chunks[u]) : j # i => array[j] = chunks[u][j]
    <3>1. PlanChunk(u, i) \in Chunk \cup {NoChunk}
      BY <2>3
    <3> DEFINE x == PlanChunk(u, i)
               s == chunks[u]
               R == Chunk \cup {NoChunk}
    <3>2. s \in Seq(R) /\ i \in 1 .. Len(s) /\ x \in R
      BY <1>3, <3>1
    <3> HIDE DEF x, s, R
    <3>3. /\ [s EXCEPT ![i] = x] \in Seq(R) /\ Len([s EXCEPT ![i] = x]) = Len(s)
          /\ [s EXCEPT ![i] = x][i] = x
          /\ \A j \in 1 .. Len(s) : j # i => [s EXCEPT ![i] = x][j] = s[j]
      BY <3>2, ExceptSeq
    <3>4. QED
      BY <3>3 DEF x, s, R
  <2> HIDE DEF array
  <2>5. \A j \in 1 .. Len(array) : array[j] # NoChunk => array[j] \in landed
    BY <1>2, <2>1, <2>4 DEF Held
  <2>6. \A j \in DOMAIN work'[u] : work'[u][j] = "sent" => PlanChunk(u, j) \in landed
    BY <1>1, <1>2, <1>5, <2>2 DEF Held
  <2>7. Held(u)'
    BY <1>1, <1>2, <1>6, <2>2, <2>5, <2>6 DEF Held
  <2>8. \A v \in Uploads : v # u => Held(v)'
    BY <1>1, <1>5, <2>2, HeldStays DEF LandedInv
  <2>9. Names(mem', landed')
    <3>1. PICK k \in 0 .. Len(chunks[u]) :
              IsContig(array, k) /\ mem' = ProgressEntry(array, k)
      BY <1>7, <2>2 DEF Record
    <3>2. k \in 0 .. Len(array) /\ \A j \in 1 .. k : array[j] # NoChunk
      BY <3>1, <2>4 DEF IsContig
    <3>3. /\ Len(SubSeq(array, 1, k)) = k
          /\ \A j \in 1 .. k : SubSeq(array, 1, k)[j] = array[j]
      BY <2>4, <3>2, FilledPrefix
    <3>4. \A j \in 1 .. k : array[j] \in landed
      BY <2>5, <3>2
    <3>5. mem'.chunks = SubSeq(array, 1, k)
      BY <3>1 DEF ProgressEntry
    <3>6. QED
      BY <2>2, <3>3, <3>4, <3>5 DEF Names
  <2>10. QED
    BY <1>1, <2>7, <2>8, <2>9
<1>8. CASE ~ Record(u, i)
  <2>1. chunks' = chunks /\ mem' = mem
    BY <1>8 DEF WorkerStep, Spawn, CheckErr, PrepareFails, SendOk, SendFails, WorkerMoves, storeVars
  <2>2. to = "sent" => PlanChunk(u, i) \in landed'
    <3>1. work'[u][i] = to
      BY <1>3, <1>5
    <3>2. CASE SendOk(u, i)
      BY <3>2 DEF SendOk
    <3>3. CASE ~ SendOk(u, i)
      <4>1. work'[u][i] \in {"spawned", "sending", "over"}
        BY <1>3, <1>8, <3>3
        DEF WorkerStep, Spawn, CheckErr, PrepareFails, SendFails, WorkerMoves, CallsTyped
      <4>2. QED
        BY <3>1, <4>1
    <3>4. QED
      BY <3>2, <3>3
  <2>3. ASSUME NEW j \in DOMAIN work'[u], work'[u][j] = "sent"
        PROVE  PlanChunk(u, j) \in landed'
    <3>1. CASE j = i
      BY <1>3, <1>5, <2>2, <2>3, <3>1
    <3>2. CASE j # i
      BY <1>1, <1>2, <1>3, <1>5, <2>3, <3>2 DEF Held
    <3>3. QED
      BY <3>1, <3>2
  <2>4. Held(u)'
    BY <1>1, <1>2, <1>6, <2>1, <2>3 DEF Held
  <2>5. \A v \in Uploads : v # u => Held(v)'
    BY <1>1, <1>5, <2>1, HeldStays DEF LandedInv
  <2>6. Names(mem', landed')
    BY <1>1, <2>1 DEF LandedInv, Names
  <2>7. QED
    BY <1>1, <2>4, <2>5, <2>6
<1>9. QED
  BY <1>7, <1>8

\* The end of a call that has sent everything.
LEMMA FinishNames ==
    ASSUME CallsTyped, ArrayFollowsPlan, LandedInv,
           NEW u \in Uploads, AllOver(u), ~ firstErr[u]
    PROVE  Names([chunks |-> chunks[u], incomplete |-> FALSE], landed)
<1>1. /\ FollowsPlan(u) /\ pc[u] = "sending" /\ Held(u)
      /\ work[u] \in Seq(Steps)
  BY DEF ArrayFollowsPlan, AllOver, LandedInv, CallsTyped
<1>2. \A i \in 1 .. Len(chunks[u]) : chunks[u][i] # NoChunk
  BY <1>1 DEF FollowsPlan, AllOver
<1>3. QED
  BY <1>1, <1>2 DEF Held, Names

\* Every step keeps it.
LEMMA LandedStep ==
    ASSUME IInv, LandedInv, [Next]_vars
    PROVE  LandedInv'
<1> USE DEF SaveOk, SaveFails, storeVars, callVars
<1>1. CallsTyped /\ ArrayFollowsPlan /\ mem \in Stored
  BY IInvParts DEF Parts
<1>2. Names(mem, landed) /\ Names(disk, landed) /\ Names(NoEntry, landed)
  BY DEF LandedInv, Names
<1>3. ASSUME UNCHANGED <<landed, callVars>> PROVE \A v \in Uploads : Held(v)'
  BY <1>3, HeldStays DEF LandedInv
<1>4. ASSUME NEW u \in Uploads, NEW s \in Sources, NEW asked \in AskedSizes,
             Start(u, s, asked)
      PROVE  LandedInv'
  <2>1. \A v \in Uploads : Held(v)'
    BY <1>1, <1>4, HeadHeld
  <2>2. QED
    BY <1>2, <1>4, <2>1 DEF Start, LandedInv
<1>5. ASSUME NEW u \in Uploads, StartFails(u) PROVE LandedInv'
  BY <1>1, <1>2, <1>5, ReturnHeld DEF StartFails, LandedInv
<1>6. ASSUME NEW u \in Uploads, InitEntry(u) \/ InitEntryFails(u) PROVE LandedInv'
  <2>1. pc[u] = "looked" /\ landed' = landed
    BY <1>6 DEF InitEntry, InitEntryFails
  <2>2. Names(InitialEntry(u), landed)
    <3>1. /\ From(u) \in 0 .. Len(resume[u]) /\ resume[u] \in Seq(Chunk)
      BY <1>1, <2>1, InitialEntryGood
    <3>2. /\ Len(SubSeq(resume[u], 1, From(u))) = From(u)
          /\ \A i \in 1 .. From(u) : SubSeq(resume[u], 1, From(u))[i] = resume[u][i]
      BY <3>1, PrefixSeq
    <3>3. \A i \in 1 .. From(u) : resume[u][i] \in landed
      BY <3>1 DEF LandedInv, Held
    <3>4. QED
      BY <3>2, <3>3 DEF Names, InitialEntry
  <2>3. \A v \in Uploads : Held(v)'
    <3>1. CASE InitEntry(u)
      BY <1>1, <3>1, HeadHeld
    <3>2. CASE InitEntryFails(u)
      BY <1>1, <2>1, <3>2, ReturnHeld DEF InitEntryFails
    <3>3. QED
      BY <1>6, <3>1, <3>2
  <2>4. QED
    BY <1>2, <1>6, <2>1, <2>2, <2>3 DEF InitEntry, InitEntryFails, LandedInv
<1>7. ASSUME NEW u \in Uploads, NEW i \in DOMAIN work[u], WorkerStep(u, i)
      PROVE  LandedInv'
  <2>1. /\ landed \subseteq landed' /\ Names(mem', landed')
        /\ \A v \in Uploads : Held(v)'
    BY <1>1, <1>7, WorkerHeld
  <2>2. disk' = disk
    BY <1>7 DEF WorkerStep, Spawn, CheckErr, PrepareFails, SendOk, SendFails, Record, WorkerMoves
  <2>3. QED
    BY <1>2, <2>1, <2>2 DEF LandedInv, Names
<1>8. ASSUME NEW u \in Uploads, Finish(u) \/ FinishSaveFails(u) \/ FinishFailed(u)
      PROVE  LandedInv'
  <2>1. landed' = landed
    BY <1>8 DEF Finish, FinishSaveFails, FinishFailed
  <2>2. \A v \in Uploads : Held(v)'
    BY <1>1, <1>8, <2>1, ReturnHeld DEF Finish, FinishSaveFails, FinishFailed
  <2>3. CASE Finish(u) \/ FinishSaveFails(u)
    <3>1. Names([chunks |-> chunks[u], incomplete |-> FALSE], landed)
      BY <1>1, <2>3, FinishNames DEF Finish, FinishSaveFails
    <3>2. QED
      BY <1>2, <2>1, <2>2, <2>3, <3>1 DEF Finish, FinishSaveFails, LandedInv
  <2>4. CASE FinishFailed(u)
    BY <1>2, <2>1, <2>2, <2>4 DEF FinishFailed, LandedInv
  <2>5. QED
    BY <1>8, <2>3, <2>4
<1>9. ASSUME Flush \/ ShutdownSave \/ Remove PROVE LandedInv'
  <2>1. UNCHANGED <<landed, callVars>>
    BY <1>9 DEF Flush, ShutdownSave, Remove
  <2>2. QED
    BY <1>2, <1>3, <1>9, <2>1 DEF Flush, ShutdownSave, Remove, LandedInv
<1>10. ASSUME Restart PROVE LandedInv'
  <2>1. \A v \in Uploads : Held(v)'
    BY <1>10 DEF Restart, Held
  <2>2. QED
    BY <1>2, <1>10, <2>1 DEF Restart, LandedInv
<1>11. ASSUME UNCHANGED vars PROVE LandedInv'
  BY <1>2, <1>3, <1>11 DEF vars, LandedInv
<1>12. QED
  <2>1. CASE Next
    BY <2>1, <1>4, <1>5, <1>6, <1>7, <1>8, <1>9, <1>10 DEF Next, CallStep
  <2>2. QED
    BY <1>11, <2>1

----------------------------------------------------------------------------
(* For one call at a time.                                                 *)

Hidden(entry) == entry # NoEntry => entry.incomplete

\* Inductive together with IInv when u is the only call there is: it shows
\* nothing while it sends, and nothing is waiting to be saved when it is done.
AloneInv(u) ==
    /\ pc[u] = "sending" => Hidden(mem) /\ Hidden(disk)
    /\ pc[u] = "ok" /\ mem # NoEntry => disk = mem /\ ~ mem.incomplete

LEMMA AloneStep ==
    ASSUME IInv, NEW u, Uploads = {u}, AloneInv(u), [Next]_vars
    PROVE  AloneInv(u)'
<1> USE DEF SaveOk, SaveFails, storeVars, callVars
<1>1. u \in Uploads /\ pc \in [Uploads -> Calls]
  BY DEF IInv, TypeOK
<1>2. ASSUME NEW s \in Sources, NEW asked \in AskedSizes, Start(u, s, asked)
      PROVE  AloneInv(u)'
  BY <1>1, <1>2 DEF Start, AloneInv
<1>3. ASSUME StartFails(u) \/ InitEntryFails(u) \/ FinishSaveFails(u) \/ FinishFailed(u)
      PROVE  AloneInv(u)'
  BY <1>1, <1>3 DEF StartFails, InitEntryFails, FinishSaveFails, FinishFailed, Return,
                    AloneInv
<1>4. CASE InitEntry(u)
  BY <1>1, <1>4 DEF InitEntry, InitialEntry, AloneInv, Hidden
<1>5. ASSUME NEW i \in DOMAIN work[u], WorkerStep(u, i)
      PROVE  AloneInv(u)'
  <2>1. pc' = pc /\ pc[u] = "sending" /\ disk' = disk
    BY <1>5 DEF WorkerStep, Spawn, CheckErr, PrepareFails, SendOk, SendFails, Record, WorkerMoves
  <2>2. mem' = mem \/ mem'.incomplete
    BY <1>5 DEF WorkerStep, Spawn, CheckErr, PrepareFails, SendOk, SendFails, Record, WorkerMoves,
                ProgressEntry
  <2>3. QED
    BY <2>1, <2>2 DEF AloneInv, Hidden
<1>6. CASE Finish(u)
  BY <1>1, <1>6 DEF Finish, Return, AloneInv
<1>7. CASE Flush \/ ShutdownSave \/ Remove
  BY <1>7 DEF Flush, ShutdownSave, Remove, AloneInv, Hidden
<1>8. CASE Restart
  BY <1>1, <1>8 DEF Restart, AloneInv
<1>9. CASE UNCHANGED vars
  BY <1>9 DEF vars, AloneInv, Hidden
<1>10. QED
  <2>1. CASE Next
    BY <2>1, <1>2, <1>3, <1>4, <1>5, <1>6, <1>7, <1>8 DEF Next, CallStep
  <2>2. QED
    BY <1>9, <2>1

----------------------------------------------------------------------------
(* The theorems.                                                           *)

\* The arrays of all calls follow their plans at every moment, whatever fails
\* and in whatever order the workers of uploadLoop finish.
THEOREM ArraysFollowPlans == Spec => []ArrayFollowsPlan
<1>1. IInv => ArrayFollowsPlan
  BY DEF IInv
<1>2. QED
  BY Invariance, <1>1, PTL

\* storage.json and the memory only name messages that exist: uploadOne records
\* after SendMedia, a resume takes over what was recorded, and removals, lost
\* saves and restarts bring nothing else back, for any number of calls.
THEOREM RecordedExists == Spec => []RecordedHasLanded
<1>1. Init => LandedInv
  BY DEF Init, LandedInv, Names, Held
<1>2. LandedInv => RecordedHasLanded
  BY DEF LandedInv, Names, RecordedHasLanded, Entries
<1>3. QED
  BY Invariance, LandedStep, <1>1, <1>2, PTL DEF Spec

\* What an interrupted attempt has recorded of the same plan is not sent again,
\* for any size, chunk size and number of recorded chunks (all of them included).
THEOREM NothingIsResent == Spec => []NoResend
<1>1. ASSUME IInv, NEW u \in Uploads, pc[u] = "sending",
             Len(resume[u]) <= PlanLenOf(u),
             \A i \in 1 .. Len(resume[u]) : resume[u][i] = PlanChunk(u, i),
             NEW k \in 1 .. Len(resume[u])
      PROVE  work[u][k] = "over"
  <2> DEFINE n == Len(resume[u])
  <2>1. /\ CallsTyped /\ FollowsPlan(u)
        /\ resume[u] \in Seq(Chunk) /\ Tiles(resume[u])
    BY <1>1, IInvParts DEF Parts, CallsTyped, ArrayFollowsPlan, FollowsPlan, Running
  <2>2. n \in Nat \ {0} /\ n \in 1 .. n /\ PlanLenOf(u) \in Nat
    BY <2>1, <1>1, FromType
  <2>3. TotalSize(resume[u]) = EndOf(resume[u])
    BY <2>1, SumOfTiles DEF Chunk
  <2>4. EndOf(resume[u]) = PlanEnd(Total(u), csize[u], n)
    <3>1. /\ resume[u][n].off = PlanOffset(csize[u], n)
          /\ resume[u][n].size = PlanSize(Total(u), csize[u], n)
      <4>1. resume[u][n] = PlanChunk(u, n)
        BY <1>1, <2>2
      <4>2. /\ PlanChunk(u, n).off = PlanOffset(csize[u], n)
            /\ PlanChunk(u, n).size = PlanSize(Total(u), csize[u], n)
        BY DEF PlanChunk
      <4>3. QED
        BY <4>1, <4>2
    <3>2. EndOf(resume[u]) = resume[u][n].off + resume[u][n].size
      BY <2>2 DEF EndOf
    <3>3. QED
      BY <3>1, <3>2 DEF PlanEnd
  <2>5. From(u) = n
    BY <1>1, <2>2, <2>3, <2>4 DEF From, ResumeFrom, PlanLenOf
  <2>6. k \in 1 .. PlanLenOf(u) /\ k <= From(u)
    BY <1>1, <2>2, <2>5
  <2>7. QED
    BY <1>1, <2>1, <2>6 DEF FollowsPlan
<1>2. IInv => NoResend
  BY <1>1 DEF NoResend
<1>3. QED
  BY Invariance, <1>2, PTL

\* "marked Incomplete for the entire duration": with one call at a time the path
\* shows nothing while chunks are sent, in memory or after a crash.
THEOREM HiddenUntilFinished ==
    ASSUME NEW u, Uploads = {u}
    PROVE  Spec => []HiddenWhileUploading
<1>1. Init => AloneInv(u)
  BY DEF Init, AloneInv
<1>2. AloneInv(u) => HiddenWhileUploading
  BY DEF AloneInv, Hidden, HiddenWhileUploading, Published, Entries
<1>3. ASSUME IInv, AloneInv(u), [Next]_vars PROVE AloneInv(u)'
  BY <1>3, AloneStep
<1>4. QED
  BY Invariance, <1>1, <1>2, <1>3, PTL DEF Spec

\* A success that was reported survives a crash: the last write of uploadLoop is
\* synchronous, and the saver has nothing older left to bring back.
THEOREM SuccessIsDurable ==
    ASSUME NEW u, Uploads = {u}
    PROVE  Spec => []AckedIsDurable
<1>1. Init => AloneInv(u)
  BY DEF Init, AloneInv
<1>2. AloneInv(u) => AckedIsDurable
  BY DEF AloneInv, AckedIsDurable
<1>3. ASSUME IInv, AloneInv(u), [Next]_vars PROVE AloneInv(u)'
  BY <1>3, AloneStep
<1>4. QED
  BY Invariance, <1>1, <1>2, <1>3, PTL DEF Spec

----------------------------------------------------------------------------
(* The refinement of Publication, and progress.                            *)

\* With one content, a reader takes an entry for that content or for nothing.
LEMMA ContentIsShown ==
    ASSUME NEW e \in Stored, NEW s, Sources = {s}
    PROVE  ContentOf(e) = IF e = NoEntry \/ e.incomplete THEN NoEntry ELSE s
<1>1. CASE e = NoEntry \/ e.incomplete
  BY <1>1 DEF ContentOf
<1>2. CASE e # NoEntry /\ ~ e.incomplete
  <2>1. IsWhole(e, s)
    BY <1>2, OneSourceWhole DEF Stored
  <2>2. (CHOOSE t \in Sources : IsWhole(e, t)) = s
    BY <2>1
  <2>3. QED
    BY <1>2, <2>1, <2>2 DEF ContentOf
<1>3. QED
  BY <1>1, <1>2

\* Every step of one caller is a step of Publication, or changes nothing that
\* Publication looks at.
LEMMA PublicationStep ==
    ASSUME IInv, IInv', NEW u, Uploads = {u}, AloneInv(u), NEW s, Sources = {s},
           [Next]_vars
    PROVE  [Pub!PubNext]_(Pub!pubVars)
<1> DEFINE shown(e) == IF e = NoEntry \/ e.incomplete THEN NoEntry ELSE s
           active == {src[v] : v \in {w \in Uploads : Running(w)}}
<1>1. /\ mem \in Stored /\ disk \in Stored /\ mem' \in Stored /\ disk' \in Stored
      /\ CallsTyped /\ CallsTyped'
  <2>1. IInv' <=> Parts'
    BY IInvParts, PTL
  <2>2. QED
    BY <2>1, IInvParts DEF Parts
<1>2. /\ ContentOf(mem) = shown(mem) /\ ContentOf(disk) = shown(disk)
      /\ ContentOf(mem') = shown(mem') /\ ContentOf(disk') = shown(disk')
  BY <1>1, ContentIsShown
<1>3. /\ active = IF Running(u) THEN {s} ELSE {}
      /\ active' = IF Running(u)' THEN {s} ELSE {}
  BY <1>1 DEF CallsTyped
<1> DEFINE idle == /\ ContentOf(mem') = ContentOf(mem)
                   /\ ContentOf(disk') = ContentOf(disk)
                   /\ active' = active
<1> USE DEF SaveOk, SaveFails, storeVars, callVars
<1>4. ASSUME NEW asked \in AskedSizes, NEW t \in Sources, Start(u, t, asked)
      PROVE  Pub!Begin(s)
  BY <1>1, <1>2, <1>3, <1>4 DEF Start, Pub!Begin, Running, CallsTyped
<1>5. ASSUME StartFails(u) PROVE idle
  BY <1>1, <1>3, <1>5 DEF StartFails, Return, Running, CallsTyped
<1>6. ASSUME InitEntry(u) \/ InitEntryFails(u) PROVE Pub!Hide
  BY <1>1, <1>2, <1>3, <1>6
  DEF InitEntry, InitEntryFails, InitialEntry, Return, Pub!Hide, Running, CallsTyped
<1>7. ASSUME NEW i \in DOMAIN work[u], WorkerStep(u, i) PROVE idle
  <2>1. pc' = pc /\ pc[u] = "sending" /\ disk' = disk /\ src' = src
    BY <1>7 DEF WorkerStep, Spawn, CheckErr, PrepareFails, SendOk, SendFails, Record, WorkerMoves
  <2>2. mem' = mem \/ mem'.incomplete
    BY <1>7 DEF WorkerStep, Spawn, CheckErr, PrepareFails, SendOk, SendFails, Record, WorkerMoves,
                ProgressEntry
  <2>3. QED
    BY <1>2, <1>3, <2>1, <2>2 DEF AloneInv, Hidden, Running
<1>8. ASSUME Finish(u) \/ FinishSaveFails(u) PROVE Pub!Publish(s)
  <2>1. pc[u] = "sending" /\ ~ Running(u)' /\ Running(u) /\ shown(mem) = NoEntry
    BY <1>1, <1>8 DEF Finish, FinishSaveFails, AllOver, Return, Running, CallsTyped,
                      AloneInv, Hidden
  <2>2. mem' = [chunks |-> chunks[u], incomplete |-> FALSE]
        /\ (disk' = mem' \/ disk' = disk)
    BY <1>8 DEF Finish, FinishSaveFails
  <2>3. mem' # NoEntry
    <3>1. chunks[u] \in Seq(Chunk)
      <4>1. CallsTyped /\ ArrayFollowsPlan /\ u \in Uploads
        BY IInvParts DEF Parts
      <4>2. AllOver(u) /\ ~ firstErr[u]
        BY <1>8 DEF Finish, FinishSaveFails
      <4>3. QED
        BY <4>1, <4>2, FinishGood
    <3>2. mem' \in Entry
      BY <2>2, <3>1 DEF Entry
    <3>3. QED
      BY <3>2, NoneAssumption
  <2>4. QED
    BY <1>2, <1>3, <2>1, <2>2, <2>3 DEF Pub!Publish
<1>9. ASSUME FinishFailed(u) PROVE Pub!End({s})
  BY <1>1, <1>2, <1>3, <1>9
  DEF FinishFailed, AllOver, Return, Running, CallsTyped, Pub!End
<1>10. ASSUME Flush \/ ShutdownSave PROVE Pub!Persist
  BY <1>3, <1>10 DEF Flush, ShutdownSave, Pub!Persist, Running
<1>11. ASSUME Remove PROVE Pub!Hide
  BY <1>2, <1>3, <1>11 DEF Remove, Pub!Hide, Running
<1>12. ASSUME Restart PROVE Pub!Recover
  BY <1>3, <1>12 DEF Restart, Pub!Recover, Running
<1>13. ASSUME UNCHANGED vars PROVE idle
  BY <1>3, <1>13 DEF vars, Running
<1>14. QED
  BY <1>4, <1>5, <1>6, <1>7, <1>8, <1>9, <1>10, <1>11, <1>12, <1>13
  DEF Next, CallStep, Pub!PubNext, Pub!pubVars

\* What is stored while u sends chunks, if anything, is a front of its array.
InArray(u) ==
    pc[u] = "sending" /\ mem # NoEntry =>
        /\ Len(mem.chunks) <= Len(chunks[u])
        /\ \A i \in 1 .. Len(mem.chunks) : chunks[u][i] # NoChunk

\* One step: what is stored stays a front of the array, and while u goes on it
\* gets no shorter, since the array only ever gets fuller.
LEMMA ProgressStep ==
    ASSUME IInv, NEW u, Uploads = {u}, InArray(u), [Next]_vars
    PROVE  /\ InArray(u)'
           /\ /\ pc[u] = "sending" /\ pc'[u] \in {"sending", "ok"}
              /\ mem # NoEntry /\ mem' # NoEntry
              => Len(mem'.chunks) >= Len(mem.chunks)
<1> USE DEF SaveOk, SaveFails, storeVars, callVars
<1> DEFINE grows == /\ pc[u] = "sending" /\ pc'[u] \in {"sending", "ok"}
                    /\ mem # NoEntry /\ mem' # NoEntry
                    => Len(mem'.chunks) >= Len(mem.chunks)
<1>1. /\ u \in Uploads /\ CallsTyped /\ ArrayFollowsPlan
      /\ pc \in [Uploads -> Calls] /\ chunks[u] \in Seq(Chunk \cup {NoChunk})
  BY IInvParts DEF Parts, CallsTyped
<1>2. mem # NoEntry => mem.chunks \in Seq(Chunk) /\ Len(mem.chunks) \in Nat
  BY IInvParts DEF Parts, Stored, Good, Entry
<1>3. ASSUME NEW s \in Sources, NEW asked \in AskedSizes, Start(u, s, asked)
      PROVE  InArray(u)' /\ grows
  BY <1>1, <1>3 DEF Start, InArray, Running
<1>4. ASSUME \/ StartFails(u) \/ InitEntryFails(u)
             \/ FinishSaveFails(u) \/ FinishFailed(u)
      PROVE  InArray(u)' /\ grows
  BY <1>1, <1>4 DEF StartFails, InitEntryFails, FinishSaveFails, FinishFailed, Return,
                    InArray
<1>5. ASSUME InitEntry(u) PROVE InArray(u)' /\ grows
  <2> DEFINE n == PlanLenOf(u)
             F == From(u)
             array == [i \in 1 .. n |-> IF i <= F THEN resume[u][i] ELSE NoChunk]
  <2>1. /\ n \in Nat \ {0} /\ F \in 0 .. Len(resume[u]) /\ F <= n
        /\ resume[u] \in Seq(Chunk)
    BY <1>1, <1>5, InitialEntryGood DEF InitEntry
  <2>2. chunks'[u] = array
    BY <1>1, <1>5 DEF InitEntry, CallsTyped
  <2>3. mem' = [chunks |-> SubSeq(resume[u], 1, F), incomplete |-> TRUE]
        /\ pc[u] = "looked"
    BY <1>5 DEF InitEntry, InitialEntry
  <2> HIDE DEF n, F
  <2>4. Len(array) = n
    BY <2>1
  <2>5. Len(mem'.chunks) = F
    BY <2>1, <2>3, PrefixSeq
  <2>6. \A i \in 1 .. F : resume[u][i] \in Chunk
    BY <2>1
  <2>7. \A i \in 1 .. F : array[i] # NoChunk
    BY <2>1, <2>6, NoneAssumption
  <2> HIDE DEF array
  <2>8. QED
    BY <2>1, <2>2, <2>3, <2>4, <2>5, <2>7 DEF InArray
<1>6. ASSUME NEW i \in DOMAIN work[u], Record(u, i) PROVE InArray(u)' /\ grows
  <2> DEFINE array == [chunks[u] EXCEPT ![i] = PlanChunk(u, i)]
  <2>1. i \in 1 .. Len(chunks[u]) /\ i \in 1 .. PlanLenOf(u)
    BY <1>1, <1>6 DEF Record, ArrayFollowsPlan, FollowsPlan, CallsTyped
  <2>2. PlanChunk(u, i) \in Chunk /\ PlanChunk(u, i) # NoChunk
    BY <1>1, <2>1, PlanChunkType
  <2>3. /\ array \in Seq(Chunk \cup {NoChunk}) /\ Len(array) = Len(chunks[u])
        /\ array[i] = PlanChunk(u, i)
        /\ \A j \in 1 .. Len(chunks[u]) : j # i => array[j] = chunks[u][j]
    <3> DEFINE x == PlanChunk(u, i)
               s == chunks[u]
               R == Chunk \cup {NoChunk}
    <3>1. s \in Seq(R) /\ i \in 1 .. Len(s) /\ x \in R
      BY <1>1, <2>1, <2>2
    <3> HIDE DEF x, s, R
    <3>2. /\ [s EXCEPT ![i] = x] \in Seq(R) /\ Len([s EXCEPT ![i] = x]) = Len(s)
          /\ [s EXCEPT ![i] = x][i] = x
          /\ \A j \in 1 .. Len(s) : j # i => [s EXCEPT ![i] = x][j] = s[j]
      BY <3>1, ExceptSeq
    <3>3. QED
      BY <3>2 DEF x, s, R
  <2>4. chunks'[u] = array /\ pc[u] = "sending"
    BY <1>1, <1>6 DEF Record, CallsTyped
  <2> HIDE DEF array
  <2>5. PICK k \in 0 .. Len(chunks[u]) :
            IsContig(array, k) /\ mem' = ProgressEntry(array, k)
    BY <1>6, <2>4 DEF Record
  <2>6. /\ k \in 0 .. Len(array) /\ \A j \in 1 .. k : array[j] # NoChunk
        /\ k < Len(array) => array[k + 1] = NoChunk
    BY <2>5 DEF IsContig
  <2>7. mem'.chunks = SubSeq(array, 1, k) /\ Len(mem'.chunks) = k
    BY <2>3, <2>5, <2>6, FilledPrefix DEF ProgressEntry
  <2>8. InArray(u)'
    BY <2>4, <2>6, <2>7 DEF InArray
  <2>9. ASSUME mem # NoEntry, k < Len(mem.chunks) PROVE FALSE
    <3>1. k + 1 \in 1 .. Len(mem.chunks) /\ k + 1 \in 1 .. Len(chunks[u])
      BY <1>2, <2>4, <2>6, <2>9 DEF InArray
    <3>2. array[k + 1] # NoChunk
      BY <2>2, <2>3, <2>4, <2>9, <3>1 DEF InArray
    <3>3. QED
      BY <2>3, <2>6, <3>1, <3>2
  <2>10. QED
    BY <1>2, <2>6, <2>7, <2>8, <2>9
<1>7. ASSUME NEW i \in DOMAIN work[u], WorkerStep(u, i), ~ Record(u, i)
      PROVE  InArray(u)' /\ grows
  BY <1>2, <1>7
  DEF WorkerStep, Spawn, CheckErr, PrepareFails, SendOk, SendFails, WorkerMoves, InArray
<1>8. ASSUME Finish(u) PROVE InArray(u)' /\ grows
  <2>1. mem' = [chunks |-> chunks[u], incomplete |-> FALSE] /\ pc'[u] = "ok"
        /\ pc[u] = "sending"
    BY <1>1, <1>8 DEF Finish, Return, AllOver
  <2>2. QED
    BY <1>1, <1>2, <2>1 DEF InArray
<1>9. ASSUME Flush \/ ShutdownSave \/ Remove PROVE InArray(u)' /\ grows
  BY <1>2, <1>9 DEF Flush, ShutdownSave, Remove, InArray
<1>10. ASSUME Restart PROVE InArray(u)' /\ grows
  BY <1>1, <1>10 DEF Restart, InArray
<1>11. ASSUME UNCHANGED vars PROVE InArray(u)' /\ grows
  BY <1>2, <1>11 DEF vars, InArray
<1>12. QED
  BY <1>3, <1>4, <1>5, <1>6, <1>7, <1>8, <1>9, <1>10, <1>11 DEF Next, CallStep

\* With one call at a time and one content, whatever its size and chunk sizes
\* are, whatever fails and whenever the process dies, a reader sees what
\* Publication promises: uploadLoop hides the path first and publishes last.
THEOREM UploadImplementsPublication ==
    ASSUME NEW u, Uploads = {u}, NEW s, Sources = {s}
    PROVE  Spec => ImplementsPublication
<1>1. Init => Pub!PubInit
  BY DEF Init, Pub!PubInit, ContentOf, Running
<1>2. Init => AloneInv(u)
  BY DEF Init, AloneInv
<1>3. ASSUME IInv, AloneInv(u), [Next]_vars PROVE AloneInv(u)'
  BY <1>3, AloneStep
<1>4. ASSUME IInv, IInv', AloneInv(u), [Next]_vars
      PROVE  [Pub!PubNext]_(Pub!pubVars)
  BY <1>4, PublicationStep
<1>5. QED
  BY Invariance, <1>1, <1>2, <1>3, <1>4, PTL
  DEF Spec, ImplementsPublication, Pub!PubSpec

\* With one call at a time a crash never costs more than what was in flight:
\* each AddFileAsync of uploadOne stores at least what the one before it did.
THEOREM ProgressIsKept ==
    ASSUME NEW call, Uploads = {call}
    PROVE  Spec => ProgressNeverShrinks
<1> DEFINE Grows ==
        \A u \in Uploads :
            /\ pc[u] = "sending" /\ pc'[u] \in {"sending", "ok"}
            /\ mem # NoEntry /\ mem' # NoEntry
            => Len(mem'.chunks) >= Len(mem.chunks)
<1>1. Init => InArray(call)
  BY DEF Init, InArray
<1>2. ASSUME IInv, InArray(call), [Next]_vars PROVE InArray(call)'
  BY <1>2, ProgressStep
<1>3. ASSUME IInv, InArray(call), [Next]_vars PROVE [Grows]_vars
  <2>1. /\ pc[call] = "sending" /\ pc'[call] \in {"sending", "ok"}
        /\ mem # NoEntry /\ mem' # NoEntry
        => Len(mem'.chunks) >= Len(mem.chunks)
    BY <1>3, ProgressStep
  <2>2. QED
    BY <2>1
<1>4. QED
  BY Invariance, <1>1, <1>2, <1>3, PTL DEF Spec, ProgressNeverShrinks
=============================================================================
