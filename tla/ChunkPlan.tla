----------------------------- MODULE ChunkPlan -----------------------------
(***************************************************************************)
(* The arithmetic of chunked files: how planChunks cuts a file of a known  *)
(* size into chunks, how the sizes of recorded chunks are added up, and    *)
(* when uploadLoop trusts the chunks a previous attempt left behind.       *)
(*                                                                         *)
(* A recorded chunk (ChunkFile in the code) keeps, besides its size, which *)
(* bytes it holds: `src` is the content that was uploaded and `off` the    *)
(* place in it the bytes were read from.  The code has neither field; they *)
(* stand for the bytes themselves, which the code identifies by Hash and   *)
(* finds by MessageID.  Chunks are numbered from 1, not from 0.            *)
(***************************************************************************)
EXTENDS Integers, Sequences

\* clampConcurrency: an unset value means the default; the rest is capped.
ClampConcurrency(concurrency, default, max) ==
    LET asked == IF concurrency <= 0 THEN default ELSE concurrency
    IN  IF asked > max THEN max ELSE asked

\* clampChunkSize: the default when unset, else forced into min..max.
ClampChunkSize(size, default, min, max) ==
    IF size <= 0 THEN default
    ELSE IF size < min THEN min
    ELSE IF size > max THEN max
    ELSE size

----------------------------------------------------------------------------
(* planChunks(totalSize, chunkSize) for totalSize > 0.                     *)

\* Mutant: the last, shorter chunk is forgotten.
PlanLen_Floor(total, csize) == total \div csize

PlanLen(total, csize) == (total + csize - 1) \div csize

PlanOffset(csize, i) == (i - 1) * csize

\* Mutant: the last chunk is as long as the others.
PlanSize_Untruncated(total, csize, i) == csize

PlanSize(total, csize, i) ==
    IF PlanOffset(csize, i) + csize > total
    THEN total - PlanOffset(csize, i)
    ELSE csize

\* The end of chunk i of the plan: the offset chunk i + 1 starts at.
PlanEnd(total, csize, i) == PlanOffset(csize, i) + PlanSize(total, csize, i)

----------------------------------------------------------------------------
(* Sums over the recorded sizes.                                           *)

\* SizesUpTo(chunks)[k] is what a loop that adds c.Size has after k chunks.
SizesUpTo(chunks) ==
    LET sum[k \in 0 .. Len(chunks)] ==
            IF k = 0 THEN 0 ELSE sum[k - 1] + chunks[k].size
    IN  sum

TotalSize(chunks) == SizesUpTo(chunks)[Len(chunks)]

\* Mutants: any boundary will do; a resume that lacks nothing is refused.
ResumeFrom_AnyBoundary(resume, total, csize) ==
    IF Len(resume) <= PlanLen(total, csize) THEN Len(resume) ELSE 0

ResumeFrom_Short(resume, total, csize) ==
    IF /\ Len(resume) > 0
       /\ Len(resume) < PlanLen(total, csize)
       /\ TotalSize(resume) = PlanEnd(total, csize, Len(resume))
    THEN Len(resume)
    ELSE 0

\* How many chunks of an interrupted upload uploadLoop splices into the new
\* one: all of them if there are no more than the new plan has and their sizes
\* add up to the boundary the new plan has at that place, else none.
ResumeFrom(resume, total, csize) ==
    IF /\ Len(resume) > 0
       /\ Len(resume) <= PlanLen(total, csize)
       /\ TotalSize(resume) = PlanEnd(total, csize, Len(resume))
    THEN Len(resume)
    ELSE 0

----------------------------------------------------------------------------
(* What a reader relies on: it writes chunk i at the sum of the sizes of   *)
(* the chunks before it (the offsets of Download, readRangeSequential).    *)

\* Each chunk starts where the one before it ends, and none is empty.
Tiles(chunks) ==
    \A i \in 1 .. Len(chunks) :
        /\ chunks[i].size > 0
        /\ chunks[i].off = IF i = 1 THEN 0
                           ELSE chunks[i - 1].off + chunks[i - 1].size

EndOf(chunks) ==
    IF Len(chunks) = 0 THEN 0
    ELSE chunks[Len(chunks)].off + chunks[Len(chunks)].size
=============================================================================
