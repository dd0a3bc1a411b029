------------------------------- MODULE Upload -------------------------------
(***************************************************************************)
(* FileSystem.Upload of one remote path in one session, on top of Storage: *)
(* the resume check, the parallel chunk workers, the progress they record, *)
(* the background saver, removal of the path, and the end of the process   *)
(* at any point followed by a new start from storage.json.                 *)
(*                                                                         *)
(* `Uploads` are the calls of Upload that may be in progress at a time     *)
(* (FTP and WebDAV clients run one each), `Sources` the contents they may  *)
(* be given.  The workers of a call are its chunk indexes.  One process    *)
(* uses the storage file, so LoadIfChanged reloads nothing: every write is *)
(* followed by lastLoad = time.Now().  Locked regions are single actions;  *)
(* saveLocked renames a finished temporary file, so that a save reaches    *)
(* the disk as a whole or not at all.                                      *)
(***************************************************************************)
EXTENDS ChunkPlan, FiniteSets

CONSTANTS
    Uploads,            \* calls of Upload that can be in progress together
    Sources,            \* contents that are uploaded to the path
    SizeOf,             \* the size of each content, [Sources -> Nat \ {0}]
    AskedSizes,         \* maxChunkSize arguments, after fs.ChunkSize is put in
    DefaultChunkSize, MinChunkSize, MaxChunkSize,
    ParralUpload,       \* the setting of that name
    DefaultConcurrency, MaxConcurrentUploadChunks,
    Burst,              \* UploadLimiter: one second's worth of bytes, at least
                        \* MaxChunkSize when there is no limit
    NoEntry, NoChunk

ASSUME SourcesAssumption ==
    /\ Sources # {}
    /\ SizeOf \in [Sources -> Nat \ {0}]

ASSUME SettingsAssumption ==
    /\ AskedSizes \subseteq Int
    /\ AskedSizes # {}
    /\ DefaultChunkSize \in Nat \ {0}
    /\ MinChunkSize \in Nat \ {0}
    /\ MaxChunkSize \in Nat
    /\ MinChunkSize <= MaxChunkSize
    /\ ParralUpload \in Int
    /\ DefaultConcurrency \in Nat \ {0}
    /\ MaxConcurrentUploadChunks \in Nat \ {0}
    /\ Burst \in Nat

Chunk == [src : Sources, off : Nat, size : Nat \ {0}]

\* A FileEntry that is not a folder; Date and FileHash are left out.
Entry == [chunks : Seq(Chunk), incomplete : BOOLEAN]

ASSUME NoneAssumption == NoEntry \notin Entry \cup Sources /\ NoChunk \notin Chunk

VARIABLES
    mem,        \* sess.Files[path] in memory, NoEntry when there is no key
    disk,       \* the same in storage.json
    dirty,      \* Storage.dirty
    landed,     \* the chunks that exist as messages on Telegram
    pc,         \* where each call of Upload is
    src,        \* the content it uploads
    csize,      \* its clamped chunk size
    resume,     \* existing.Chunks as GetEntry returned them
    chunks,     \* its array of ChunkFiles
    work,       \* the state of its workers
    firstErr    \* whether one of them has failed

storeVars == <<mem, disk, dirty>>
callVars == <<pc, src, csize, resume, chunks, work, firstErr>>
vars == <<storeVars, landed, callVars>>

Calls == {"idle", "looked", "sending", "ok", "err"}
Steps == {"queued", "spawned", "sending", "sent", "over"}

Running(u) == pc[u] \in {"looked", "sending"}

Concurrency ==
    ClampConcurrency(ParralUpload, DefaultConcurrency, MaxConcurrentUploadChunks)

ChunkSizeFor(asked) ==
    ClampChunkSize(asked, DefaultChunkSize, MinChunkSize, MaxChunkSize)

Total(u) == SizeOf[src[u]]
PlanLenOf(u) == PlanLen(Total(u), csize[u])

\* Chunk i of the plan, as it is recorded once it has been sent.
PlanChunk(u, i) ==
    [src |-> src[u], off |-> PlanOffset(csize[u], i),
     size |-> PlanSize(Total(u), csize[u], i)]

From(u) == ResumeFrom(resume[u], Total(u), csize[u])

\* A worker holds a place in sem from before it is started until it returns.
InFlight(u) ==
    {i \in DOMAIN work[u] : work[u][i] \in {"spawned", "sending", "sent"}}

\* Mutants: gaps are counted in; the count stops anywhere.
IsContig_Gaps(array, k) ==
    /\ k \in 0 .. Len(array)
    /\ k < Len(array) => array[k + 1] = NoChunk

IsContig_Anywhere(array, k) ==
    /\ k \in 0 .. Len(array)
    /\ \A i \in 1 .. k : array[i] # NoChunk

\* How far the array is filled without a gap.
IsContig(array, k) ==
    /\ k \in 0 .. Len(array)
    /\ \A i \in 1 .. k : array[i] # NoChunk
    /\ k < Len(array) => array[k + 1] = NoChunk

\* The new value of the path, and a save that may fail: then the memory keeps
\* the change, the file does not get it, and dirty stays as it was.
SaveOk(entry) == mem' = entry /\ disk' = entry /\ dirty' = FALSE
SaveFails(entry) == mem' = entry /\ UNCHANGED <<disk, dirty>>

\* The call is over, and what it kept on its stack is gone.
Return(u, result) ==
    /\ pc' = [pc EXCEPT ![u] = result]
    /\ resume' = [resume EXCEPT ![u] = <<>>]
    /\ chunks' = [chunks EXCEPT ![u] = <<>>]
    /\ work' = [work EXCEPT ![u] = <<>>]
    /\ firstErr' = [firstErr EXCEPT ![u] = FALSE]
    /\ UNCHANGED <<src, csize>>

----------------------------------------------------------------------------
(* The call: Upload, the head of uploadLoop, the loop that starts workers, *)
(* and what follows wg.Wait().                                             *)

\* Upload(localPath, remotePath, maxChunkSize) up to the call of uploadLoop.
\* Between GetEntry and AddFile the lock is free.
Start(u, s, asked) ==
    /\ ~ Running(u)
    /\ pc' = [pc EXCEPT ![u] = "looked"]
    /\ src' = [src EXCEPT ![u] = s]
    /\ csize' = [csize EXCEPT ![u] = ChunkSizeFor(asked)]
    /\ resume' = [resume EXCEPT ![u] =
                    IF mem # NoEntry /\ mem.incomplete THEN mem.chunks ELSE <<>>]
    /\ UNCHANGED <<storeVars, landed, chunks, work, firstErr>>

\* An upload that fails before it touches the store: no session, no client,
\* no such local file, an empty one.
StartFails(u) ==
    /\ ~ Running(u)
    /\ Return(u, "err")
    /\ UNCHANGED <<storeVars, landed>>

\* Mutant: the entry is not marked Incomplete.
InitialEntry_Visible(u) ==
    [chunks |-> SubSeq(resume[u], 1, From(u)), incomplete |-> FALSE]

\* The entry an upload starts with, hidden from here on.
InitialEntry(u) ==
    [chunks |-> SubSeq(resume[u], 1, From(u)), incomplete |-> TRUE]

InitEntry(u) ==
    /\ pc[u] = "looked"
    /\ SaveOk(InitialEntry(u))
    /\ pc' = [pc EXCEPT ![u] = "sending"]
    /\ chunks' = [chunks EXCEPT ![u] =
                    [i \in 1 .. PlanLenOf(u) |->
                        IF i <= From(u) THEN resume[u][i] ELSE NoChunk]]
    /\ work' = [work EXCEPT ![u] =
                    [i \in 1 .. PlanLenOf(u) |->
                        IF i <= From(u) THEN "over" ELSE "queued"]]
    /\ UNCHANGED <<landed, src, csize, resume, firstErr>>

InitEntryFails(u) ==
    /\ pc[u] = "looked"
    /\ SaveFails(InitialEntry(u))
    /\ Return(u, "err")
    /\ UNCHANGED landed

\* One turn of the loop over plans[resumeFrom:], which waits for a place in sem.
Spawn(u, i) ==
    /\ pc[u] = "sending"
    /\ i \in DOMAIN work[u]
    /\ work[u][i] = "queued"
    /\ \A j \in DOMAIN work[u] : j < i => work[u][j] # "queued"
    /\ Cardinality(InFlight(u)) < Concurrency
    /\ work' = [work EXCEPT ![u][i] = "spawned"]
    /\ UNCHANGED <<storeVars, landed, pc, src, csize, resume, chunks, firstErr>>

AllOver(u) ==
    /\ pc[u] = "sending"
    /\ \A i \in DOMAIN work[u] : work[u][i] = "over"

\* Mutant: the last write goes through AddFileAsync.
Finish_Async(u) ==
    /\ AllOver(u)
    /\ ~ firstErr[u]
    /\ mem' = [chunks |-> chunks[u], incomplete |-> FALSE]
    /\ dirty' = TRUE
    /\ Return(u, "ok")
    /\ UNCHANGED <<disk, landed>>

Finish(u) ==
    /\ AllOver(u)
    /\ ~ firstErr[u]
    /\ SaveOk([chunks |-> chunks[u], incomplete |-> FALSE])
    /\ Return(u, "ok")
    /\ UNCHANGED landed

FinishSaveFails(u) ==
    /\ AllOver(u)
    /\ ~ firstErr[u]
    /\ SaveFails([chunks |-> chunks[u], incomplete |-> FALSE])
    /\ Return(u, "err")
    /\ UNCHANGED landed

\* Mutant: what has been sent is published although a chunk is missing.
FinishFailed_Publishes(u) ==
    /\ AllOver(u)
    /\ firstErr[u]
    /\ mem # NoEntry
    /\ SaveOk([mem EXCEPT !.incomplete = FALSE])
    /\ Return(u, "err")
    /\ UNCHANGED landed

FinishFailed(u) ==
    /\ AllOver(u)
    /\ firstErr[u]
    /\ Return(u, "err")
    /\ UNCHANGED <<storeVars, landed>>

----------------------------------------------------------------------------
(* The worker of chunk i: uploadOne.                                       *)

WorkerMoves(u, i, from, to) ==
    /\ pc[u] = "sending"
    /\ i \in DOMAIN work[u]
    /\ work[u][i] = from
    /\ work' = [work EXCEPT ![u][i] = to]
    /\ UNCHANGED <<storeVars, pc, src, csize, resume>>

\* Mutant: a worker that comes after a failure waits for ever.
CheckErr_Blocks(u, i) ==
    /\ ~ firstErr[u]
    /\ WorkerMoves(u, i, "spawned", "sending")
    /\ UNCHANGED <<landed, chunks, firstErr>>

\* The check of firstErr, and the reading and encrypting that follow it and
\* share nothing.
CheckErr(u, i) ==
    /\ WorkerMoves(u, i, "spawned", IF firstErr[u] THEN "over" ELSE "sending")
    /\ UNCHANGED <<landed, chunks, firstErr>>

\* The chunk could not be read, encrypted or written to its temporary file.
PrepareFails(u, i) ==
    /\ ~ firstErr[u]
    /\ WorkerMoves(u, i, "spawned", "over")
    /\ firstErr' = [firstErr EXCEPT ![u] = TRUE]
    /\ UNCHANGED <<landed, chunks>>

\* UploadLimiter.WaitN(p.size) before the send: the bucket never holds more
\* than Burst, so that a larger chunk waits for ever.
LimiterAdmits(u, i) == PlanChunk(u, i).size <= Burst

\* WaitN, then SendMedia with its retries.
SendOk(u, i) ==
    /\ WorkerMoves(u, i, "sending", "sent")
    /\ LimiterAdmits(u, i)
    /\ landed' = landed \cup {PlanChunk(u, i)}
    /\ UNCHANGED <<chunks, firstErr>>

\* Mutants: sendErr is ignored; sendErr is not reported.
SendFails_Ignored(u, i) ==
    /\ WorkerMoves(u, i, "sending", "sent")
    /\ LimiterAdmits(u, i)
    /\ landed' \in {landed, landed \cup {PlanChunk(u, i)}}
    /\ UNCHANGED <<chunks, firstErr>>

SendFails_Silent(u, i) ==
    /\ WorkerMoves(u, i, "sending", "over")
    /\ LimiterAdmits(u, i)
    /\ landed' \in {landed, landed \cup {PlanChunk(u, i)}}
    /\ UNCHANGED <<chunks, firstErr>>

\* WaitN, then a send that was given up, which may have reached Telegram all
\* the same.
SendFails(u, i) ==
    /\ WorkerMoves(u, i, "sending", "over")
    /\ LimiterAdmits(u, i)
    /\ landed' \in {landed, landed \cup {PlanChunk(u, i)}}
    /\ firstErr' = [firstErr EXCEPT ![u] = TRUE]
    /\ UNCHANGED chunks

\* Under the lock of the call: keep the ChunkFile, and store what is filled of
\* the array without a gap, to be saved later (AddFileAsync).
ProgressEntry(array, k) == [chunks |-> SubSeq(array, 1, k), incomplete |-> TRUE]

Record(u, i) ==
    /\ pc[u] = "sending"
    /\ i \in DOMAIN work[u]
    /\ work[u][i] = "sent"
    /\ work' = [work EXCEPT ![u][i] = "over"]
    /\ chunks' = [chunks EXCEPT ![u][i] = PlanChunk(u, i)]
    /\ \E k \in 0 .. Len(chunks[u]) :
            /\ IsContig(chunks'[u], k)
            /\ mem' = ProgressEntry(chunks'[u], k)
    /\ dirty' = TRUE
    /\ UNCHANGED <<disk, landed, pc, src, csize, resume, firstErr>>

----------------------------------------------------------------------------
(* The rest of the process.                                                *)

\* The saver's tick, or the Save of a graceful shutdown.
Flush ==
    /\ dirty
    /\ SaveOk(mem)
    /\ UNCHANGED <<landed, callVars>>

ShutdownSave ==
    /\ SaveOk(mem)
    /\ UNCHANGED <<landed, callVars>>

\* RemoveFile of the path; its save may fail.
Remove ==
    /\ mem # NoEntry
    /\ SaveOk(NoEntry) \/ SaveFails(NoEntry)
    /\ UNCHANGED <<landed, callVars>>

\* The process ends, by os.Exit or a kill, and a new one loads the file.
Restart ==
    /\ mem' = disk
    /\ dirty' = FALSE
    /\ pc' = [u \in Uploads |-> "idle"]
    /\ resume' = [u \in Uploads |-> <<>>]
    /\ chunks' = [u \in Uploads |-> <<>>]
    /\ work' = [u \in Uploads |-> <<>>]
    /\ firstErr' = [u \in Uploads |-> FALSE]
    /\ UNCHANGED <<disk, landed, src, csize>>

----------------------------------------------------------------------------
Init ==
    /\ mem = NoEntry
    /\ disk = NoEntry
    /\ dirty = FALSE
    /\ landed = {}
    /\ pc = [u \in Uploads |-> "idle"]
    /\ src \in [Uploads -> Sources]
    /\ csize = [u \in Uploads |-> ChunkSizeFor(0)]
    /\ resume = [u \in Uploads |-> <<>>]
    /\ chunks = [u \in Uploads |-> <<>>]
    /\ work = [u \in Uploads |-> <<>>]
    /\ firstErr = [u \in Uploads |-> FALSE]

WorkerStep(u, i) ==
    \/ Spawn(u, i) \/ CheckErr(u, i) \/ PrepareFails(u, i)
    \/ SendOk(u, i) \/ SendFails(u, i) \/ Record(u, i)

CallStep(u) ==
    \/ InitEntry(u) \/ InitEntryFails(u)
    \/ \E i \in DOMAIN work[u] : WorkerStep(u, i)
    \/ Finish(u) \/ FinishSaveFails(u) \/ FinishFailed(u)

Next ==
    \/ \E u \in Uploads :
        \/ \E s \in Sources, asked \in AskedSizes : Start(u, s, asked)
        \/ StartFails(u)
        \/ CallStep(u)
    \/ Flush
    \/ ShutdownSave
    \/ Remove
    \/ Restart

Spec == Init /\ [][Next]_vars

\* Goroutines that can run do run; reading, encrypting and saving return; a send
\* returns (OperationTimeout is 45 s unless it is switched off, and a connection
\* attempt is assumed to return); and a worker gets its share of the limiter
\* when what it asks for fits in the bucket, which WaitReturns of RateLimiter
\* shows for a waiter left alone: with one call the other workers end.  Nothing
\* is assumed of a chunk above Burst, for which no step is possible.
Fairness == \A u \in Uploads : WF_vars(CallStep(u))

FairSpec == Spec /\ Fairness

----------------------------------------------------------------------------
(* Properties.                                                             *)

\* The entries anything can read: the one in memory, and after a new start
\* the one on disk.
Entries == {mem, disk} \ {NoEntry}

Published == {e \in Entries : ~ e.incomplete}

\* The sources of the chunks of an entry.
SourcesOf(entry) == {entry.chunks[i].src : i \in 1 .. Len(entry.chunks)}

\* Chunks that follow one another without gap or overlap and end at the end
\* of s, all of them cut from s.
IsWhole(entry, s) ==
    /\ SourcesOf(entry) = {s}
    /\ Tiles(entry.chunks)
    /\ EndOf(entry.chunks) = SizeOf[s]

\* The type invariant: the shape of the entry, of the calls and of the arrays
\* their workers share.
TypeOK ==
    /\ mem \in Entry \cup {NoEntry}
    /\ disk \in Entry \cup {NoEntry}
    /\ dirty \in BOOLEAN
    /\ landed \in SUBSET Chunk
    /\ pc \in [Uploads -> Calls]
    /\ src \in [Uploads -> Sources]
    /\ csize \in [Uploads -> Nat \ {0}]
    /\ resume \in [Uploads -> Seq(Chunk)]
    /\ chunks \in [Uploads -> Seq(Chunk \cup {NoChunk})]
    /\ work \in [Uploads -> Seq(Steps)]
    /\ firstErr \in [Uploads -> BOOLEAN]

\* Whatever is stored for the path, finished or not, and whoever wrote it, can
\* be read back in order: every chunk starts where the one before it ends
\* (what the running offset of Download relies on, and what the resume check
\* has to guarantee when two chunk sizes or two contents meet).
EntriesTile == \A e \in Entries : Tiles(e.chunks)

\* What is visible has the size of one of the contents, even when it was cut
\* from several: no upload ends early or late on the chunks of another one.
VisibleSize ==
    \A e \in Published : \E s \in Sources : EndOf(e.chunks) = SizeOf[s]

\* What the array of a call holds while it sends: the chunks it resumed from,
\* then nothing but chunks of its own plan, none missing where a worker is done
\* and nothing has failed.
FollowsPlan(u) ==
    /\ Running(u) => Tiles(resume[u])
    /\ pc[u] = "sending" =>
        /\ Len(chunks[u]) = PlanLenOf(u)
        /\ Len(work[u]) = PlanLenOf(u)
        /\ \A i \in 1 .. PlanLenOf(u) :
            /\ i <= From(u) => chunks[u][i] = resume[u][i] /\ work[u][i] = "over"
            /\ i > From(u) => chunks[u][i] \in {NoChunk, PlanChunk(u, i)}
            /\ work[u][i] = "over" /\ ~ firstErr[u] => chunks[u][i] # NoChunk

\* The arrays, from which the entries are copied, are right at every moment,
\* whatever fails and in whatever order the workers finish.
ArrayFollowsPlan == \A u \in Uploads : FollowsPlan(u)

\* The inductive invariant of the proofs: the entries can only be judged by
\* what the arrays they are copied from hold.
IInv == TypeOK /\ EntriesTile /\ VisibleSize /\ ArrayFollowsPlan

\* What is recorded, in memory or on disk, has reached Telegram before: no
\* crash, failed send or lost save leaves an entry naming a missing message.
RecordedHasLanded ==
    \A e \in Entries : \A i \in 1 .. Len(e.chunks) : e.chunks[i] \in landed

\* What is visible is a content from its first byte to its last ("callers never
\* see a partially-uploaded file"), as long as one content is uploaded to the
\* path: what happens with more is NoSplice.
VisibleIsWhole == \A e \in Published : \E s \in Sources : IsWhole(e, s)

\* While a call sends chunks the path shows nothing, now and after a crash
\* (the comment on Upload: marked Incomplete for the entire duration).
HiddenWhileUploading ==
    (\E u \in Uploads : pc[u] = "sending") => Published = {}

\* A call that returned without an error left its result on disk: nothing that
\* was still waiting to be saved takes it back, so a crash cannot lose it.
AckedIsDurable ==
    \A u \in Uploads :
        pc[u] = "ok" /\ mem # NoEntry => disk = mem /\ ~ mem.incomplete

\* A chunk that an earlier attempt recorded is not sent a second time, when
\* that attempt cut the same content at the same places.
NoResend ==
    \A u \in Uploads :
        (/\ pc[u] = "sending"
         /\ Len(resume[u]) <= PlanLenOf(u)
         /\ \A i \in 1 .. Len(resume[u]) : resume[u][i] = PlanChunk(u, i))
        => \A i \in 1 .. Len(resume[u]) : work[u][i] = "over"

\* An upload makes the path visible only with an entry of the size of its own
\* content, also when others upload to the path, remove it, or resume from
\* what another call left there.
PublishedSize ==
    [][\A u \in Uploads :
            pc[u] = "sending" /\ pc'[u] = "ok" =>
                /\ Tiles(mem'.chunks)
                /\ EndOf(mem'.chunks) = Total(u)]_vars

\* Workers finish out of order, yet what is recorded while a call sends chunks
\* never gets shorter (a crash would otherwise lose more than what is in
\* flight).
ProgressNeverShrinks ==
    [][\A u \in Uploads :
            /\ pc[u] = "sending" /\ pc'[u] \in {"sending", "ok"}
            /\ mem # NoEntry /\ mem' # NoEntry
            => Len(mem'.chunks) >= Len(mem.chunks)]_vars

\* None of the chunks that are left to send is above one second's worth of the
\* upload bandwidth limit.
WithinLimit(u) == \A i \in From(u) + 1 .. PlanLenOf(u) : LimiterAdmits(u, i)

\* A call of Upload none of whose chunks exceeds one second's worth of the
\* bandwidth limit returns, whatever its workers run into (a failure stops those
\* still to come, and nobody waits for what will not be sent).  With a larger
\* chunk the call hangs, as WaitReturns of RateLimiter shows.
UploadReturns == \A u \in Uploads : Running(u) /\ WithinLimit(u) ~> ~ Running(u)

\* uploadLoop only splices in the chunks of an interrupted upload when that is
\* safe, "instead of risking a corrupt result" (filesystem.go:595-599): what is
\* visible comes from one content.
NoSplice == \A e \in Published : Cardinality(SourcesOf(e)) = 1

----------------------------------------------------------------------------
\* What a reader takes an entry for: the content it holds as a whole.  A
\* visible entry that is no content as a whole is left as it is, which is not
\* a value Publication knows.
ContentOf(entry) ==
    IF entry = NoEntry THEN NoEntry
    ELSE IF entry.incomplete THEN NoEntry
    ELSE IF \E s \in Sources : IsWhole(entry, s)
         THEN CHOOSE s \in Sources : IsWhole(entry, s)
         ELSE entry

Pub == INSTANCE Publication WITH
    Contents <- Sources,
    Nothing <- NoEntry,
    shown <- ContentOf(mem),
    durable <- ContentOf(disk),
    active <- {src[u] : u \in {v \in Uploads : Running(v)}}

\* Upload does what Publication promises: contents appear and disappear as a
\* whole, appear only while somebody uploads them, and come back after a crash
\* only if they were saved.
ImplementsPublication == Pub!PubSpec
=============================================================================
