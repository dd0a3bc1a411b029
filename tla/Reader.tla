------------------------------- MODULE Reader -------------------------------
(***************************************************************************)
(* Reading stored files through the chunk cache: ReadAt, which the FTP,    *)
(* WebDAV and HTTP servers call for every buffer, and Download, next to    *)
(* uploads, removals and renames of what is read.                          *)
(*                                                                         *)
(* A byte is <<source, position>>.  Keys are strings in the code: "path"   *)
(* for a small file as a whole, here <<path, 0>>, and "path.chunk.j" for a *)
(* chunk, here <<path, j + 1>>.  A path may itself end in ".chunk.j": what *)
(* it is cached under as a whole is then the key of another path's chunk   *)
(* (Alias).                                                                *)
(*                                                                         *)
(* The storage normalises the paths it is given, the cache does not, and a *)
(* read of a path that is not normal finds no entry.  The servers          *)
(* normalise all they pass on (ftp.go:154, webdav.go:93); `rm` of the      *)
(* command line passes on what was typed, as with the slash in front of it *)
(* that src/README.md:131 writes.                                          *)
(*                                                                         *)
(* The workers of one Download ask for different keys, and meet only in    *)
(* the cache, as readers of different paths do: Download takes its chunks  *)
(* one at a time, in any order.                                            *)
(***************************************************************************)
EXTENDS FileCache

CONSTANTS
    Readers,        \* calls that are made at the same time
    Sources, SizeOf,
    ChunkSizes,     \* of uploads
    Names,          \* of files and folders
    Paths,          \* of files, sequences of names
    Args,           \* paths and folders that are removed and renamed
    Slash,          \* the empty name before a slash in front
    Alias,          \* of paths that end in ".chunk.j": the key of that chunk
    Zero,           \* a byte of a buffer that nothing was read into
    RAMBuffer,      \* MaxFullFileRAMBuffer
    Offsets, ReadSizes, \* of calls of ReadAt
    NoEntry, NoOp,
    MaxCrashes,     \* bound of the model: new starts
    MaxFailures     \* bound of the model: failed writes into the cache

VARIABLES
    store,          \* the entries of the paths, in any session
    readers,        \* what each reader is doing
    op,             \* the removal or rename that has done its cache part
    crashes,        \* how often the process has been started anew
    failures        \* how often a write into the cache has failed

vars == <<cacheVars, store, readers, op, crashes, failures>>

Chunk(s, c, i) ==
    [data |-> [b \in 1 .. PlanSize(SizeOf[s], c, i) |-> <<s, PlanOffset(c, i) + b>>],
     size |-> PlanSize(SizeOf[s], c, i)]

Byte == (Sources \X (Nat \ {0})) \cup {Zero}

\* The chunks of a content that was cut into chunks of c bytes.
Chunks(s, c) == [i \in 1 .. PlanLen(SizeOf[s], c) |-> Chunk(s, c, i)]

Bytes(chunks) == FlattenSeq([i \in DOMAIN chunks |-> chunks[i].data])

Visible(p) == store[p] # NoEntry /\ ~ store[p].incomplete

Under(p, arg) == IsPrefix(arg, p)

\* What may be typed for the paths of Args, and normalizePath.
Given == Args \cup {<<Slash>> \o arg : arg \in Args}

Clean(arg) == IF arg # <<>> /\ Head(arg) = Slash THEN Tail(arg) ELSE arg

\* What chunk i of a path is cached under, and with 0 all of it.
Key(p, i) == IF i = 0 /\ p \in DOMAIN Alias THEN Alias[p] ELSE <<p, i>>

\* No path is the key of a chunk of another one.
NoAlias == DOMAIN Alias = {}

ASSUME SourcesAssumption ==
    /\ SizeOf \in [Sources -> Nat \ {0}]
    /\ ChunkSizes \subseteq Nat \ {0}

\* ReadAt returns at once when it is given no buffer.
ASSUME CallsAssumption ==
    RAMBuffer \in Nat /\ Offsets \subseteq Nat /\ ReadSizes \subseteq Nat \ {0}

\* What a rename leads to is a path, and what can be read can be cached.
ASSUME PathsAssumption ==
    /\ Paths \cup Args \subseteq Seq(Names)
    /\ Slash \notin Names
    /\ \A p \in Paths : \A a, b \in Args :
            Len(a) = Len(b) /\ Under(p, a)
            => b \o SubSeq(p, Len(a) + 1, Len(p)) \in Paths

ASSUME KeysAssumption ==
    /\ Keys \subseteq Paths \X Nat
    /\ \A p \in Paths, s \in Sources, c \in ChunkSizes :
            \A i \in 0 .. PlanLen(SizeOf[s], c) : <<p, i>> \in Keys
    /\ \A p \in DOMAIN Alias : Alias[p] \in Keys

Entry == [incomplete : BOOLEAN, chunks : Seq([data : Seq(Byte), size : Nat])]

Op == [kind : {"remove", "rename"},
       step : {"put", "itself", "chunks", "inside", "store"},
       old : Given, new : Given]

ASSUME NoneAssumption ==
    /\ NoSet \notin [key : Keys, data : Seq(Byte)]
    /\ NoEntry \notin Entry
    /\ NoOp \notin Op

\* What the three calls into the cache take away of a path: what has its name,
\* what begins with the name and ".chunk.", and with the name and a slash.
Itself(arg) == {Key(arg, 0)}

\* Mutant: the chunks are forgotten.
ChunksOf_None(arg) == {}

ChunksOf(arg) ==
    {k \in Keys : \/ k[1] = arg /\ k[2] > 0
                  \/ \E p \in DOMAIN Alias : Alias[p][1] = arg /\ Under(k[1], p)}

\* Mutant: only what is cached as a whole.
Inside_Whole(arg) == {k \in Keys : Under(k[1], arg) /\ k[1] # arg /\ k[2] = 0}

Inside(arg) == {k \in Keys : Under(k[1], arg) /\ k[1] # arg}

Closed == [step |-> "closed", result |-> "none", got |-> <<>>]

Set(r, reader) == readers' = [readers EXCEPT ![r] = reader]

InStep(r, step) == readers[r].step = step

----------------------------------------------------------------------------
(* One call: ReadAt or Download.                                           *)

Finished(result, got) == [step |-> "closed", result |-> result, got |-> got]

\* The chunks that readRangeSequential asks for.
Overlapping(chunks, off, len) ==
    LET end == SizesUpTo(chunks)
    IN  {i \in DOMAIN chunks : end[i] > off /\ end[i - 1] < off + len}

\* readRangeSequential(entry, from, length): of the whole file when it is small
\* and at least half of it is asked for, else of the range itself.
StartRange(rd, mode) ==
    LET whole == mode = "whole"
        from == IF whole THEN 0 ELSE rd.off
        length == IF whole THEN TotalSize(rd.chunks) ELSE rd.len
    IN  [rd EXCEPT !.step = "look", !.mode = mode, !.from = from,
                   !.length = length, !.got = <<>>,
                   !.left = Overlapping(rd.chunks, from, length)]

WholeOrRange(rd) ==
    LET total == TotalSize(rd.chunks)
    IN  StartRange(rd, IF total <= RAMBuffer /\ rd.len >= total \div 2
                       THEN "whole" ELSE "range")

\* ReadAt of n bytes, DownloadRange up to the look for the whole file.  Whether
\* the entry is complete is not asked again: a handle may be older than it.
ReadAt(r, p, off, n) ==
    LET chunks == store[p].chunks
        total == TotalSize(chunks)
        len == IF off + n > total THEN total - off ELSE n
        rd == [step |-> "blob", mode |-> "range", path |-> p, off |-> off, len |-> len,
               chunks |-> chunks, from |-> off, length |-> len,
               left |-> {}, idx |-> 0, got |-> <<>>]
    IN  /\ InStep(r, "closed")
        /\ ~ Locked
        /\ Set(r, IF store[p] = NoEntry THEN Finished("err", <<>>)
                  ELSE IF off >= total THEN Finished("eof", <<>>)
                  ELSE IF total <= RAMBuffer /\ Has(Key(p, 0)) THEN rd
                  ELSE WholeOrRange(rd))
        /\ UNCHANGED <<cacheVars, store, op, crashes, failures>>

\* Get of the whole file, whose index entry was found.
ReadBlob(r) ==
    LET rd == readers[r]
    IN  /\ InStep(r, "blob")
        /\ \/ \E data \in ReadFile(Key(rd.path, 0)) :
                /\ Len(data) >= rd.off + rd.len
                /\ Set(r, Finished("ok", SubSeq(data, rd.off + 1, rd.off + rd.len)))
           \/ /\ \/ ReadFile(Key(rd.path, 0)) = {}
                 \/ \E data \in ReadFile(Key(rd.path, 0)) : Len(data) < rd.off + rd.len
              /\ Set(r, WholeOrRange(rd))
        /\ UNCHANGED <<cacheVars, store, op, crashes, failures>>

\* Download(p) up to the start of its workers, or to standard output ("stream"),
\* one chunk after the other.
Download(r, p, mode) ==
    /\ InStep(r, "closed")
    /\ Visible(p)
    /\ LET chunks == store[p].chunks
           total == TotalSize(chunks)
       IN  Set(r, [step |-> "look", mode |-> mode, path |-> p,
                   off |-> 0, len |-> total,
                   chunks |-> chunks, from |-> 0, length |-> total,
                   left |-> DOMAIN chunks, idx |-> 0, got |-> << >>])
    /\ UNCHANGED <<cacheVars, store, op, crashes, failures>>

----------------------------------------------------------------------------
(* One chunk: fetchAndDecryptChunkCached.                                  *)

KeyOf(r) == Key(readers[r].path, readers[r].idx)

\* Has, and the look at the index that Get begins with.
Look(r) ==
    LET rd == readers[r]
    IN  /\ InStep(r, "look")
        /\ ~ Locked
        /\ \E i \in rd.left :
            /\ rd.mode = "download" \/ \A j \in rd.left : i <= j
            /\ Set(r, [rd EXCEPT !.idx = i,
                        !.step = IF Has(Key(rd.path, i)) THEN "hit" ELSE "miss"])
        /\ UNCHANGED <<cacheVars, store, op, crashes, failures>>

\* outFile.WriteAt(data, at).
WriteAt(out, at, data) ==
    [b \in DOMAIN out \cup (at + 1 .. at + Len(data)) |->
        IF b \in at + 1 .. at + Len(data) THEN data[b - at] ELSE out[b]]

\* data[relStart:relEnd] of a chunk that starts at chStart, bytesRead bytes
\* into the range.
RelStart(rd, chStart) ==
    LET start == rd.from + Len(rd.got)
    IN  (IF start < chStart THEN chStart ELSE start) - chStart

RelEnd(rd, chStart, chEnd) ==
    LET end == rd.from + rd.length
    IN  (IF end > chEnd THEN chEnd ELSE end) - chStart

\* What a reader does with the chunk it has got: Download writes all of it at
\* its offset or after what it has written, a range read appends the part it
\* needs, and panics if the buffer ends before it.
Take(rd, data) ==
    LET end == SizesUpTo(rd.chunks)
        relStart == RelStart(rd, end[rd.idx - 1])
        relEnd == RelEnd(rd, end[rd.idx - 1], end[rd.idx])
        got == IF rd.mode = "download"
               THEN WriteAt(rd.got, end[rd.idx - 1], data)
               ELSE IF rd.mode = "stream" THEN rd.got \o data
               ELSE rd.got \o SubSeq(data, relStart + 1, relEnd)
        left == rd.left \ {rd.idx}
    IN  IF rd.mode \in {"whole", "range"} /\ relEnd > Len(data)
        THEN Finished("panic", <<>>)
        ELSE IF left # {} THEN [rd EXCEPT !.step = "look", !.left = left, !.got = got]
        ELSE IF rd.mode = "whole" THEN [rd EXCEPT !.step = "keep", !.left = {}, !.got = got]
        ELSE Finished("ok", got)

\* A slice may reach into what a buffer has room for: os.ReadFile asks for more
\* than the file has, and a chunk that is cut short is filled up with zeros.
Spare(rd, data) ==
    LET end == SizesUpTo(rd.chunks)
        relEnd == RelEnd(rd, end[rd.idx - 1], end[rd.idx])
    IN  IF rd.mode \in {"whole", "range"} /\ relEnd > Len(data)
        THEN data \o [b \in 1 .. relEnd - Len(data) |-> Zero]
        ELSE data

ReadChunk(r) ==
    /\ InStep(r, "hit")
    /\ \/ \E data \in ReadFile(KeyOf(r)) \ {<<>>} :
            \/ Set(r, Take(readers[r], data))
            \/ Set(r, Take(readers[r], Spare(readers[r], data)))
       \/ /\ ReadFile(KeyOf(r)) = {} \/ <<>> \in ReadFile(KeyOf(r))
          /\ Set(r, [readers[r] EXCEPT !.step = "miss"])
    /\ UNCHANGED <<cacheVars, store, op, crashes, failures>>

\* fetchAndDecryptChunk, whose result has been compared with its hash, and the
\* beginning of cache.Set.
Fetch(r) ==
    LET rd == readers[r]
    IN  /\ InStep(r, "miss")
        /\ SetBegin(KeyOf(r), rd.chunks[rd.idx].data)
        /\ Set(r, [rd EXCEPT !.step = "put"])
        /\ UNCHANGED <<store, op, crashes, failures>>

\* A whole read that fails is tried again as a range.
FetchFails(r) ==
    LET rd == readers[r]
    IN  /\ InStep(r, "miss")
        /\ Set(r, IF rd.mode = "whole" THEN StartRange(rd, "range")
                  ELSE Finished("err", <<>>))
        /\ UNCHANGED <<cacheVars, store, op, crashes, failures>>

\* cache.Set(remotePath, fullData).
KeepWhole(r) ==
    /\ InStep(r, "keep")
    /\ SetBegin(Key(readers[r].path, 0), readers[r].got)
    /\ Set(r, [readers[r] EXCEPT !.step = "put", !.idx = 0])
    /\ UNCHANGED <<store, op, crashes, failures>>

EndOfSet ==
    \/ SetEnd /\ UNCHANGED failures
    \/ failures < MaxFailures /\ SetFails /\ failures' = failures + 1

Put(r) ==
    LET rd == readers[r]
    IN  /\ InStep(r, "put")
        /\ EndOfSet
        /\ Set(r, IF rd.idx = 0
                  THEN Finished("ok", SubSeq(rd.got, rd.off + 1, rd.off + rd.len))
                  ELSE Take(rd, setting.data))
        /\ UNCHANGED <<store, op, crashes>>

ReaderStep(r) ==
    \/ ReadBlob(r) \/ Look(r) \/ ReadChunk(r) \/ Fetch(r) \/ FetchFails(r)
    \/ KeepWhole(r) \/ Put(r)

----------------------------------------------------------------------------
(* The rest of the program, as far as it matters to a reader.              *)

\* AddFile of an upload that has sent n chunks: none of it clears the cache.
Progress(p, s, c, n) ==
    /\ store' = [store EXCEPT ![p] = [incomplete |-> TRUE,
                                      chunks |-> SubSeq(Chunks(s, c), 1, n)]]
    /\ UNCHANGED <<cacheVars, readers, op, crashes, failures>>

Publish(p, s, c) ==
    /\ store' = [store EXCEPT ![p] = [incomplete |-> FALSE, chunks |-> Chunks(s, c)]]
    /\ UNCHANGED <<cacheVars, readers, op, crashes, failures>>

\* Mutant: the entries go first, the cache after them.
RemoveBegin_StoreFirst(arg) ==
    /\ op = NoOp
    /\ op' = [kind |-> "rename", step |-> "itself", old |-> arg, new |-> arg]
    /\ store' = [p \in Paths |-> IF Under(p, arg) THEN NoEntry ELSE store[p]]
    /\ UNCHANGED <<cacheVars, readers, crashes, failures>>

\* Delete and Rename clear the cache in three calls, each with the lock of its
\* own, and change the entries after that.
RemoveBegin(arg) ==
    /\ op = NoOp
    /\ op' = [kind |-> "remove", step |-> "itself", old |-> arg, new |-> arg]
    /\ UNCHANGED <<cacheVars, store, readers, crashes, failures>>

\* Rename: if the old path is cached as a whole, that goes to the new path.
RenameBegin(from, to) ==
    LET step(name) == [kind |-> "rename", step |-> name, old |-> from, new |-> to]
        key == Key(from, 0)
    IN  /\ op = NoOp
        /\ \/ /\ key \in KeysOf(index) \ old
              /\ \E data \in ReadFile(key) : SetBegin(Key(to, 0), data)
              /\ op' = step("put")
           \/ /\ key \notin KeysOf(index) \ old \/ ReadFile(key) = {}
              /\ op' = step("itself")
              /\ UNCHANGED cacheVars
        /\ UNCHANGED <<store, readers, crashes, failures>>

RenamePut ==
    /\ op # NoOp /\ op.step = "put"
    /\ EndOfSet
    /\ op' = [op EXCEPT !.step = "itself"]
    /\ UNCHANGED <<store, readers, crashes>>

\* The paths are those the caller has given, normal or not.
Clear(step, next, K) ==
    /\ op # NoOp /\ op.step = step
    /\ DeleteKeys(K)
    /\ op' = [op EXCEPT !.step = next]
    /\ UNCHANGED <<store, readers, crashes, failures>>

ClearItself == Clear("itself", "chunks", Itself(op.old))

ClearChunks == Clear("chunks", "inside", ChunksOf(op.old))

ClearInside == Clear("inside", "store", Inside(op.old))

\* Storage.RemoveFile, which normalises the path.
RemoveEnd ==
    /\ op # NoOp /\ op.kind = "remove" /\ op.step = "store"
    /\ store' = [p \in Paths |-> IF Under(p, Clean(op.old)) THEN NoEntry ELSE store[p]]
    /\ op' = NoOp
    /\ UNCHANGED <<cacheVars, readers, crashes, failures>>

\* The path that p becomes, and the entry that the new path takes over.
Moved(p) == op.new \o SubSeq(p, Len(op.old) + 1, Len(p))

\* Storage.RenameFile.  The callers of Rename have normalised both paths.
RenameEnd ==
    /\ op # NoOp /\ op.kind = "rename" /\ op.step = "store"
    /\ store' = [q \in Paths |->
                    IF \E p \in Paths : Under(p, op.old) /\ Moved(p) = q
                    THEN store[CHOOSE p \in Paths : Under(p, op.old) /\ Moved(p) = q]
                    ELSE IF Under(q, op.old) THEN NoEntry
                    ELSE store[q]]
    /\ op' = NoOp
    /\ UNCHANGED <<cacheVars, readers, crashes, failures>>

CacheTick ==
    /\ Expire \/ Cleanup
    /\ UNCHANGED <<store, readers, op, crashes, failures>>

\* The process dies; the entries are those of storage.json, which is a matter of
\* module Upload: here nothing of them is lost.
Crash ==
    /\ crashes < MaxCrashes
    /\ crashes' = crashes + 1
    /\ CrashAndLoad
    /\ readers' = [r \in Readers |-> Closed]
    /\ op' = NoOp
    /\ UNCHANGED <<store, failures>>

----------------------------------------------------------------------------
Init ==
    /\ CacheInit
    /\ store = [p \in Paths |-> NoEntry]
    /\ readers = [r \in Readers |-> Closed]
    /\ op = NoOp
    /\ crashes = 0
    /\ failures = 0

InUse == {r \in Readers : ~ InStep(r, "closed")}

InOp == IF op = NoOp THEN {} ELSE {op.old, op.new}

\* Nobody reads, removes or renames anything in arg.
Free(arg) ==
    /\ \A r \in InUse : ~ Under(readers[r].path, arg)
    /\ \A a \in InOp : ~ Under(a, arg) /\ ~ Under(arg, a)

Empty(arg) == \A p \in Paths : Under(p, arg) => store[p] = NoEntry

Call(r, p) ==
    \/ \E off \in Offsets, n \in ReadSizes : ReadAt(r, p, off, n)
    \/ \E mode \in {"download", "stream"} : Download(r, p, mode)

Always ==
    \/ \E r \in Readers : ReaderStep(r)
    \/ RenamePut \/ ClearItself \/ ClearChunks \/ ClearInside
    \/ RemoveEnd \/ RenameEnd
    \/ CacheTick \/ Crash

\* Clients that keep out of each other's way on each path, as a file manager
\* does: a file is read by one reader, and removed or renamed when nobody reads
\* it; an upload or a rename goes to a free place.  Their server normalises the
\* paths.
Next ==
    \/ Always
    \/ \E r \in Readers, p \in Paths : Free(p) /\ Call(r, p)
    \/ \E p \in Paths, s \in Sources, c \in ChunkSizes :
            Free(p) /\ Empty(p) /\ Publish(p, s, c)
    \/ \E arg \in Args : Free(arg) /\ ~ Empty(arg) /\ RemoveBegin(arg)
    \/ \E a, b \in Args :
            /\ Len(a) = Len(b)
            /\ Free(a) /\ ~ Empty(a) /\ Free(b) /\ Empty(b)
            /\ RenameBegin(a, b)

Spec == Init /\ [][Next]_vars

\* Everybody as they like, and with the paths they like to type.
WildNext ==
    \/ Always
    \/ \E r \in Readers, p \in Paths : Call(r, p)
    \/ \E p \in Paths, s \in Sources, c \in ChunkSizes :
            \/ Publish(p, s, c)
            \/ \E n \in 1 .. PlanLen(SizeOf[s], c) : Progress(p, s, c, n)
    \/ \E arg \in Given : RemoveBegin(arg)
    \/ \E a, b \in Args : Len(a) = Len(b) /\ RenameBegin(a, b)

WildSpec == Init /\ [][WildNext]_vars

----------------------------------------------------------------------------
\* Every cached key belongs to a path, readers hold the lock that their step
\* says they hold, and chunks of a range are asked for while bytes are missing.
TypeOK ==
    /\ CacheTypeOK
    /\ \A p \in Paths : store[p] # NoEntry => Len(store[p].chunks) > 0
    /\ \A r \in Readers :
        /\ readers[r].step \in {"closed", "blob", "look", "hit", "miss", "keep", "put"}
        /\ InStep(r, "look") => readers[r].left # {}
    /\ Locked <=> \/ \E r \in Readers : InStep(r, "put")
                  \/ op # NoOp /\ op.step = "put"

Returns(r) ==
    /\ ~ InStep(r, "closed")
    /\ readers'[r].step = "closed"

\* Files are "split into encrypted chunks [...] then reassembled on download"
\* (src/README.md:5-7): a read or a download that succeeds has returned the bytes
\* of the entry it looked up, in their order, whatever is cached and evicted
\* meanwhile, and whatever was at the path before it was removed or renamed; and
\* none runs off the end of a chunk.  Up to the first new start of the process:
\* what a death has cut short is read as it is.  It is true of the clients of Next,
\* as long as there is no Alias, and not of those of WildNext.
ReadIsRight ==
    [][\A r \in Readers : crashes' = 0 /\ Returns(r) =>
        /\ readers'[r].result = "ok" =>
            readers'[r].got = SubSeq(Bytes(readers[r].chunks), readers[r].off + 1,
                                     readers[r].off + readers[r].len)
        /\ readers'[r].result # "panic"]_vars

\* Up to the first new start, a path that can be seen has nothing in the cache
\* but its own chunks, and its own bytes as a whole: what removals and renames
\* should have cleared and moved is not there any more when the next upload has
\* put something else in place.  Like GoneIsUncached of the clients of Next.
CacheIsRight ==
    \A k \in KeysOf(index) \cap DOMAIN files :
        LET p == k[1]
            chunks == store[p].chunks
        IN  crashes = 0 /\ Visible(p) /\ Free(p) =>
                files[k] = IF k[2] = 0 THEN Bytes(chunks) ELSE chunks[k[2]].data

\* If every write into the cache succeeds, a death of the process can leave a
\* chunk that is cut short, and an index that names it, but none of another
\* content, although index.json is not saved when something is evicted.
TornAtWorst ==
    \A k \in KeysOf(index) \cap DOMAIN files :
        failures = 0 /\ k[2] > 0 /\ Visible(k[1]) /\ Free(k[1]) =>
            /\ k[2] \in DOMAIN store[k[1]].chunks
            /\ IsPrefix(files[k], store[k[1]].chunks[k[2]].data)

\* Delete "clears any cached data under it, so cache disk space is freed
\* immediately" (filesystem.go:1136-1137): when it returns, the index names
\* nothing at or under what it was asked to remove, whatever has gone on
\* elsewhere in the cache between its three steps.  It is true of the clients of
\* Next: a path with a slash in front of it clears nothing, and who reads the
\* file between these steps and RemoveEnd caches it again.
GoneIsUncached ==
    [][op # NoOp /\ op.kind = "remove" /\ op' = NoOp /\ crashes' = crashes
        => \A k \in KeysOf(index') : ~ Under(k[1], Clean(op.old))]_vars
=============================================================================
