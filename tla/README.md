# A TLA+ model of stashcli

stashcli keeps files as encrypted chunks in Telegram chats and a virtual
directory tree of them in one JSON file. These modules model the parts of the
program where steps of several actors, failures and restarts meet, check them
with TLC on small instances, and prove the properties that matter most with
TLAPS for every value of the constants. Everything is translated from the Go
source; paths below are relative to `src/`.

## 1. Inventory

| Component | Source | State | Operations | What makes it correct |
|---|---|---|---|---|
| Upload | `stashgram/filesystem.go` 486-760 | per call: plan, `chunks` array, `firstErr`, `sem`; shared: the entry of the path | `Upload`, `uploadLoop`, `uploadOne` | a path shows nothing or a whole file; a resume neither repeats nor damages; a reported success is durable |
| Chunk planning | `filesystem.go` 410-435, 558-575, 600-613 | none | `planChunks`, clamps, the resume check | the plan tiles the file; a resume is cut at a boundary of the plan |
| Storage, saving | `stashgram/storage.go` 78-185 | `Files`, `dirty`, `lastLoad`, `storage.json`, its temporary file | `Load`, `LoadIfChanged`, `Save`, background saver | nothing acknowledged is lost; the file on disk is one that memory once was |
| Storage, tree | `storage.go` 191-437 | map from paths to entries | `Mkdir`, `AddFile`, `RemoveFile`, `RenameFile`, `ShowList`, `CountChildren` | the map is a tree; renames and removals take a subtree along; listings and counts agree |
| RateLimiter | `stashgram/ratelimit.go` | `tokens`, `last` | `WaitN` | no more than the budget, nobody sleeps too long, everybody is served |
| Connection | `filesystem.go` 176-294, 371-408, `stashgram/retry.go` | `client`, `keepAliveGen`, one goroutine per prober and per stuck call | `getClient`, `reconnect`, `Close`, `withClientRetry`, `runWithTimeout`, the prober | one connection; operations end; probers watch their own client |
| Reading | `filesystem.go` 766-1056, 1172-1247 | open handles with a size | `Download`, `DownloadRange`, `ReadAt`, `Size` | the bytes of the entry that is read, in order |
| FileCache | `stashgram/cache.go` | index and files in `.stashcli_cache` | `Has`, `Get`, `Set`, `Delete`, `DeletePrefix`, eviction, expiry, `cleanupLoop`, `loadIndex` | what is cached under a key is what the key stands for; the budget is kept |
| FTP | `stashgram/ftp.go` | transfer handles, temp files | handles, `ReadDir`, `RMD`, `RNFR/RNTO` | an aborted transfer publishes nothing; RMD only removes empty folders |
| WebDAV | `stashgram/webdav.go` | `davFile`, temp files | `OpenFile`, `Write`, `Close`, `Readdir` | as FTP |
| HTTP streaming | `stashgram/http_stream.go` | a position | `Read`, `Seek` | positions stay inside the file |
| Encryption | `stashgram/encryption.go` | none | `EncryptBytes`, `DecryptBytes` | decrypting gives back the chunk |
| Settings, proxy detection, utilities, command line | `configs.go`, `proxy_*.go`, `utils.go`, `cli.go`, `main.go` | settings, flags | parsing, start and end of the process | the process does not end before what it promised is on disk |

How they interact. The command line and the three servers call `FileSystem`.
`Upload` reads and writes the entry of its path through `Storage`, one locked
call at a time; between the calls other uploads, removals and the background
saver run. Each chunk worker waits in `RateLimiter.WaitN` and then sends through
`withClientRetry`, which shares one Telegram client with every other operation
and with the keep-alive prober. A reader takes the entry from `Storage` and its
chunks from `FileCache` or Telegram. `PROJECT.json` lists the hazards line by
line, with the properties that cover them.

## 2. Modules

| Module | Role |
|---|---|
| `ChunkPlan` | operators: clamps, the plan, sums of sizes, the resume check |
| `Upload` | calls of `Upload` on one path, workers, storage, restarts |
| `Publication` | abstract: a path shows nothing or one content as a whole; `ImplementsPublication` in `Upload` is the refinement |
| `MCUpload` | instances |
| `TokenBucket` | abstract: a bucket filled by the clock |
| `RateLimiter` | `WaitN`; `ImplementsBucket` is the refinement |
| `Connection`, `MCConnection` | client, retries, deadlines, probers |
| `Namespace`, `MCNamespace` | the tree in a flat map |
| `FileCache` | the chunk cache on disk, as actions that `Reader` composes |
| `Reader`, `MCReader` | `ReadAt` and `Download` over the cache, next to uploads, removals and renames |
| `StoreSync`, `MCStoreSync` | several processes on one `storage.json` |
| `Frontends`, `MCFrontends` | FTP and WebDAV clients in one folder |
| `ChunkPlan_proofs`, `Upload_proofs`, `RateLimiter_proofs`, `Connection_proofs`, `Namespace_proofs`, `Reader_proofs`, `StoreSync_proofs`, `Frontends_proofs` | theorems |

`Upload` and `FileCache` extend `ChunkPlan`; `Reader` extends `FileCache`. The
modules are not put together into one: `Upload` looks at one path from the inside
of a call, `StoreSync` at the file its saves write, `Reader` and `Frontends` see an
upload as what it stores, and each says so where it abstracts the others.

Operators whose comment starts with "Mutant" are what a plausible mistake would
make of the operator that follows them. They are used by no specification; put
in its place they make the property they were written for fail, which shows that
the property depends on the code.

### Upload

`mem` is the entry of the path in `Storage.Files`, `disk` the same in
`storage.json`, `dirty` the flag of the background saver, `landed` the messages
that exist on Telegram. Per call `u`: `resume` is what `GetEntry` returned,
`chunks` the array its workers fill, `work` where each worker is, `firstErr`
whether one has failed.

| Action | Code |
|---|---|
| `Start`, `StartFails` | `Upload` up to the call of `uploadLoop` (`GetEntry` happens here) |
| `InitEntry`, `InitEntryFails` | `uploadLoop` to the first `AddFile`, whose save may fail |
| `Spawn` | one turn of the loop that takes a place in `sem` and starts a worker |
| `CheckErr`, `PrepareFails` | `uploadOne`: the look at `firstErr`; reading, encrypting and the temporary file, and their failure |
| `SendOk`, `SendFails`, `LimiterAdmits` | `UploadLimiter.WaitN`, which never lets a chunk of more than `Burst` bytes through, then `SendMedia` with its retries, and its failure |
| `Record` | the locked region with `AddFileAsync` |
| `Finish`, `FinishSaveFails`, `FinishFailed` | after `wg.Wait()` |
| `Flush`, `ShutdownSave` | the saver's tick; `Save` when a server is shut down |
| `Remove` | `RemoveFile` of the path |
| `Restart` | the process dies at any point and the next one loads `storage.json` |

Every locked region is one action. A chunk carries the content and the offset
it was cut from, which the code does not store: they stand for its bytes. The
number of contents, calls and sizes is a parameter. Not modelled here: file
hashes and dates, reading the local file while somebody changes it, more than
one process on one storage file (that is `StoreSync`), and several sessions.

### RateLimiter

Time is counted in ticks, tokens are integers. `since` is the time since
`r.last`, capped at a second because the bucket is full by then. `Granted` and
`Deferred` are the two ways through the locked region, `Wake` the end of a
sleep, which may be late. The nil limiter returns at once and is left out.

### Connection

Clients are numbered in the order they are made. `connected` is the set of those
not disconnected, `client` is `fs.client`, `prober[k]` the goroutine that
`startKeepAliveLocked` starts for client `k`, with the generation it remembers.
A worker is one operation inside `withClientRetry`; `stuck` are the calls that
`runWithTimeout` gave up and whose goroutines still run, and `msg` says whether
the variable that all attempts of an operation assign is not nil. What is behind
a client is external: a call returns, fails or hangs.

### Namespace

`entries` is `sess.Files`; a path is the sequence of its names. `RenameFile`
applies its moves in every order, as the loop over a Go map may. `uploading` are
the paths that a call of `Upload` is in progress for: it looks at nothing after
`BeginUpload` and writes its entry (`UploadWrites`, `UploadEnds`) at any later
moment, over whatever is there by then. The operations accept what the code
accepts. Clients are file managers: they put nothing below a file, no file over a
folder, and rename nothing onto itself, into itself or onto a folder, as far as
the listings show it (`SeesFile`). `Next` adds what no listing can tell them and
only a user can know who made all the uploads:
nothing is created or renamed to a place above, at or below an upload that is on
its way, nor below the entry that a failed one has left (`FreeAbove`,
`FreeInside`). The key "" that an upload to "/" makes and the keys with a leading
"/" that `normalizePath("//x")` leaves are left out.

### FileCache and Reader

`index` is `fc.index` in the order of `CreatedAt`, `old` the keys past their
`ExpiresAt`, `files` what is on disk, `saved` is `index.json`, and `setting` the
`Set` that holds the lock. The lock covers the index and the whole of `Set`, while
`Get` reads the file without it: a `Set` is therefore two actions, `SetBegin` (up to
the moment `os.WriteFile` has emptied the file) and `SetEnd` or `SetFails`, and
`ReadFile` returns any prefix of what is being written to that key.

| Action of `Reader` | Code |
|---|---|
| `ReadAt`, `ReadBlob` | `DownloadRange`: the clamps, the look for the cached whole file, `Get` |
| `WholeOrRange`, `StartRange` | the choice between reading the whole file and the range |
| `Download` | `Download` to a file ("download") or to standard output ("stream") |
| `Look`, `ReadChunk`, `Fetch`, `FetchFails`, `Put` | `fetchAndDecryptChunkCached`: `Has`, `Get`, the fetch, `Set` |
| `Take` | what the caller does with a chunk: `WriteAt`, or the slice of `readRangeSequential` |
| `KeepWhole` | `cache.Set(remotePath, fullData)` |
| `Spare` | what a slice past the end of a cut chunk finds in the capacity of the buffer |
| `RemoveBegin`, `RemoveEnd` | `Delete`, with the path as it was given, and `Storage.RemoveFile`, with the normal one (`Clean`) |
| `ClearItself`, `ClearChunks`, `ClearInside` | the three calls into the cache in between, of `Delete` and of `Rename`, each with the lock of its own |
| `RenameBegin`, `RenamePut`, `RenameEnd` | `Rename`: the blob is set under the new path before the keys go, and the entries move after it |
| `Progress`, `Publish` | what `Upload` stores |
| `CacheTick`, `Crash` | expiry and `cleanupLoop`; the process dies and `loadIndex` runs in the next one |

A byte is a content and a position, or a zero that nothing was read into. A slice
that reaches past the end of a chunk is the result "panic", unless the buffer has
room there. `Key` is what a path is cached under: keys are strings, and a path that
ends in ".chunk.j" has, as a whole, the key of another path's chunk (`Alias`; there
are none in the runs).

The clients of `Next` keep out of each other's way on each path: it is read by one
reader at a time, removed and renamed while nobody reads it, and written when
nothing is there; their server normalises the paths. In `WildNext` everybody does
as they like, and `rm` is given paths with a slash in front. Chunks in a download
are taken one at a time in any order: its workers use different keys and meet only
in the lock of the cache. `verifyFileHash` only prints, whatever it finds, and is
left out; so are `Clear` and `UploadStream`, which nothing calls.

### StoreSync

Each process has its `Storage`: `mem`, `lastLoad`, `dirty`, and the save that is
under way with the change it was made for (`pending`). A file is the set of changes
it holds and an mtime. `Load` is two actions, since it reads the file before it asks
for its time, and so is `LoadIfChanged` (`Stat` without the lock, then `UpToDate` or
`Reload`). `saveLocked` is `BeginWrite` (inside `Change` or `Flush`), `EndWrite`,
`Rename`, `SaveDone`, or `WriteFails`; the temporary file has one name for all
processes. `readAt` and `late` are not in the code: they say which file was read
and whether another one was in its place when its time was taken. `Next` has at
most one process at a time that changes anything, `TurnsNext` lets processes change
things in turns.

### Frontends

A request of a client is open from its first call to the library until the answer:
`Open`, `Write`, `Cut`, and `CloseDiscards` or `CloseUploads` are
`newFTPUploadHandle`/`newDavWriteFile` and the methods of the handle, `Progress`,
`Uploaded` and `UploadFails` the upload inside `Close`, `RemoveDir` and `DeleteDir`
the two steps of RMD, `List`, `LookUp` and `Listed` those of a listing. `Cut` is
the connection that drops: FTP's library calls `TransferError` before `Close`,
WebDAV's only calls `Close`. What a RETR or GET reads is a sequence of `ReadAt`
calls, which is `Reader`; MKD, MKCOL, RNFR/RNTO and MOVE are operations of
`Namespace`.

## 3. Runs

| Run | Instance | Shows |
|---|---|---|
| `one` | one call at a time, one content of 5 bytes, chunk sizes 2, 3 and 4, two workers at a time, a bandwidth limit of 3 | `VisibleIsWhole`, `HiddenWhileUploading`, `AckedIsDurable`, `NoResend`, `RecordedHasLanded`, `ProgressNeverShrinks`, `ImplementsPublication`, and every call whose chunks fit into one second's worth returns (`UploadReturns`) |
| `two` | two calls, contents of 3 and 2 bytes, chunk sizes 2 and 3 | `EntriesTile`, `VisibleSize`, `ArrayFollowsPlan`, `PublishedSize`, `TypeOK` |
| `bucket` | two callers, a bucket of 8, requests 1, 3, 5, 8 | `ImplementsBucket`, `NeverOversleeps`, `WaitReturns` |
| `connection` | two operations of two attempts, two clients, one `Close` | `OneConnection`, `WatchedByItsProber`, `StuckBounded`, `OperationEnds`, `SupersededProberEnds` |
| `tree` | two names, three levels, up to five entries, two uploads on their way | `TreeOK`, `CountIsWalk`, `RenameMoves`, for the users of `Next` |
| `read` | two readers, two paths in two folders, contents of 3 and 2 bytes in chunks of 2, a cache of 3 bytes, a RAM buffer of 2, one crash, one failed write | `ReadIsRight` and `CacheIsRight` up to the crash, `TornAtWorst`, `Budget`, `GoneIsUncached`, for the clients of `Next` |
| `sync` | two processes, three changes, four writes, any number of starts and deaths | `DiskIsWhole`, `AckedSurvives`, `UpToDateIsCurrent`, for one writer at a time |
| `front` | two clients, two names, files of two bytes | `StorIsWhole`, `NoPartialSize`, and no temporary file is left (`TypeOK`) |

Runs that end in a counterexample, because the code does something else than a
comment or a document says:

| Run | Property | What happens |
|---|---|---|
| `splice` | `NoSplice` | the resume check compares sizes only: chunks of another content are spliced in when their sizes fit (`filesystem.go` 600-608 against the comment at 595-599) |
| `bucket_large` | `WaitReturns` | a request larger than one second's worth is never granted (`ratelimit.go` 54-58 against 42); chunks are 450 MB unless set otherwise |
| `stale_read` | `ReadIsRight` | the cache key is path and index only and `Upload` clears nothing: after a second upload to the path, `Download` and `ReadAt` return chunks of the first content (`filesystem.go` 872) |
| `turns` | `AckedSurvives` | `Mkdir`, `Delete` and `Rename` save without `LoadIfChanged`: the second of two processes that change something in turns saves its old memory over the first one's change (`filesystem.go` 1147 against `storage.go` 110-115) |

Behaviours met while modelling that no run is about:

- `os.Exit(1)` follows "Progress was saved" at once (`cli.go` 79-80), before the
  saver's next tick: `ImplementsPublication` therefore allows what is only recorded
  to be lost with the process.
- The progress of a second upload of a path hides the file that the first one has
  finished (`filesystem.go` 738, `storage.go` 258): `HiddenWhileUploading` and
  `AckedIsDurable` are properties of one call at a time.
- A `SendMedia` that was given up and returns after a later attempt has succeeded
  assigns the `msg` that `uploadOne` is about to read (`filesystem.go` 699, 719).
- A probe that fails late disconnects the client that has replaced its own
  (`filesystem.go` 258); `OperationEnds` holds all the same.
- A path renamed to itself is gone (`storage.go` 357).
- A synchronous save that fails leaves its change in memory: the operation has
  reported an error and takes effect, until the process ends (`storage.go` 142).
- A removal next to an upload of the same path is undone by the next record of its
  progress (`storage.go` 268).
- Two readers of one path may get a torn chunk: `Set` rewrites a file that `Get`
  reads without the lock, and a cached chunk is not compared with its hash. A part
  of a chunk may come back filled up with zeros, since `data[relStart:relEnd]` is
  bounded by the room `os.ReadFile` has made and not by what it has read.
- A chunk larger than the cache is stored all the same, and files that no index
  names after a crash are not counted: `Budget` allows both.
- A crash between the cache part and the storage part of `Rename`, or a cache write
  that fails before a crash, leaves what the old content was under a key that is
  used again. `TornAtWorst` says what is true without failed writes.
- A PUT whose connection drops publishes what has arrived; RMD deletes what was
  stored between its look and its removal, and files that are Incomplete.
- `Delete` clears the cache under the path as it was typed and removes the entry
  under the normal one: after `rm /movies/movie.mkv`, which `README.md` 131 gives as
  an example, all chunks are still there, against `filesystem.go` 1136, and the
  next file at that path is read from them. `GoneIsUncached` and the theorems about
  `Reader` are about normal paths. `lookupFile` does not normalise its path at all:
  a download of `/movies/x` finds nothing.
- What is read while a removal or rename of the same path is between the cache and
  the entries (`filesystem.go` 1146) is cached again and stays for the next file.
- Keys of the cache are strings: a small file `x.chunk.0`, as a whole, has the key
  of the first chunk of `x`, and is read as such (`filesystem.go` 829, 958).
- `Load` takes the time of the file after it has read it: if another process
  replaces the file in between, this one takes itself for up to date and lacks what
  was saved (`storage.go` 100), until it saves over it.
- Two processes that change something at the same time: one may rename the temporary
  file that the other has just emptied (`storage.go` 150-154), and a reload drops
  the progress that `AddFileAsync` has left to the saver (`storage.go` 130).
- A listing shows size 0 for an item that was removed or is uploaded again between
  the listing and the look at its entry (`ftp.go` 213, `webdav.go` 330).
- An upload that no listing shows does not keep others from making a folder at its
  path or creating something below it. Its next record puts the file back
  (`filesystem.go` 738), above what was created: the map is no longer a tree
  (`storage.go` 206 and 226).
- Without `--session` a call takes any session of a Go map.

Why the bounds are enough. A content of 5 bytes is 3 chunks of 2, or 2 chunks of
3, or one of 4 and one of 1: all end in a shorter chunk, and the plans disagree on
every inner boundary but the one at 4. Three chunks with two workers at a time give
a worker that overtakes another, one that waits for a place and one that finds
`firstErr` set. With contents of 3 and 2 bytes and chunks of 2 and 3, chunks of one
content fit the plan of the other at one boundary and not at the others. The
bucket's requests include its capacity, and values that leave remainders when
divided by the rate. A limit of 3 lets chunks of 2 and 3 through and holds those of
4 up for ever. Two clients are the old and the new one, two attempts are the stuck
one and its retry. Three levels allow a folder inside the folder that is renamed, and two
uploads on their way one above and one below what somebody creates.
In `read` a content of 3 bytes has a full and a shorter chunk and is larger than the
RAM buffer, the one of 2 bytes fits into it and is cached as a whole; both together
are larger than the cache, so that an eviction meets entries in use, and the two
folders let a rename of a folder take its files along. One crash and one failed
write are enough for a key that is used again after either. In `sync` a second
change meets the file of the first one, and a third the memory of a process that has
loaded in between; two processes are the writer and another one, in either order.
With files of two bytes a transfer can be empty, cut, or whole. `ClientBound`,
`MaxDepth`, `MaxEntries`, `MaxUploads`, `MaxCrashes`, `MaxFailures`, `MaxChanges` and `MaxWrites`
are bounds of the model, not of the code; the settings (`MinChunkSize`,
`MaxRetries`, `RAMBuffer`, ...) are scaled down.

In `two` states are compared by `LiveState`, which leaves out what has landed
and what a finished call was about; no property of that run reads them. In `read`
they are compared by `Observable`: the result of the last call is only read by
`ReadIsRight`, a property of the step that returns it; files that neither the index
nor the `index.json` of a start to come names are never read again, since every
key is written before it is named; `index.json` is read by the next start only; and
what a download has collected is only compared with the entry before the first
crash. Readers, folders, processes, clients and names are interchangeable where a
run declares symmetry; runs with liveness declare none. Deadlock is checked except
in `connection`, where an operation is made once and everything stops after it.

Fairness. `Upload`: a call that can take a step takes one. This holds because
goroutines are scheduled, because reading, encrypting and saving return, and
because the send ends: `withClientRetry` gives up after `MaxRetries` attempts, each
of which has a deadline (45 s unless it is switched off), which is what
`OperationEnds` says of `Connection`, under its assumption that `Connect` returns.
Before the send a worker waits in `UploadLimiter.WaitN`. It is admitted at some
time if its chunk fits into the bucket: `WaitReturns` says so of a waiter whom the
others leave alone, and with one call at a time the other workers get their share
and leave. For a chunk larger than `Burst` no step is possible (`LimiterAdmits`), no
fairness is assumed, and the call hangs: `UploadReturns` is about calls whose chunks
fit (`WithinLimit`), and `bucket_large` shows the others. The saver, the
user and the death of the process are not fair. `RateLimiter`: time passes, and a
caller that can go on does; `WaitReturns` is stated for a caller whom the others
leave alone from some time on, since the code has no queue. `Connection`:
operations and probers that can move do. It is assumed that `Connect`, which runs
under the lock and without deadline, returns. A call that was abandoned need
never return.

## 4. Proofs

`ChunkPlan_proofs`. `PlanTilesFile`: the plan of any size and chunk size consists
of non-empty pieces, each starting where the one before ends, up to the end of
the file. `SumOfTiles`: for chunks that tile, the running sum of sizes that
`Download` and the resume check use is the offset of the next one. The sum is a
recursive function; the proof uses its defining equation and the least counterexample.

`Upload_proofs`. The properties about entries are not inductive: an entry is
copied from the array of a call, so nothing can be said of it without knowing
what the array holds. `IInv` adds `ArrayFollowsPlan`: up to the resume point the
array holds the resumed chunks, which tile and end at a boundary of the plan;
after it, chunks of the plan or nothing; and where a worker is over without an
error, a chunk. `SplicedTiles` shows that such an array tiles, `FilledPrefix`
that its gapless prefix does, and `NextIInv` goes through the actions. From
`Invariance` follow `TypeCorrect`, `StoredEntriesTile`, `VisibleHasASize`,
`PublishesItsSize`, and `OneSourceIsWhole`: with a single content, what is
visible is that content. The proofs use the assumptions of `Upload` and nothing
else; the number of calls, contents, sizes and settings is arbitrary.

Two strengthenings of `IInv` follow in the same module. `LandedInv` adds what the
entries are copied from: what a call took over, what is in its array and what a
worker has sent is on Telegram, and nothing leaves Telegram. `RecordedExists`
follows for any number of calls; `NothingIsResent` follows from `IInv` and
`SumOfTiles`. `AloneInv` is about one call at a time: neither memory nor disk shows
anything while it sends, and after its success both hold the same entry.

Four theorems take one call at a time as a hypothesis (`Uploads = {u}`), since what
they say is false with two (see the list above): `HiddenUntilFinished`,
`SuccessIsDurable`, `ProgressIsKept` and `UploadImplementsPublication`. The call may be
made any number of times, before and after deaths of the process, with any chunk
size; workers, failures, saves and removals are those of `Next`. `ProgressIsKept`
needs to know that what is recorded is a front of the array (`InArray`), which only
gets fuller. For the refinement `PublicationStep` goes through the actions: each is
a step of `Publication` or changes nothing that it sees. It is stated for one
content (`Sources = {s}`): with two the code splices them (run `splice`), and what it
publishes is none of them.

`RateLimiter_proofs`. `LimiterTypeCorrect`, `NobodyOversleeps`, and
`LimiterImplementsBucket`: under the mapping `level <- Refreshed` every step of
any number of callers is a step of `TokenBucket` or a stutter.

`Connection_proofs`. The invariants of the run are not inductive without two facts:
no prober has a generation that is still to come (`NoFutureProber`), so that
`reconnect` supersedes all of them at once, and an abandoned call belongs to an
attempt that is over (`StuckIsOver`), from which the bound on their number follows
by an injection into `1 .. attempt`.

`Namespace_proofs`. `TreeOK` is inductive but for the finiteness of the map, which
the loop of `RenameFile` needs to end. The loop is the hard part: `AfterMoves` says
what the map is once any given paths of the subtree have moved, `PlacesAreApart` that
no move overwrites or removes what another has moved (this is where the manners of
the client are used), and `OneOutcome` that all orders of the moves end in the same
map. Uploads on their way make the invariant larger (`Ready`): the place of each is
no folder, and has no file and no other such place above it, so that the entry it
writes later does no harm. `MapIsTree`, `MapOfPaths` and `RenameMovesAll`
follow for any names, depth and
number of entries, for the users of `Next`; of those who only go by the listings
it is false (see the list above). `CountsAreWalks` rests on `MapIsTree`: every entry lies in a folder
that can be seen, so that somebody who lists level by level finds the paths with
the prefix, which `WalkFindsInside` shows by the least level that would differ.

`Reader_proofs`. One inductive invariant, in parts:

- `CacheTyped` and `Room`: keys are in the index once, indexed files exist, and what
  is counted, in memory and in `index.json`, leaves room for what is being written.
  This is what `Budget` lacks: a `Set` evicts first and adds later, and a new start
  takes the index from disk.
- `Shape`: who holds the lock and for which key, and that readers, removals and
  renames keep to different paths, as the clients of `Next` do.
- `Cleared`: what the steps of a removal or a rename have taken out of the cache so
  far (`Swept`) stays out until the entries go. Without it they could go and leave
  chunks for the next file of that name. `DeleteClears` is what this comes to at
  the end.
- `Right`, until the first crash: what is cached is what its key stands for, or
  the blob that a rename has moved ahead of its entry (`Blob`); and what each call
  relies on (`Relies`): what it has collected so far are the bytes it was asked for,
  and what it has looked up and not yet used is still right or gone.
- `Torn`, until the first failed write: what `index.json` names and the directory
  holds is in the index, and chunks are at worst cut short. `TornAtWorst` alone is
  not inductive, because a crash brings back what was saved earlier.

There is one lemma for each action. Those of the cache are proved once
(`SetBeginStep` to `CrashStep`) and used wherever `Reader` composes them. `TakeRight`
is about the data: `Take` adds exactly the bytes of a chunk at hand, in order for
`readRangeSequential`, at any place for `Download`, and when all is taken the result
is the slice that was asked for. It rests on `ContentBytes` (the chunks of the
plan, joined, are the content), `WithoutLeaves` and `EvictLeaves`.
`ReaderTyped`, `BudgetIsKept`, `CacheStaysRight`, `TornStaysAtWorst` and the action
properties `ReadsAreRight` and `DeleteClears` follow, for any readers, paths, contents, chunk sizes, cache
size, offsets and number of crashes and failed writes. The assumptions are those of
`Reader` and `FileCache`: sizes are positive, what a rename leads to is a path, and
every chunk has a key. All of them are about `Spec`, the clients of `Next`, and have
`NoAlias` as a hypothesis. The code gives no such guarantees:
without free places for uploads `ReadIsRight` fails (`stale_read`), and without the
rest it and `GoneIsUncached` do (see the list above). `CacheStaysRight` and `ReadsAreRight`
end with the first new start of the process, which may leave a chunk cut short.

`StoreSync_proofs`. The inductive invariant tells the writer from the others. The
writer has all that is in the file, and unless it is between the rename and the end
of its save no file is newer than its `lastLoad`, so it never loads; the others have
a part of the file, all of it if it is still the one they have read. From it follow
`FileIsWhole`, `SavedSurvives` and `UpToDateUnlessLate`, whose exception is the load
between whose read and stat the file was replaced (`late`). The
assumption is the one of `Next`: one process at a time that changes anything;
`turns` shows what happens without it.

`Frontends_proofs`. A handle of FTP knows that its transfer was cut, only what may be
published is being uploaded, and a complete entry has its size on record; hence
`StoredIsWhole` and `NoPartialSizeListed`: what a listing shows is the size of a
complete file or 0, and 0 it may be.

Every safety and action property that a passing run checks, and both refinements,
are proved; the runs show that they are not vacuous and what becomes of them when
the code is changed. Recursive definitions (the sum of sizes, `Without`, `Walk`, the
loop of `RenameFile`) are recursive functions on an initial part of the naturals:
a proof gives the solution and shows by the least place that would differ that
there is no other, so that no induction principle with an operator is needed.

Only model-checked: the liveness properties `UploadReturns`, `WaitReturns`,
`OperationEnds` and `SupersededProberEnds`, because TLAPS has no support for
fairness and ENABLED.

## 5. State of the plan

1. `ChunkPlan`, `Upload`, `Publication` - modelled, checked, proved
   (`ChunkPlan_proofs`, `Upload_proofs`).
2. `RateLimiter`, `TokenBucket` - modelled, checked, proved.
3. `Connection` - modelled, checked, its invariants proved.
4. `Namespace` - modelled, checked, proved.
5. `FileCache`, `Reader` - modelled, checked, proved (`Reader_proofs`).
6. `StoreSync` - modelled, checked, proved.
7. `Frontends` - modelled for one folder, checked, proved.

Not modelled, and why. Encryption works on one chunk in memory and is a library;
its failures are `PrepareFails` and `FetchFails`. Settings, sizes and proxy
detection are read once and become CONSTANTS, or a `Connect` that fails. The command
line parses and prints; what it does to the storage file is in `StoreSync`. HTTP
streaming is a position over `ReadAt`. Several sessions are separate maps, and which
one a call without `--session` takes is a random choice of the Go runtime.
