----------------------------- MODULE FileCache -----------------------------
(***************************************************************************)
(* The disk cache of decrypted chunks (cache.go): an index in memory, one  *)
(* file per key, and a copy of the index in index.json that the next       *)
(* process starts from.                                                    *)
(*                                                                         *)
(* The lock covers the index, and Set as a whole; the file of a key is     *)
(* read without it.  A Set is therefore two actions, and whoever reads the *)
(* file in between may find any prefix of what is being written.  An entry *)
(* expires a fixed time after it was made, so that the oldest expires      *)
(* first.  One process uses the directory at a time.                       *)
(***************************************************************************)
EXTENDS ChunkPlan, SequencesExt

CONSTANTS
    Keys,       \* what can be cached
    MaxSize,    \* of the cache, in bytes
    NoIndex,    \* index.json is missing or cannot be parsed
    NoSet       \* no Set is in progress

VARIABLES
    index,      \* fc.index by CreatedAt: a sequence of [key, size]
    old,        \* the keys whose entry is past its ExpiresAt
    files,      \* the files that exist, by key
    saved,      \* index.json
    setting     \* the Set that holds the lock, [key, data]

cacheVars == <<index, old, files, saved, setting>>

Slot == [key : Keys, size : Nat]

ASSUME CacheAssumption == MaxSize \in Int /\ NoIndex \notin Seq(Slot)

KeysOf(entries) == {entries[i].key : i \in DOMAIN entries}

\* The entries whose key is not in K.
Without(entries, K) ==
    LET kept[i \in 0 .. Len(entries)] ==
            IF i = 0 THEN <<>>
            ELSE IF entries[i].key \in K THEN kept[i - 1]
            ELSE Append(kept[i - 1], entries[i])
    IN  kept[Len(entries)]

Locked == setting # NoSet

Has(k) == k \in KeysOf(index) \ old /\ k \in DOMAIN files

\* What os.ReadFile may return in Get, after the lock was released; nothing if
\* the file is gone.
ReadFile(k) ==
    IF k \notin DOMAIN files THEN {}
    ELSE IF Locked /\ setting.key = k THEN Prefixes(setting.data)
    ELSE {files[k]}

\* Mutant: the entry to be added is not counted.
EvictIfNeeded_Full(needed) ==
    LET live == Without(index, old)
        rest(n) == SubSeq(live, n + 1, Len(live))
        fits(n) == TotalSize(rest(n)) <= MaxSize
    IN  rest(CHOOSE n \in 0 .. Len(live) :
                /\ fits(n) \/ n = Len(live)
                /\ \A m \in 0 .. n - 1 : ~ fits(m))

\* The index that evictIfNeeded leaves: what has expired is gone, then the
\* oldest entries until there is room.
EvictIfNeeded(needed) ==
    LET live == Without(index, old)
        rest(n) == SubSeq(live, n + 1, Len(live))
        fits(n) == TotalSize(rest(n)) + needed <= MaxSize
    IN  rest(CHOOSE n \in 0 .. Len(live) :
                /\ fits(n) \/ n = Len(live)
                /\ \A m \in 0 .. n - 1 : ~ fits(m))

\* The files that are left when the index goes from `before` to `after`.
FilesLeft(before, after) ==
    Restrict(files, DOMAIN files \ (KeysOf(before) \ KeysOf(after)))

\* Set up to the moment the file has been opened and emptied.
SetBegin(k, data) ==
    /\ ~ Locked
    /\ index' = EvictIfNeeded(Len(data))
    /\ LET left == FilesLeft(index, index')
       IN  files' = [x \in {k} \cup DOMAIN left |-> IF x = k THEN <<>> ELSE left[x]]
    /\ setting' = [key |-> k, data |-> data]
    /\ UNCHANGED <<old, saved>>

SetEnd ==
    /\ Locked
    /\ index' = Append(Without(index, {setting.key}),
                       [key |-> setting.key, size |-> Len(setting.data)])
    /\ files' = [files EXCEPT ![setting.key] = setting.data]
    /\ saved' = index'
    /\ old' = (old \cap KeysOf(index)) \ {setting.key}
    /\ setting' = NoSet

\* Mutant: the lock is not given back when WriteFile has failed.
SetFails_Locked ==
    /\ Locked
    /\ \E part \in Prefixes(setting.data) :
            files' = [files EXCEPT ![setting.key] = part]
    /\ UNCHANGED <<index, old, saved, setting>>

\* WriteFile failed: what was evicted is gone, part of the file may be there,
\* and index.json is as before.
SetFails ==
    /\ Locked
    /\ \E part \in Prefixes(setting.data) :
            files' = [files EXCEPT ![setting.key] = part]
    /\ setting' = NoSet
    /\ UNCHANGED <<index, old, saved>>

\* Delete, DeletePrefix or the deletions of an expired entry by Get.
DeleteKeys(K) ==
    /\ ~ Locked
    /\ index' = Without(index, K)
    /\ files' = FilesLeft(index, index')
    /\ saved' = IF index' = index THEN saved ELSE index'
    /\ old' = old \ K
    /\ UNCHANGED setting

\* One tick of cleanupLoop, which saves the index in any case.
Cleanup ==
    /\ ~ Locked
    /\ index' = Without(index, old)
    /\ files' = FilesLeft(index, index')
    /\ saved' = index'
    /\ old' = {}
    /\ UNCHANGED setting

\* Time passes.
Expire ==
    /\ Without(index, old) # <<>>
    /\ old' = old \cup {Head(Without(index, old)).key}
    /\ UNCHANGED <<index, files, saved, setting>>

\* The process dies, perhaps while it writes a file or index.json (which is
\* overwritten in place), and loadIndex runs in the next one.
CrashAndLoad ==
    \E left \in IF Locked
                THEN {[files EXCEPT ![setting.key] = part] :
                        part \in Prefixes(setting.data)}
                ELSE {files},
       json \in {saved, NoIndex} :
        LET named == IF json = NoIndex THEN <<>> ELSE json
        IN  /\ index' = Without(named, KeysOf(named) \ (DOMAIN left \ old))
            /\ files' = Restrict(left, DOMAIN left \ (old \cap KeysOf(named)))
            /\ saved' = json
            /\ setting' = NoSet
            /\ UNCHANGED old

CacheInit ==
    /\ index = <<>>
    /\ old = {}
    /\ files = << >>
    /\ saved = NoIndex
    /\ setting = NoSet

CacheTypeOK ==
    /\ KeysOf(index) \subseteq Keys
    /\ \A i, j \in DOMAIN index : index[i].key = index[j].key => i = j
    /\ old \subseteq Keys
    /\ DOMAIN files \subseteq Keys
    /\ saved # NoIndex => KeysOf(saved) \subseteq Keys
    /\ Locked => setting.key \in DOMAIN files

\* What the index counts fits into the cache, or is a single chunk too large
\* for it: no sequence of writes, expiries, evictions, deletions and new starts
\* lets the sum drift from the entries it is taken of.
Budget == TotalSize(index) <= MaxSize \/ Len(index) <= 1
=============================================================================
