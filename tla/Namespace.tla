----------------------------- MODULE Namespace -----------------------------
(***************************************************************************)
(* The virtual directory tree of one session: Storage keeps a flat map     *)
(* from paths to entries, and Mkdir, AddFile, RemoveFile and RenameFile    *)
(* have to keep it in the shape of a tree; ShowList and CountChildren read *)
(* it as one.                                                              *)
(*                                                                         *)
(* A path is the sequence of its names, as normalizePath leaves it; the    *)
(* root is <<>> and has no entry.  Every operation holds the lock, and its *)
(* save is not modelled here.  An upload is in progress from the moment    *)
(* its client asks for it, and writes the entry of its path as often and   *)
(* as late as it likes, without looking at what is there by then.  The     *)
(* operations accept every path, also one below a file or a rename into    *)
(* itself; a file manager does not offer that, as far as its listings      *)
(* show it what there is.                                                  *)
(***************************************************************************)
EXTENDS Integers, Sequences, FiniteSets

CONSTANTS
    Names,
    MaxDepth,       \* bound of the model: the longest path
    MaxEntries,     \* bound of the model: the most entries there can be
    MaxUploads,     \* bound of the model: the most paths uploaded to at a time
    Contents,       \* what distinguishes files
    Folder          \* the entry of a folder

ASSUME BoundsAssumption ==
    MaxDepth \in Nat /\ MaxEntries \in Nat /\ MaxUploads \in Nat

Paths == UNION {[1 .. n -> Names] : n \in 1 .. MaxDepth}
File == [content : Contents, incomplete : BOOLEAN]

ASSUME FolderAssumption == Folder \notin File

VARIABLES
    entries,        \* sess.Files
    uploading       \* the paths that a call of Upload is in progress for

vars == <<entries, uploading>>

\* p is strictly inside the folder dir (strings.HasPrefix(p, dir + "/")).
Inside(p, dir) == Len(p) > Len(dir) /\ SubSeq(p, 1, Len(dir)) = dir

\* Mutant: the walk up does not stop below the root.
Ancestors_WithRoot(p) == {SubSeq(p, 1, n) : n \in 0 .. Len(p) - 1}

Ancestors(p) == {SubSeq(p, 1, n) : n \in 1 .. Len(p) - 1}

IsFolder(p) == p \in DOMAIN entries /\ entries[p] = Folder
IsFile(p) == p \in DOMAIN entries /\ entries[p] # Folder

----------------------------------------------------------------------------
(* The operations.                                                         *)

Put(map, p, e) == [q \in DOMAIN map \cup {p} |-> IF q = p THEN e ELSE map[q]]

Drop(map, S) == [q \in DOMAIN map \ S |-> map[q]]

\* ensureFolders(sess, p): an ancestor that has any entry is left alone.
EnsureFolders(map, p) ==
    [q \in DOMAIN map \cup Ancestors(p) |->
        IF q \in DOMAIN map THEN map[q] ELSE Folder]

Mkdir(p) == entries' = EnsureFolders(Put(entries, p, Folder), p)

\* AddFile and AddFileAsync.
AddFile(p, file) == entries' = EnsureFolders(Put(entries, p, file), p)

\* Mutant: only the marker of a folder.
Subtree_Marker(p) == {p}

\* The paths that go with p: those inside of it if p is a folder.
Subtree(p) ==
    {p} \cup {q \in DOMAIN entries : entries[p] = Folder /\ Inside(q, p)}

RemoveFile(p) ==
    /\ p \in DOMAIN entries
    /\ entries' = Drop(entries, Subtree(p))

Target(q, old, new) == new \o SubSeq(q, Len(old) + 1, Len(q))

\* One turn of the loop over the moves.
Move(map, q, old, new) ==
    Drop(Put(map, Target(q, old, new), map[q]), {q})

\* Mutant: what is inside the folder stays behind.
MovesOf_Marker(old, new) == {Move(entries, old, old, new)}

\* The loop runs over a Go map: the turns come in any order.  What the map can
\* be after n of them, and the moves that are left.
MovesOf(old, new) ==
    LET after[n \in 0 .. Cardinality(Subtree(old))] ==
            IF n = 0 THEN {[map |-> entries, left |-> Subtree(old)]}
            ELSE UNION {{[map |-> Move(m.map, q, old, new), left |-> m.left \ {q}] :
                            q \in m.left} : m \in after[n - 1]}
    IN  {m.map : m \in after[Cardinality(Subtree(old))]}

RenameFile(old, new) ==
    /\ old \in DOMAIN entries
    /\ \A q \in Subtree(old) : Target(q, old, new) \in Paths
    /\ \E map \in MovesOf(old, new) : entries' = EnsureFolders(map, new)

----------------------------------------------------------------------------
(* The listings.                                                           *)

Shown(p) == p \in DOMAIN entries
            /\ (entries[p] # Folder => ~ entries[p].incomplete)

\* The children of dir that ShowList returns, by their paths.
ShowList(dir) ==
    {p \in DOMAIN entries :
        Shown(p) /\ Len(p) = Len(dir) + 1 /\ SubSeq(p, 1, Len(dir)) = dir}

\* Mutant: uploads in progress are counted.
CountChildren_All(dir) ==
    LET counted == {p \in DOMAIN entries : Inside(p, dir)}
    IN  [files |-> Cardinality({p \in counted : entries[p] # Folder}),
         folders |-> Cardinality({p \in counted : entries[p] = Folder})]

CountChildren(dir) ==
    LET counted == {p \in DOMAIN entries : Shown(p) /\ Inside(p, dir)}
    IN  [files |-> Cardinality({p \in counted : entries[p] # Folder}),
         folders |-> Cardinality({p \in counted : entries[p] = Folder})]

----------------------------------------------------------------------------
(* The clients.                                                            *)

Init == entries = << >> /\ uploading = {}

\* What somebody can tell who has listed the folders: an upload that has not
\* finished, or that failed and left its entry, is not to be seen.
SeesFile(p) == IsFile(p) /\ Shown(p)

SeesNoFileAbove(p) == \A a \in Ancestors(p) : ~ SeesFile(a)

\* What no listing shows, and only somebody knows who made all the uploads: no
\* file at all above p, nor the place of one that is on its way; and none of
\* those places inside of p.
FreeAbove(p) == \A a \in Ancestors(p) : ~ IsFile(a) /\ a \notin uploading

FreeInside(p) == \A u \in uploading : ~ Inside(u, p)

\* Not over a file, and not below one.
MakeFolder(p) ==
    /\ ~ SeesFile(p)
    /\ SeesNoFileAbove(p)
    /\ Mkdir(p)
    /\ UNCHANGED uploading

\* STOR, PUT or `upload`: not over a folder, and not below a file.
BeginUpload(p) ==
    /\ ~ IsFolder(p)
    /\ SeesNoFileAbove(p)
    /\ uploading' = uploading \cup {p}
    /\ UNCHANGED entries

\* The entry Upload starts with, and its progress.
UploadWrites(p, content) ==
    /\ p \in uploading
    /\ AddFile(p, [content |-> content, incomplete |-> TRUE])
    /\ UNCHANGED uploading

\* Several calls for one path make it one element of uploading: it stays when
\* there is another one.
LastOf(p) == uploading' \in {uploading, uploading \ {p}}

UploadEnds(p, content) ==
    /\ p \in uploading
    /\ AddFile(p, [content |-> content, incomplete |-> FALSE])
    /\ LastOf(p)

UploadFails(p) ==
    /\ p \in uploading
    /\ uploading' = uploading \ {p}
    /\ UNCHANGED entries

Delete(p) == RemoveFile(p) /\ UNCHANGED uploading

\* Not onto itself or a folder, not into itself, and not below a file.
Rename(old, new) ==
    /\ new # old
    /\ ~ Inside(new, old)
    /\ ~ IsFolder(new)
    /\ SeesNoFileAbove(new)
    /\ RenameFile(old, new)
    /\ UNCHANGED uploading

Fits ==
    /\ Cardinality(DOMAIN entries') <= MaxEntries
    /\ Cardinality(uploading') <= MaxUploads

\* What goes on once it has been asked for, and what never does any harm.
Goes(p) ==
    \/ \E content \in Contents : UploadWrites(p, content) \/ UploadEnds(p, content)
    \/ UploadFails(p)
    \/ Delete(p)

\* The place a careful user wants a file or a folder at has nothing to do with
\* the uploads on their way: none above it, none inside of it, and for a folder
\* none at it; nor with what a failed one has left above.
Next ==
    \E p \in Paths :
        /\ \/ Goes(p)
           \/ MakeFolder(p) /\ FreeAbove(p) /\ p \notin uploading
           \/ BeginUpload(p) /\ FreeAbove(p) /\ FreeInside(p)
           \/ \E new \in Paths :
                /\ Rename(p, new)
                /\ FreeAbove(new) /\ FreeInside(new) /\ new \notin uploading
        /\ Fits

Spec == Init /\ [][Next]_vars

----------------------------------------------------------------------------
(* Properties.                                                             *)

TypeOK ==
    /\ DOMAIN entries \subseteq Paths
    /\ \A p \in DOMAIN entries : entries[p] \in File \cup {Folder}
    /\ uploading \subseteq Paths

\* Every entry can be reached: the directories above it exist and are folders
\* (ensureFolders "makes every ancestor directory of remotePath exist as a
\* virtual folder marker", storage.go:200-202), although uploads write their
\* entries long after they were asked for, over what was created, removed and
\* renamed in the meantime, in any order.  It takes users who keep clear of the
\* uploads on their way and of what failed ones have left (Next): listings show
\* neither, and for users who only go by them, without what Next adds to
\* MakeFolder, BeginUpload and Rename, it is not true.
TreeOK == \A p \in DOMAIN entries : \A a \in Ancestors(p) : IsFolder(a)

\* What somebody finds who lists dir, then every folder found there, and so on.
Walk(dir) ==
    LET found[n \in 1 .. MaxDepth] ==
            IF n = 1 THEN ShowList(dir)
            ELSE UNION {ShowList(p) : p \in {q \in found[n - 1] : IsFolder(q)}}
    IN  UNION {found[n] : n \in 1 .. MaxDepth}

\* The counts of `info` are what "listing every level by hand" would give
\* (storage.go:401-407), from the root and from every folder: the two readings
\* of the flat map agree, hidden uploads included.
CountIsWalk ==
    \A dir \in {<<>>} \cup {p \in DOMAIN entries : IsFolder(p)} :
        LET walked == Walk(dir)
        IN  /\ CountChildren(dir).files =
                    Cardinality({p \in walked : entries[p] # Folder})
            /\ CountChildren(dir).folders =
                    Cardinality({p \in walked : entries[p] = Folder})

\* A rename moves the whole subtree to its new place, whatever order the map
\* gives its paths in, and disturbs nothing else: a path outside keeps its
\* entry, unless it is the target, and only folders above the target are new.
RenameMoves ==
    [][\A old \in DOMAIN entries \ DOMAIN entries' : \A new \in Paths :
        Rename(old, new) =>
            /\ \A q \in Subtree(old) :
                /\ Target(q, old, new) \in DOMAIN entries'
                /\ entries'[Target(q, old, new)] = entries[q]
            /\ \A q \in DOMAIN entries' :
                \/ \E r \in Subtree(old) : q = Target(r, old, new)
                \/ q \in DOMAIN entries \ Subtree(old) /\ entries'[q] = entries[q]
                \/ q \in Ancestors(new) /\ entries'[q] = Folder
            /\ DOMAIN entries \ Subtree(old) \subseteq DOMAIN entries']_vars
=============================================================================
