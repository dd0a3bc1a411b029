----------------------------- MODULE StoreSync -----------------------------
(***************************************************************************)
(* Several processes on one storage.json (storage.go 78-185 and the        *)
(* storage commands of cli.go): servers that live long, one-shot commands, *)
(* and commands that load, ask the user and save.                          *)
(*                                                                         *)
(* What a process or a file holds is the set of changes that were made to  *)
(* it, numbered in the order they were made; a file that cannot be parsed  *)
(* is not whole.  Load, Save and all that changes the tree hold the        *)
(* lock of their own process; between processes there is none.  Each write *)
(* of a file has an mtime of its own, and mtimes come from the clock that  *)
(* time.Now() reads.                                                       *)
(***************************************************************************)
EXTENDS Integers

CONSTANTS
    Procs,
    NoTime,
    MaxChanges,     \* bound of the model
    MaxWrites       \* bound of the model: of the temporary file

ASSUME SyncAssumption ==
    /\ MaxChanges \in Nat
    /\ MaxWrites \in Nat
    /\ NoTime \notin Nat

VARIABLES
    proc,           \* Storage in each process, and what holds its lock
    disk,           \* storage.json
    tmp,            \* storage.json.tmp, the same file for all
    clock,          \* the latest mtime
    made,           \* the number of changes
    acked           \* the changes whose caller was told that they are saved

vars == <<proc, disk, tmp, clock, made, acked>>

Down == [step |-> "down", writes |-> FALSE, mem |-> {}, lastLoad |-> 0,
         dirty |-> FALSE, seen |-> NoTime, pending |-> {}, readAt |-> 0, late |-> FALSE]

\* There is no temporary file.
Gone == [whole |-> FALSE, content |-> {}, mtime |-> NoTime]

Running == {p \in Procs : proc[p].step # "down"}

Writers == {p \in Running : proc[p].writes}

InStep(p, step) == proc[p].step = step

Goes(p, state) == proc' = [proc EXCEPT ![p] = state]

----------------------------------------------------------------------------
(* Load.                                                                   *)

\* What of a process changes when it has read the file: s.Files.  readAt is not
\* in the code: it says which file was read.
Fresh(state) ==
    [state EXCEPT !.step = "reading", !.mem = disk.content, !.readAt = disk.mtime]

\* Mutant: a storage that cannot be loaded is taken to be empty.
Start_Empty(p, writes) ==
    /\ InStep(p, "down")
    /\ Goes(p, [Down EXCEPT !.writes = writes, !.step = "free"])
    /\ UNCHANGED <<disk, tmp, clock, made, acked>>

\* newFileSystem, or the beginning of a storage command: exits if Load fails.
Start(p, writes) ==
    /\ InStep(p, "down")
    /\ disk.whole
    /\ Goes(p, Fresh([Down EXCEPT !.writes = writes]))
    /\ UNCHANGED <<disk, tmp, clock, made, acked>>

\* Mutant: the time of the load instead of the time of the file.
LoadStat_Now(p) ==
    /\ InStep(p, "reading")
    /\ Goes(p, [proc[p] EXCEPT !.step = "free", !.lastLoad = clock,
                               !.late = disk.mtime # proc[p].readAt])
    /\ UNCHANGED <<disk, tmp, clock, made, acked>>

\* os.Stat at the end of Load, which may see a later file than was read.
LoadStat(p) ==
    /\ InStep(p, "reading")
    /\ Goes(p, [proc[p] EXCEPT !.step = "free", !.lastLoad = disk.mtime,
                               !.late = disk.mtime # proc[p].readAt])
    /\ UNCHANGED <<disk, tmp, clock, made, acked>>

\* LoadIfChanged: os.Stat without the lock,
Stat(p) ==
    /\ p \in Running
    /\ proc[p].seen = NoTime
    /\ Goes(p, [proc[p] EXCEPT !.seen = disk.mtime])
    /\ UNCHANGED <<disk, tmp, clock, made, acked>>

\* the comparison with it,
UpToDate(p) ==
    /\ InStep(p, "free")
    /\ proc[p].seen # NoTime
    /\ proc[p].seen <= proc[p].lastLoad
    /\ Goes(p, [proc[p] EXCEPT !.seen = NoTime])
    /\ UNCHANGED <<disk, tmp, clock, made, acked>>

\* and Load, which takes the lock again (the comparison is the same by then: only
\* a load or a save of this process moves lastLoad, and forward).
Reload(p) ==
    /\ InStep(p, "free")
    /\ proc[p].seen # NoTime
    /\ proc[p].seen > proc[p].lastLoad
    /\ Goes(p, [(IF disk.whole THEN Fresh(proc[p]) ELSE proc[p])
                    EXCEPT !.seen = NoTime])
    /\ UNCHANGED <<disk, tmp, clock, made, acked>>

----------------------------------------------------------------------------
(* Changes and saves.                                                      *)

\* AddFileAsync.
ChangeAsync(p) ==
    /\ InStep(p, "free")
    /\ made < MaxChanges
    /\ made' = made + 1
    /\ Goes(p, [proc[p] EXCEPT !.mem = @ \cup {made'}, !.dirty = TRUE])
    /\ UNCHANGED <<disk, tmp, clock, acked>>

\* Mutant: storage.json is opened and written itself.
BeginWrite_InPlace(p, state) ==
    /\ disk' = [disk EXCEPT !.whole = FALSE]
    /\ UNCHANGED tmp
    /\ Goes(p, [state EXCEPT !.step = "writing"])

\* saveLocked up to the moment the temporary file is open and empty.
BeginWrite(p, state) ==
    /\ tmp' = [whole |-> FALSE, content |-> {}, mtime |-> clock]
    /\ Goes(p, [state EXCEPT !.step = "writing"])
    /\ UNCHANGED disk

\* Mkdir, AddFile, RemoveFile, RenameFile or a storage command: a change that is
\* saved before its caller goes on.
Change(p) ==
    /\ InStep(p, "free")
    /\ made < MaxChanges
    /\ made' = made + 1
    /\ BeginWrite(p, [proc[p] EXCEPT !.mem = @ \cup {made'}, !.pending = {made'}])
    /\ UNCHANGED <<clock, acked>>

\* A tick of the saver, or Save when a server is shut down.
Flush(p) ==
    /\ InStep(p, "free")
    /\ proc[p].dirty
    /\ BeginWrite(p, proc[p])
    /\ UNCHANGED <<clock, made, acked>>

\* The end of os.WriteFile.
EndWrite(p) ==
    /\ InStep(p, "writing")
    /\ clock < MaxWrites
    /\ clock' = clock + 1
    /\ tmp' = [whole |-> TRUE, content |-> proc[p].mem, mtime |-> clock']
    /\ Goes(p, [proc[p] EXCEPT !.step = "written"])
    /\ UNCHANGED <<disk, made, acked>>

\* Mutant: a save that fails is forgotten about.
WriteFails_Silent(p) ==
    /\ InStep(p, "writing") \/ InStep(p, "written")
    /\ acked' = acked \cup proc[p].pending
    /\ Goes(p, [proc[p] EXCEPT !.step = "free"])
    /\ UNCHANGED <<disk, tmp, clock, made>>

\* os.WriteFile or os.Rename fails: the change stays in memory, and its caller is
\* told.
WriteFails(p) ==
    /\ InStep(p, "writing") \/ InStep(p, "written")
    /\ Goes(p, [proc[p] EXCEPT !.step = "free", !.pending = {}])
    /\ UNCHANGED <<disk, tmp, clock, made, acked>>

\* os.Rename takes whatever is in the temporary file, if it is there.
Rename(p) ==
    /\ InStep(p, "written")
    /\ tmp # Gone
    /\ disk' = tmp
    /\ tmp' = Gone
    /\ Goes(p, [proc[p] EXCEPT !.step = "renamed"])
    /\ UNCHANGED <<clock, made, acked>>

\* The rest of saveLocked: lastLoad is the time it is now.
SaveDone(p) ==
    /\ InStep(p, "renamed")
    /\ acked' = acked \cup proc[p].pending
    /\ Goes(p, [proc[p] EXCEPT !.step = "free", !.lastLoad = clock, !.dirty = FALSE,
                               !.pending = {}, !.late = FALSE])
    /\ UNCHANGED <<disk, tmp, clock, made>>

\* The process ends, or dies at any point.
Stop(p) ==
    /\ p \in Running
    /\ Goes(p, Down)
    /\ UNCHANGED <<disk, tmp, clock, made, acked>>

----------------------------------------------------------------------------
Init ==
    /\ proc = [p \in Procs |-> Down]
    /\ disk = [whole |-> TRUE, content |-> {}, mtime |-> 0]
    /\ tmp = Gone
    /\ clock = 0
    /\ made = 0
    /\ acked = {}

Always(p) ==
    \/ LoadStat(p) \/ Stat(p) \/ UpToDate(p) \/ Reload(p)
    \/ Flush(p) \/ EndWrite(p) \/ WriteFails(p) \/ Rename(p) \/ SaveDone(p)
    \/ Stop(p)

\* One process at a time changes anything; the others list and download.
Next ==
    \E p \in Procs :
        \/ Always(p)
        \/ Start(p, FALSE)
        \/ Writers = {} /\ Start(p, TRUE)
        \/ proc[p].writes /\ (Change(p) \/ ChangeAsync(p))

Spec == Init /\ [][Next]_vars

\* Two processes that change things, one after the other: a process starts, and a
\* change begins, when nobody else is at work.
AtRest(p) ==
    InStep(p, "down") \/ (InStep(p, "free") /\ ~ proc[p].dirty /\ proc[p].seen = NoTime)

TurnsNext ==
    \E p \in Procs :
        \/ Always(p)
        \/ /\ \A q \in Procs \ {p} : AtRest(q)
           /\ Start(p, TRUE) \/ Change(p) \/ ChangeAsync(p)

TurnsSpec == Init /\ [][TurnsNext]_vars

----------------------------------------------------------------------------
Versions == SUBSET (1 .. made)

Files == [whole : BOOLEAN, content : Versions, mtime : 0 .. clock]

\* Every process has loaded something that once was, no time is in the future,
\* and a change waits for its answer only while a save is under way.
TypeOK ==
    /\ made \in 0 .. MaxChanges
    /\ clock \in 0 .. MaxWrites
    /\ acked \in Versions
    /\ disk \in Files /\ tmp \in Files \cup {Gone}
    /\ \A p \in Procs :
        /\ proc[p].step \in {"down", "free", "reading", "writing", "written", "renamed"}
        /\ proc[p].mem \in Versions
        /\ proc[p].lastLoad \in 0 .. clock
        /\ proc[p].seen \in {NoTime} \cup 0 .. clock
        /\ proc[p].pending # {} => proc[p].step \in {"writing", "written", "renamed"}

\* storage.json can be parsed at any moment, although the process that writes it
\* may die or fail at any step and leave its temporary file behind ("a crash or
\* power loss mid-write can't leave storage.json half-written and unparseable",
\* storage.go:133-135).
DiskIsWhole == disk.whole

\* A change whose caller was told that it is saved is in storage.json from then
\* on, through every failed save, death and new start.
AckedSurvives == disk.whole /\ acked \subseteq disk.content

\* A process that would not load holds all that is in the file, or its last Load
\* was late: the file was replaced between the reading and the stat of that Load,
\* and lastLoad is the time of a file it has not read.  lastLoad otherwise stands
\* for what is in memory, although saveLocked sets it to the time of day.
UpToDateIsCurrent ==
    \A p \in Running :
        InStep(p, "free") /\ ~ proc[p].late /\ disk.mtime <= proc[p].lastLoad =>
            disk.content \subseteq proc[p].mem
=============================================================================
