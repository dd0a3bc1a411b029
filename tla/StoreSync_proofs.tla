-------------------------- MODULE StoreSync_proofs --------------------------
(***************************************************************************)
(* What the checked run of StoreSync shows for one instance, for any       *)
(* number of processes, changes and writes.                                *)
(*                                                                         *)
(* The inductive invariant tells apart the process that changes something, *)
(* of which there is at most one, and the others.  The writer has all that *)
(* is in storage.json, and unless it reads or renames it just now, no file *)
(* is newer than its lastLoad: it never loads again, and what it has not   *)
(* saved yet is safe.  The others have a part of what is in storage.json,  *)
(* and all of it if that is still the file they have read.                 *)
(***************************************************************************)
EXTENDS StoreSync, TLAPS

Steps == {"down", "free", "reading", "writing", "written", "renamed"}

Saving == {"writing", "written", "renamed"}

States ==
    [step : Steps, writes : BOOLEAN, mem : Versions, lastLoad : 0 .. clock,
     dirty : BOOLEAN, seen : {NoTime} \cup 0 .. clock, pending : Versions,
     readAt : 0 .. clock, late : BOOLEAN]

ReaderOK(p) ==
    /\ proc[p].step \in {"free", "reading"}
    /\ ~ proc[p].dirty
    /\ proc[p].pending = {}
    /\ proc[p].mem \subseteq disk.content
    /\ proc[p].readAt <= disk.mtime
    /\ proc[p].readAt = disk.mtime => proc[p].mem = disk.content
    /\ proc[p].step = "free" /\ ~ proc[p].late => proc[p].lastLoad = proc[p].readAt

WriterOK(p) ==
    /\ disk.content \subseteq proc[p].mem
    /\ proc[p].seen # NoTime => proc[p].seen <= disk.mtime
    /\ proc[p].step \in {"free", "writing", "written"} => disk.mtime <= proc[p].lastLoad
    /\ proc[p].pending \subseteq proc[p].mem
    /\ proc[p].pending # {} => proc[p].step \in Saving
    /\ proc[p].step = "written" =>
        tmp.whole /\ tmp.content = proc[p].mem /\ disk.mtime < tmp.mtime
    /\ proc[p].step = "renamed" => proc[p].pending \subseteq disk.content

ProcOK(p) ==
    /\ proc[p] \in States
    /\ InStep(p, "down") => proc[p] = Down
    /\ ~ InStep(p, "down") =>
        IF proc[p].writes THEN WriterOK(p) ELSE ReaderOK(p)

Shared ==
    /\ made \in 0 .. MaxChanges
    /\ clock \in 0 .. MaxWrites
    /\ acked \in Versions
    /\ disk \in Files /\ tmp \in Files \cup {Gone}
    /\ disk.whole
    /\ acked \subseteq disk.content

OneWriter == \A p, q \in Writers : p = q

\* The inductive invariant.
IInv ==
    /\ proc \in [Procs -> States]
    /\ Shared
    /\ OneWriter
    /\ \A p \in Procs : ProcOK(p)

----------------------------------------------------------------------------
\* Changes and times that were possible stay possible.
LEMMA StatesGrow ==
    ASSUME Shared, Shared', made <= made', clock <= clock'
    PROVE  States \subseteq States' /\ Versions \subseteq Versions'
    <1>1. Versions \subseteq Versions'
          BY SyncAssumption DEF Shared, Versions
    <1>2. 0 .. clock \subseteq 0 .. clock'
          BY SyncAssumption DEF Shared
    <1>. QED BY <1>1, <1>2 DEF States

\* A process that has not moved is as it should be, if the writer, or the process
\* that is becoming one, has done nothing but replace the file by a later one
\* with more in it.
LEMMA OthersAreOK ==
    ASSUME IInv, Shared', made <= made', clock <= clock',
           NEW p \in Procs, NEW q \in Procs, q # p, proc'[q] = proc[q],
           \/ UNCHANGED <<disk, tmp>>
           \/ /\ p \in Writers
              /\ \/ disk' = disk
                 \/ disk.mtime < disk'.mtime /\ disk.content \subseteq disk'.content
    PROVE  ProcOK(q)'
    <1>1. ProcOK(q)
          BY DEF IInv
    <1>2. proc'[q] \in States'
          BY <1>1, StatesGrow DEF IInv, ProcOK
    <1>3. ASSUME ~ InStep(q, "down"), proc[q].writes PROVE WriterOK(q)'
          <2>1. q \in Writers
                BY <1>3 DEF Writers, Running, InStep
          <2>2. UNCHANGED <<disk, tmp>>
                BY <2>1 DEF IInv, OneWriter
          <2>. QED BY <1>1, <1>3, <2>2 DEF ProcOK, WriterOK
    <1>4. ASSUME ~ InStep(q, "down"), ~ proc[q].writes PROVE ReaderOK(q)'
          <2>1. ReaderOK(q)
                BY <1>1, <1>4 DEF ProcOK
          <2>2. disk' = disk \/ (disk.mtime < disk'.mtime /\ disk.content \subseteq disk'.content)
                OBVIOUS
          <2>3. disk.mtime \in Nat /\ disk'.mtime \in Nat /\ proc[q].readAt \in Nat
                BY <1>1, SyncAssumption DEF IInv, Shared, Files, ProcOK, States
          <2>. QED BY <2>1, <2>2, <2>3 DEF ReaderOK
    <1>. QED BY <1>1, <1>2, <1>3, <1>4 DEF ProcOK, InStep, Down

\* A step of one process that leaves it as it should be.
LEMMA Moves ==
    ASSUME IInv, Shared', made <= made', clock <= clock',
           NEW p \in Procs, proc' = [proc EXCEPT ![p] = proc'[p]], ProcOK(p)',
           (p \in Writers)' => p \in Writers \/ Writers = {},
           \/ UNCHANGED <<disk, tmp>>
           \/ /\ p \in Writers
              /\ \/ disk' = disk
                 \/ disk.mtime < disk'.mtime /\ disk.content \subseteq disk'.content
    PROVE  IInv'
    <1>1. \A q \in Procs : q # p => proc'[q] = proc[q]
          BY DEF IInv
    <1>2. \A q \in Procs : ProcOK(q)'
          BY <1>1, OthersAreOK
    <1>3. proc' \in [Procs -> States']
          BY <1>2 DEF IInv, ProcOK
    <1>4. OneWriter'
          <2>1. \A q \in Procs : q # p => (q \in Writers' <=> q \in Writers)
                BY <1>1 DEF Writers, Running
          <2>2. Writers \subseteq Procs /\ Writers' \subseteq Procs
                BY DEF Writers, Running
          <2>. QED BY <2>1, <2>2 DEF IInv, OneWriter
    <1>. QED BY <1>2, <1>3, <1>4 DEF IInv

\* The same for a step that leaves files, clock and changes alone.
LEMMA MovesAlone ==
    ASSUME IInv, UNCHANGED <<disk, tmp, clock, made, acked>>,
           NEW p \in Procs, proc' = [proc EXCEPT ![p] = proc'[p]], ProcOK(p)',
           (p \in Writers)' => p \in Writers \/ Writers = {}
    PROVE  IInv'
    <1>1. Shared'
          BY DEF IInv, Shared, Files, Versions
    <1>2. made <= made' /\ clock <= clock'
          BY SyncAssumption DEF IInv, Shared
    <1>. QED BY <1>1, <1>2, Moves

----------------------------------------------------------------------------
\* A process that has just started or loaded.
LEMMA LoadIInv ==
    ASSUME IInv, NEW p \in Procs,
           \/ Start(p, FALSE)
           \/ Writers = {} /\ Start(p, TRUE)
           \/ LoadStat(p)
           \/ Stat(p)
           \/ UpToDate(p)
           \/ Reload(p)
    PROVE  IInv'
    <1>. USE SyncAssumption
    <1>1. ProcOK(p) /\ proc[p] \in States /\ Shared
          BY DEF IInv, ProcOK
    <1>2. disk.mtime \in 0 .. clock /\ disk.content \in Versions /\ clock \in Nat
          BY DEF IInv, Shared, Files
    <1>3. ASSUME NEW writes \in BOOLEAN, writes => Writers = {}, Start(p, writes)
          PROVE  IInv'
          <2>1. proc'[p] = [step |-> "reading", writes |-> writes, mem |-> disk.content,
                            lastLoad |-> 0, dirty |-> FALSE, seen |-> NoTime,
                            pending |-> {}, readAt |-> disk.mtime, late |-> FALSE]
                BY <1>3 DEF Start, Goes, Fresh, Down, IInv
          <2>2. proc'[p] \in States'
                BY <1>2, <1>3, <2>1 DEF Start, States, Steps, Versions
          <2>3. ProcOK(p)'
                BY <1>2, <1>3, <2>1, <2>2 DEF Start, ProcOK, InStep, ReaderOK, WriterOK, Saving
          <2>4. (p \in Writers)' => Writers = {}
                BY <1>3, <2>1 DEF Writers
          <2>5. proc' = [proc EXCEPT ![p] = proc'[p]]
                BY <1>3 DEF Start, Goes, IInv
          <2>6. UNCHANGED <<disk, tmp, clock, made, acked>>
                BY <1>3 DEF Start
          <2>. QED BY <2>3, <2>4, <2>5, <2>6, MovesAlone
    <1>4. CASE LoadStat(p)
          <2>1. proc'[p] = [proc[p] EXCEPT !.step = "free", !.lastLoad = disk.mtime,
                                           !.late = disk.mtime # proc[p].readAt]
                BY <1>4 DEF LoadStat, Goes, IInv
          <2>2. /\ proc'[p] \in States'
                /\ proc'[p].step = "free" /\ proc'[p].lastLoad = disk.mtime
                /\ proc'[p].late = (disk.mtime # proc[p].readAt)
                /\ proc'[p].writes = proc[p].writes /\ proc'[p].mem = proc[p].mem
                /\ proc'[p].dirty = proc[p].dirty /\ proc'[p].seen = proc[p].seen
                /\ proc'[p].pending = proc[p].pending /\ proc'[p].readAt = proc[p].readAt
                BY <1>1, <1>2, <1>4, <2>1 DEF LoadStat, States, Steps, Versions
          <2>3. ProcOK(p)'
                <3>1. CASE proc[p].writes
                      BY <1>1, <1>2, <1>4, <2>2, <3>1
                      DEF LoadStat, ProcOK, InStep, WriterOK, Saving
                <3>2. CASE ~ proc[p].writes
                      BY <1>1, <1>2, <1>4, <2>2, <3>2 DEF LoadStat, ProcOK, InStep, ReaderOK
                <3>. QED BY <3>1, <3>2
          <2>. QED BY <1>4, <2>2, <2>3, MovesAlone DEF LoadStat, Goes, InStep, Writers, Running
    <1>5. CASE Stat(p)
          <2>1. proc'[p] = [proc[p] EXCEPT !.seen = disk.mtime]
                BY <1>5 DEF Stat, Goes, IInv
          <2>2. /\ proc'[p] \in States'
                /\ proc'[p].seen = disk.mtime
                /\ proc'[p].step = proc[p].step /\ proc'[p].lastLoad = proc[p].lastLoad
                /\ proc'[p].late = proc[p].late
                /\ proc'[p].writes = proc[p].writes /\ proc'[p].mem = proc[p].mem
                /\ proc'[p].dirty = proc[p].dirty
                /\ proc'[p].pending = proc[p].pending /\ proc'[p].readAt = proc[p].readAt
                BY <1>1, <1>2, <1>5, <2>1 DEF Stat, States, Steps, Versions
          <2>3. ProcOK(p)'
                BY <1>1, <1>2, <1>5, <2>2
                DEF Stat, Running, ProcOK, InStep, ReaderOK, WriterOK, Saving
          <2>. QED BY <1>5, <2>2, <2>3, MovesAlone DEF Stat, Goes, Writers, Running
    <1>6. CASE UpToDate(p)
          <2>1. proc'[p] = [proc[p] EXCEPT !.seen = NoTime]
                BY <1>6 DEF UpToDate, Goes, IInv
          <2>2. /\ proc'[p] \in States'
                /\ proc'[p].seen = NoTime
                /\ proc'[p].step = proc[p].step /\ proc'[p].lastLoad = proc[p].lastLoad
                /\ proc'[p].late = proc[p].late
                /\ proc'[p].writes = proc[p].writes /\ proc'[p].mem = proc[p].mem
                /\ proc'[p].dirty = proc[p].dirty
                /\ proc'[p].pending = proc[p].pending /\ proc'[p].readAt = proc[p].readAt
                BY <1>1, <1>2, <1>6, <2>1 DEF UpToDate, States, Steps, Versions
          <2>3. ProcOK(p)'
                BY <1>1, <1>2, <1>6, <2>2
                DEF UpToDate, ProcOK, InStep, ReaderOK, WriterOK, Saving
          <2>. QED BY <1>6, <2>2, <2>3, MovesAlone DEF UpToDate, Goes, InStep, Writers, Running
    <1>7. CASE Reload(p)
          <2>1. ~ proc[p].writes
                <3>1. proc[p].seen \in Nat /\ proc[p].lastLoad \in Nat
                      BY <1>1, <1>2, <1>7 DEF Reload, States
                <3>. QED BY <1>1, <1>2, <1>7, <3>1 DEF Reload, ProcOK, InStep, WriterOK
          <2>2. proc'[p] = [Fresh(proc[p]) EXCEPT !.seen = NoTime]
                BY <1>1, <1>7 DEF Reload, Goes, IInv, Shared
          <2>3. /\ proc'[p] \in States'
                /\ proc'[p].step = "reading" /\ proc'[p].writes = proc[p].writes
                /\ proc'[p].mem = disk.content /\ proc'[p].readAt = disk.mtime
                /\ proc'[p].dirty = proc[p].dirty /\ proc'[p].pending = proc[p].pending
                BY <1>1, <1>2, <1>7, <2>2 DEF Reload, Fresh, States, Steps, Versions
          <2>4. ProcOK(p)'
                BY <1>1, <1>2, <1>7, <2>1, <2>3 DEF Reload, ProcOK, InStep, ReaderOK
          <2>. QED BY <1>7, <2>1, <2>3, <2>4, MovesAlone DEF Reload, Goes, Writers
    <1>. QED BY <1>3, <1>4, <1>5, <1>6, <1>7

\* A process that ends.
LEMMA StopIInv ==
    ASSUME IInv, NEW p \in Procs, Stop(p)
    PROVE  IInv'
    <1>1. proc'[p] = Down
          BY DEF Stop, Goes, IInv
    <1>2. Down \in States'
          BY SyncAssumption DEF Stop, IInv, Shared, States, Steps, Down, Versions
    <1>3. ProcOK(p)'
          BY <1>1, <1>2 DEF ProcOK, InStep, Down
    <1>4. (p \in Writers)' => p \in Writers
          BY <1>1 DEF Writers, Running, Down
    <1>. QED BY <1>1, <1>3, <1>4, MovesAlone DEF Stop, Goes

\* A process that changes or saves anything is the writer.
LEMMA WriterMoves ==
    ASSUME IInv, NEW p \in Procs,
           \/ proc[p].writes /\ (Change(p) \/ ChangeAsync(p))
           \/ Flush(p) \/ EndWrite(p) \/ WriteFails(p) \/ Rename(p) \/ SaveDone(p)
    PROVE  /\ proc[p] \in States /\ Shared /\ WriterOK(p)
           /\ proc[p].writes /\ p \in Writers
    <1>1. ProcOK(p) /\ Shared
          BY DEF IInv
    <1>2. ~ InStep(p, "down")
          BY DEF Change, ChangeAsync, Flush, EndWrite, WriteFails, Rename, SaveDone, InStep
    <1>3. proc[p].writes
          BY <1>1, <1>2 DEF ProcOK, ReaderOK, Flush, EndWrite, WriteFails, Rename, SaveDone,
                            InStep
    <1>. QED BY <1>1, <1>2, <1>3 DEF ProcOK, Writers, Running, InStep

\* The writer changes its memory, or opens the temporary file.
LEMMA ChangeIInv ==
    ASSUME IInv, NEW p \in Procs,
           \/ proc[p].writes /\ (Change(p) \/ ChangeAsync(p))
           \/ Flush(p)
    PROVE  IInv'
    <1>. USE SyncAssumption
    <1>1. proc[p] \in States /\ Shared /\ WriterOK(p) /\ proc[p].writes /\ p \in Writers
          BY WriterMoves
    <1>2. CASE Change(p)
          <2>1. proc'[p] = [[proc[p] EXCEPT !.mem = @ \cup {made'}, !.pending = {made'}]
                                EXCEPT !.step = "writing"]
                BY <1>2 DEF Change, BeginWrite, Goes, IInv
          <2>2. Shared'
                <3>1. made' = made + 1 /\ made' \in 0 .. MaxChanges /\ made \in Nat
                      BY <1>1, <1>2 DEF Change, Shared
                <3>2. Versions \subseteq Versions'
                      BY <3>1 DEF Versions
                <3>3. disk' \in Files' /\ disk'.whole /\ disk' = disk
                      BY <1>1, <1>2, <3>2 DEF Change, BeginWrite, Shared, Files
                <3>4. tmp' \in Files'
                      BY <1>1, <1>2, <3>2 DEF Change, BeginWrite, Shared, Files, Versions
                <3>. QED BY <1>1, <1>2, <3>1, <3>2, <3>3, <3>4 DEF Change, Shared
          <2>3. made <= made' /\ clock <= clock' /\ States \subseteq States'
                BY <1>1, <1>2, <2>2, StatesGrow DEF Change, Shared
          <2>4. made' \in 1 .. made' /\ Versions \subseteq Versions' /\ 1 .. made \subseteq 1 .. made'
                BY <1>1, <1>2 DEF Change, Shared, Versions
          <2>5. /\ proc'[p] \in States'
                /\ proc'[p].step = "writing"
                /\ proc'[p].mem = proc[p].mem \cup {made'}
                /\ proc'[p].pending = {made'}
                /\ proc'[p].writes = proc[p].writes /\ proc'[p].lastLoad = proc[p].lastLoad
                /\ proc'[p].dirty = proc[p].dirty /\ proc'[p].seen = proc[p].seen
                /\ proc'[p].readAt = proc[p].readAt /\ proc'[p].late = proc[p].late
                <3>1. proc[p] \in States' /\ {made'} \in Versions'
                      BY <1>1, <2>3, <2>4 DEF Versions
                <3>2. proc[p].mem \cup {made'} \in Versions'
                      BY <3>1 DEF States, Versions
                <3>. QED BY <2>1, <3>1, <3>2 DEF States, Steps
          <2>6. ProcOK(p)'
                BY <1>1, <1>2, <2>5
                DEF Change, BeginWrite, ProcOK, InStep, WriterOK, Saving
          <2>. QED BY <1>1, <1>2, <2>2, <2>3, <2>6, Moves DEF Change, BeginWrite, Goes
    <1>3. CASE ChangeAsync(p)
          <2>1. proc'[p] = [proc[p] EXCEPT !.mem = @ \cup {made'}, !.dirty = TRUE]
                BY <1>3 DEF ChangeAsync, Goes, IInv
          <2>2. Shared'
                BY <1>1, <1>3 DEF ChangeAsync, Shared, Files, Versions
          <2>3. made <= made' /\ clock <= clock' /\ States \subseteq States'
                BY <1>1, <1>3, <2>2, StatesGrow DEF ChangeAsync, Shared
          <2>4. made' \in 1 .. made' /\ Versions \subseteq Versions' /\ 1 .. made \subseteq 1 .. made'
                BY <1>1, <1>3 DEF ChangeAsync, Shared, Versions
          <2>5. /\ proc'[p] \in States'
                /\ proc'[p].mem = proc[p].mem \cup {made'}
                /\ proc'[p].step = proc[p].step /\ proc'[p].pending = proc[p].pending
                /\ proc'[p].writes = proc[p].writes /\ proc'[p].lastLoad = proc[p].lastLoad
                /\ proc'[p].seen = proc[p].seen /\ proc'[p].readAt = proc[p].readAt
                <3>1. proc[p] \in States' /\ {made'} \in Versions'
                      BY <1>1, <2>3, <2>4 DEF Versions
                <3>2. proc[p].mem \cup {made'} \in Versions'
                      BY <3>1 DEF States, Versions
                <3>. QED BY <2>1, <3>1, <3>2 DEF States, Steps
          <2>6. ProcOK(p)'
                BY <1>1, <1>3, <2>5 DEF ChangeAsync, ProcOK, InStep, WriterOK, Saving
          <2>. QED BY <1>1, <1>3, <2>2, <2>3, <2>6, Moves DEF ChangeAsync, Goes
    <1>4. CASE Flush(p)
          <2>1. proc'[p] = [proc[p] EXCEPT !.step = "writing"]
                BY <1>4 DEF Flush, BeginWrite, Goes, IInv
          <2>2. Shared' /\ States' = States
                BY <1>1, <1>4 DEF Flush, BeginWrite, Shared, Files, Versions, States
          <2>3. made <= made' /\ clock <= clock'
                BY <1>1, <1>4 DEF Flush, Shared
          <2>5. /\ proc'[p] \in States'
                /\ proc'[p].step = "writing"
                /\ proc'[p].mem = proc[p].mem /\ proc'[p].pending = proc[p].pending
                /\ proc'[p].writes = proc[p].writes /\ proc'[p].lastLoad = proc[p].lastLoad
                /\ proc'[p].seen = proc[p].seen /\ proc'[p].readAt = proc[p].readAt
                BY <1>1, <2>1, <2>2 DEF States, Steps
          <2>6. ProcOK(p)'
                BY <1>1, <1>4, <2>5
                DEF Flush, BeginWrite, ProcOK, InStep, WriterOK, Saving
          <2>. QED BY <1>1, <1>4, <2>2, <2>3, <2>6, Moves DEF Flush, BeginWrite, Goes
    <1>. QED BY <1>2, <1>3, <1>4

\* The writer goes on with its save.
LEMMA SaveIInv ==
    ASSUME IInv, NEW p \in Procs,
           EndWrite(p) \/ WriteFails(p) \/ Rename(p) \/ SaveDone(p)
    PROVE  IInv'
    <1>. USE SyncAssumption
    <1>1. proc[p] \in States /\ Shared /\ WriterOK(p) /\ proc[p].writes /\ p \in Writers
          BY WriterMoves
    <1>2. clock \in Nat /\ disk.mtime \in 0 .. clock
          BY <1>1 DEF Shared, Files
    <1>3. CASE EndWrite(p)
          <2>1. proc'[p] = [proc[p] EXCEPT !.step = "written"]
                BY <1>3 DEF EndWrite, Goes, IInv
          <2>2. clock' = clock + 1 /\ clock' \in 0 .. MaxWrites
                BY <1>1, <1>2, <1>3 DEF EndWrite, Shared
          <2>3. tmp' \in Files'
                BY <1>1, <1>2, <1>3, <2>2 DEF EndWrite, Files, Versions, States
          <2>4. disk' \in Files'
                BY <1>1, <1>2, <1>3, <2>2 DEF EndWrite, Shared, Files, Versions
          <2>5. Shared'
                BY <1>1, <1>3, <2>2, <2>3, <2>4 DEF EndWrite, Shared, Versions
          <2>6. made <= made' /\ clock <= clock' /\ States \subseteq States'
                BY <1>1, <1>2, <1>3, <2>2, <2>5, StatesGrow DEF EndWrite, Shared
          <2>7. /\ proc'[p] \in States'
                /\ proc'[p].step = "written"
                /\ proc'[p].mem = proc[p].mem /\ proc'[p].pending = proc[p].pending
                /\ proc'[p].writes = proc[p].writes /\ proc'[p].lastLoad = proc[p].lastLoad
                /\ proc'[p].seen = proc[p].seen /\ proc'[p].readAt = proc[p].readAt
                BY <1>1, <2>1, <2>6 DEF States, Steps
          <2>8. ProcOK(p)'
                BY <1>1, <1>2, <1>3, <2>2, <2>7 DEF EndWrite, ProcOK, InStep, WriterOK, Saving
          <2>. QED BY <1>1, <1>3, <2>5, <2>6, <2>8, Moves DEF EndWrite, Goes
    <1>4. CASE WriteFails(p)
          <2>1. proc'[p] = [proc[p] EXCEPT !.step = "free", !.pending = {}]
                BY <1>4 DEF WriteFails, Goes, IInv
          <2>2. /\ proc'[p] \in States'
                /\ proc'[p].step = "free" /\ proc'[p].pending = {}
                /\ proc'[p].mem = proc[p].mem /\ proc'[p].writes = proc[p].writes
                /\ proc'[p].lastLoad = proc[p].lastLoad /\ proc'[p].seen = proc[p].seen
                /\ proc'[p].readAt = proc[p].readAt
                BY <1>1, <1>4, <2>1 DEF WriteFails, States, Steps, Versions
          <2>3. ProcOK(p)'
                BY <1>1, <1>4, <2>2 DEF WriteFails, ProcOK, InStep, WriterOK, Saving
          <2>. QED BY <1>1, <1>4, <2>3, MovesAlone DEF WriteFails, Goes
    <1>5. CASE Rename(p)
          <2>1. proc'[p] = [proc[p] EXCEPT !.step = "renamed"]
                BY <1>5 DEF Rename, Goes, IInv
          <2>2. /\ tmp.whole /\ tmp.content = proc[p].mem /\ disk.mtime < tmp.mtime
                /\ disk.content \subseteq tmp.content /\ tmp \in Files /\ tmp.mtime \in Nat
                BY <1>1, <1>2, <1>5 DEF Rename, InStep, WriterOK, Shared, Files, Gone
          <2>3. Shared' /\ States' = States
                BY <1>1, <1>5, <2>2 DEF Rename, Shared, Files, Versions, States
          <2>4. made <= made' /\ clock <= clock'
                BY <1>1, <1>2, <1>5 DEF Rename, Shared
          <2>5. /\ proc'[p] \in States'
                /\ proc'[p].step = "renamed"
                /\ proc'[p].mem = proc[p].mem /\ proc'[p].pending = proc[p].pending
                /\ proc'[p].writes = proc[p].writes /\ proc'[p].lastLoad = proc[p].lastLoad
                /\ proc'[p].seen = proc[p].seen /\ proc'[p].readAt = proc[p].readAt
                BY <1>1, <2>1, <2>3 DEF States, Steps
          <2>6. proc[p].seen # NoTime => proc[p].seen <= disk'.mtime
                <3>1. proc[p].seen # NoTime => proc[p].seen \in Nat
                      BY <1>1, <1>2 DEF States
                <3>. QED BY <1>1, <1>2, <1>5, <2>2, <3>1 DEF Rename, WriterOK
          <2>7. ProcOK(p)'
                BY <1>1, <1>5, <2>2, <2>5, <2>6 DEF Rename, ProcOK, InStep, WriterOK, Saving
          <2>. QED BY <1>1, <1>5, <2>2, <2>3, <2>4, <2>7, Moves DEF Rename, Goes
    <1>6. CASE SaveDone(p)
          <2>1. proc'[p] = [proc[p] EXCEPT !.step = "free", !.lastLoad = clock,
                                !.dirty = FALSE, !.pending = {}, !.late = FALSE]
                BY <1>6 DEF SaveDone, Goes, IInv
          <2>2. proc[p].pending \subseteq disk.content
                BY <1>1, <1>6 DEF SaveDone, InStep, WriterOK
          <2>3. Shared' /\ States' = States
                BY <1>1, <1>6, <2>2 DEF SaveDone, Shared, Files, Versions, States
          <2>4. made <= made' /\ clock <= clock'
                BY <1>1, <1>2, <1>6 DEF SaveDone, Shared
          <2>5. /\ proc'[p] \in States'
                /\ proc'[p].step = "free" /\ proc'[p].lastLoad = clock
                /\ proc'[p].pending = {}
                /\ proc'[p].mem = proc[p].mem /\ proc'[p].writes = proc[p].writes
                /\ proc'[p].seen = proc[p].seen /\ proc'[p].readAt = proc[p].readAt
                <3>1. proc[p] \in States' /\ {} \in Versions' /\ clock \in (0 .. clock)'
                      BY <1>1, <1>2, <1>6, <2>3 DEF SaveDone, Versions
                <3>. QED BY <2>1, <3>1 DEF States, Steps
          <2>6. ProcOK(p)'
                BY <1>1, <1>2, <1>6, <2>5 DEF SaveDone, ProcOK, InStep, WriterOK, Saving
          <2>. QED BY <1>1, <1>6, <2>3, <2>4, <2>6, Moves DEF SaveDone, Goes
    <1>. QED BY <1>3, <1>4, <1>5, <1>6

----------------------------------------------------------------------------
\* The initial state satisfies the inductive invariant.
LEMMA InitIInv == Init => IInv
    <1>. SUFFICES ASSUME Init PROVE IInv
          OBVIOUS
    <1>. USE SyncAssumption
    <1>1. Down \in States
          BY DEF Init, Down, States, Steps, Versions
    <1>2. Shared
          BY DEF Init, Shared, Files, Versions
    <1>3. \A p \in Procs : ProcOK(p)
          BY <1>1 DEF Init, ProcOK, InStep, Down
    <1>4. OneWriter
          BY DEF Init, OneWriter, Writers, Running, Down
    <1>. QED BY <1>1, <1>2, <1>3, <1>4 DEF Init, IInv

\* Every step keeps it.
LEMMA NextIInv == IInv /\ [Next]_vars => IInv'
    <1>. SUFFICES ASSUME IInv, [Next]_vars PROVE IInv'
          OBVIOUS
    <1>1. CASE UNCHANGED vars
          BY <1>1 DEF vars, IInv, Shared, OneWriter, ProcOK, ReaderOK, WriterOK, States,
                      Files, Versions, Writers, Running, InStep
    <1>2. CASE Next
          BY <1>2, LoadIInv, StopIInv, ChangeIInv, SaveIInv DEF Next, Always
    <1>. QED BY <1>1, <1>2

\* With one process at a time that changes something, all of this holds in every
\* state.
THEOREM Invariance == Spec => []IInv
    BY InitIInv, NextIInv, PTL DEF Spec

\* Type correctness for any number of processes and changes.
THEOREM SyncTypeCorrect == Spec => []TypeOK
    <1>1. IInv => TypeOK
          <2>. SUFFICES ASSUME IInv PROVE TypeOK
                OBVIOUS
          <2>1. ASSUME NEW p \in Procs
                PROVE  proc[p] \in States /\ (proc[p].pending # {} => proc[p].step \in Saving)
                BY DEF IInv, ProcOK, InStep, ReaderOK, WriterOK, Down
          <2>. QED BY <2>1 DEF IInv, Shared, TypeOK, States, Steps, Saving
    <1>. QED BY Invariance, <1>1, PTL

\* storage.json can be parsed whenever somebody loads it: saveLocked writes the
\* temporary file and renames it, with one process at a time that writes.
THEOREM FileIsWhole == Spec => []DiskIsWhole
    <1>1. IInv => DiskIsWhole
          BY DEF IInv, Shared, DiskIsWhole
    <1>. QED BY Invariance, <1>1, PTL

\* A change that saveLocked has reported as saved stays in the file, whatever the
\* other processes load, and whichever process dies.
THEOREM SavedSurvives == Spec => []AckedSurvives
    <1>1. IInv => AckedSurvives
          BY DEF IInv, Shared, AckedSurvives
    <1>. QED BY Invariance, <1>1, PTL

\* A process that would not load, the file being no newer than its lastLoad, has
\* all that is in the file, although saveLocked sets lastLoad to the time it is
\* then.  It says nothing of a process whose last Load was late: the file was
\* replaced between its read and its stat, and such a process may lack something.
THEOREM UpToDateUnlessLate == Spec => []UpToDateIsCurrent
    <1>1. IInv => UpToDateIsCurrent
          <2>. SUFFICES ASSUME IInv, NEW p \in Running, InStep(p, "free"), ~ proc[p].late,
                               disk.mtime <= proc[p].lastLoad
                        PROVE  disk.content \subseteq proc[p].mem
                BY DEF UpToDateIsCurrent
          <2>1. p \in Procs /\ ProcOK(p) /\ ~ InStep(p, "down")
                BY DEF IInv, Running, InStep
          <2>2. CASE proc[p].writes
                BY <2>1, <2>2 DEF ProcOK, WriterOK
          <2>3. CASE ~ proc[p].writes
                <3>1. /\ proc[p].lastLoad = proc[p].readAt /\ proc[p].readAt <= disk.mtime
                      /\ proc[p].readAt = disk.mtime => proc[p].mem = disk.content
                      BY <2>1, <2>3 DEF ProcOK, ReaderOK, InStep
                <3>2. disk.mtime \in Nat /\ proc[p].readAt \in Nat
                      BY <2>1, SyncAssumption DEF IInv, Shared, Files, ProcOK, States
                <3>. QED BY <3>1, <3>2
          <2>. QED BY <2>2, <2>3
    <1>. QED BY Invariance, <1>1, PTL

=============================================================================
