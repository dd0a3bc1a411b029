----------------------------- MODULE Frontends -----------------------------
(***************************************************************************)
(* The clients of the FTP and WebDAV servers (ftp.go, webdav.go) in one    *)
(* folder: uploads that are collected in a temporary file first, listings  *)
(* that look every name up again, and RMD, which looks before it deletes.  *)
(*                                                                         *)
(* Between the calls of one request those of other clients run.  What      *)
(* Upload does to the entry of a path is Module Upload; here it records    *)
(* some of the bytes, then all of them or nothing more.  The libraries     *)
(* decide when a transfer was cut and call Close in either case, after     *)
(* TransferError for FTP and after nothing for WebDAV.                     *)
(***************************************************************************)
EXTENDS Integers, FiniteSets

CONSTANTS
    Clients, Names,
    Full,           \* the bytes of a whole file
    NoEntry

ASSUME FrontAssumption == Full \in Nat

VARIABLES
    entries,        \* of the folder, by name
    folder,         \* whether the folder has its marker
    clients,        \* the request each client has made
    temps,          \* the clients whose temporary file exists
    shown           \* the sizes each name has had as a complete file

vars == <<entries, folder, clients, temps, shown>>

Idle == [step |-> "idle"]

InStep(c, step) == clients[c].step = step

Goes(c, state) == clients' = [clients EXCEPT ![c] = state]

Complete(n) == entries[n] # NoEntry /\ entries[n].complete

----------------------------------------------------------------------------
(* STOR and PUT.                                                           *)

\* newFTPUploadHandle and newDavWriteFile.
Open(c, kind, n) ==
    /\ InStep(c, "idle")
    /\ Goes(c, [step |-> "writing", kind |-> kind, name |-> n, sent |-> 0,
                cut |-> FALSE, aborted |-> FALSE])
    /\ temps' = temps \cup {c}
    /\ UNCHANGED <<entries, folder, shown>>

Write(c) ==
    /\ InStep(c, "writing")
    /\ ~ clients[c].cut /\ clients[c].sent < Full
    /\ Goes(c, [clients[c] EXCEPT !.sent = @ + 1])
    /\ UNCHANGED <<entries, folder, temps, shown>>

\* Mutant: the library's call of TransferError changes nothing.
Cut_Unnoticed(c) ==
    /\ InStep(c, "writing")
    /\ ~ clients[c].cut
    /\ Goes(c, [clients[c] EXCEPT !.cut = TRUE])
    /\ UNCHANGED <<entries, folder, temps, shown>>

\* The connection drops, the client gives up, or a write fails.
Cut(c) ==
    /\ InStep(c, "writing")
    /\ ~ clients[c].cut
    /\ Goes(c, [clients[c] EXCEPT !.cut = TRUE, !.aborted = clients[c].kind = "ftp"])
    /\ UNCHANGED <<entries, folder, temps, shown>>

\* Mutant: the temporary file stays when nothing is uploaded.
CloseDiscards_Kept(c) ==
    /\ InStep(c, "writing")
    /\ clients[c].cut
    /\ clients[c].aborted \/ clients[c].sent = 0
    /\ Goes(c, Idle)
    /\ UNCHANGED <<entries, folder, temps, shown>>

\* Close of an aborted transfer or an empty file.
CloseDiscards(c) ==
    /\ InStep(c, "writing")
    /\ clients[c].cut
    /\ clients[c].aborted \/ clients[c].sent = 0
    /\ Goes(c, Idle)
    /\ temps' = temps \ {c}
    /\ UNCHANGED <<entries, folder, shown>>

\* Close of any other.
CloseUploads(c) ==
    /\ InStep(c, "writing")
    /\ clients[c].cut \/ clients[c].sent = Full
    /\ ~ clients[c].aborted /\ clients[c].sent > 0
    /\ Goes(c, [clients[c] EXCEPT !.step = "uploading"])
    /\ UNCHANGED <<entries, folder, temps, shown>>

\* AddFile and AddFileAsync, which make the folder again if it is gone.
Progress(c, size) ==
    /\ InStep(c, "uploading")
    /\ size <= clients[c].sent
    /\ entries' = [entries EXCEPT ![clients[c].name] =
                    [complete |-> FALSE, size |-> size, kind |-> clients[c].kind]]
    /\ folder' = TRUE
    /\ UNCHANGED <<clients, temps, shown>>

\* Upload returns, and then Close.
Uploaded(c) ==
    /\ InStep(c, "uploading")
    /\ entries' = [entries EXCEPT ![clients[c].name] =
                    [complete |-> TRUE, size |-> clients[c].sent, kind |-> clients[c].kind]]
    /\ folder' = TRUE
    /\ shown' = shown \cup {<<clients[c].name, clients[c].sent>>}
    /\ Goes(c, Idle)
    /\ temps' = temps \ {c}

UploadFails(c) ==
    /\ InStep(c, "uploading")
    /\ Goes(c, Idle)
    /\ temps' = temps \ {c}
    /\ UNCHANGED <<entries, folder, shown>>

----------------------------------------------------------------------------
(* Folders.                                                                *)

\* DELE; RemoveAll of WebDAV does not look for the entry first.
Remove(c, n) ==
    /\ InStep(c, "idle")
    /\ entries[n] # NoEntry
    /\ entries' = [entries EXCEPT ![n] = NoEntry]
    /\ UNCHANGED <<folder, clients, temps, shown>>

\* RMD: the marker and the listing are looked at,
RemoveDir(c) ==
    /\ InStep(c, "idle")
    /\ folder
    /\ \A n \in Names : ~ Complete(n)
    /\ Goes(c, [step |-> "rmd"])
    /\ UNCHANGED <<entries, folder, temps, shown>>

\* and the folder is deleted with what is in it by now.
DeleteDir(c) ==
    /\ InStep(c, "rmd")
    /\ entries' = IF folder THEN [n \in Names |-> NoEntry] ELSE entries
    /\ folder' = FALSE
    /\ Goes(c, Idle)
    /\ UNCHANGED <<temps, shown>>

\* ReadDir and Readdir: fs.List,
List(c) ==
    /\ InStep(c, "idle")
    /\ Goes(c, [step |-> "listing", left |-> {n \in Names : Complete(n)}, infos |-> {}])
    /\ UNCHANGED <<entries, folder, temps, shown>>

\* Mutant: what has been listed is taken to be complete.
SizeOfEntry_Any(n) == IF entries[n] = NoEntry THEN 0 ELSE entries[n].size

SizeOfEntry(n) == IF Complete(n) THEN entries[n].size ELSE 0

\* then GetEntry for each of its items,
LookUp(c, n) ==
    /\ InStep(c, "listing")
    /\ n \in clients[c].left
    /\ Goes(c, [clients[c] EXCEPT !.left = @ \ {n}, !.infos = @ \cup {<<n, SizeOfEntry(n)>>}])
    /\ UNCHANGED <<entries, folder, temps, shown>>

\* and the answer.
Listed(c) ==
    /\ InStep(c, "listing")
    /\ clients[c].left = {}
    /\ Goes(c, Idle)
    /\ UNCHANGED <<entries, folder, temps, shown>>

----------------------------------------------------------------------------
Init ==
    /\ entries = [n \in Names |-> NoEntry]
    /\ folder = FALSE
    /\ clients = [c \in Clients |-> Idle]
    /\ temps = {}
    /\ shown = {}

Next ==
    \E c \in Clients :
        \/ \E n \in Names, kind \in {"ftp", "dav"} : Open(c, kind, n)
        \/ Write(c) \/ Cut(c) \/ CloseDiscards(c) \/ CloseUploads(c)
        \/ \E size \in 0 .. Full : Progress(c, size)
        \/ Uploaded(c) \/ UploadFails(c)
        \/ \E n \in Names : Remove(c, n) \/ LookUp(c, n)
        \/ RemoveDir(c) \/ DeleteDir(c) \/ List(c) \/ Listed(c)

Spec == Init /\ [][Next]_vars

----------------------------------------------------------------------------
\* A client is in one request, which has a temporary file exactly while bytes
\* are collected and uploaded: none is left behind, whichever way Close goes.
TypeOK ==
    /\ \A n \in Names : entries[n] # NoEntry => entries[n].size \in 0 .. Full
    /\ shown \subseteq Names \X (1 .. Full)
    /\ \A c \in Clients :
        /\ clients[c].step \in {"idle", "writing", "uploading", "listing", "rmd"}
        /\ InStep(c, "listing") =>
            /\ clients[c].left \subseteq Names
            /\ \A info \in clients[c].infos : info[1] \in Names /\ info[1] \notin clients[c].left
        /\ c \in temps <=> clients[c].step \in {"writing", "uploading"}

\* What an FTP client has stored is there as a whole or not at all: a transfer
\* that was cut at any byte, with other clients at work on the same name, leaves
\* no file that ends early.
StorIsWhole ==
    \A n \in Names : Complete(n) /\ entries[n].kind = "ftp" => entries[n].size = Full

\* No listing shows how far an upload has come: the size it gives is one the name
\* has had as a complete file, or 0 when the entry is hidden or gone by the time
\* it is looked up.  The entry of an item can be replaced by an upload after the
\* listing, so that this rests on the check of Incomplete that ReadDir and Readdir
\* call a defensive second layer.
NoPartialSize ==
    \A c \in Clients :
        InStep(c, "listing") =>
            \A info \in clients[c].infos : info[2] = 0 \/ info \in shown
=============================================================================
