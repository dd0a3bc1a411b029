-------------------------- MODULE Frontends_proofs --------------------------
(***************************************************************************)
(* What the checked run of Frontends shows for one instance, for any       *)
(* number of clients, names and bytes.                                     *)
(*                                                                         *)
(* The inductive invariant says of a transfer that a cut is known to the   *)
(* handle if it is one of FTP, and that only what may be published is      *)
(* uploaded; and of an entry that is complete that its size is on record.  *)
(***************************************************************************)
EXTENDS Frontends, TLAPS

Kinds == {"ftp", "dav"}

Transfers ==
    [step : {"writing", "uploading"}, kind : Kinds, name : Names,
     sent : 0 .. Full, cut : BOOLEAN, aborted : BOOLEAN]

Listings == [step : {"listing"}, left : SUBSET Names, infos : SUBSET (Names \X (0 .. Full))]

States == {Idle} \cup Transfers \cup Listings \cup {[step |-> "rmd"]}

Entries == [complete : BOOLEAN, size : 0 .. Full, kind : Kinds]

Typed ==
    /\ entries \in [Names -> Entries \cup {NoEntry}]
    /\ folder \in BOOLEAN
    /\ clients \in [Clients -> States]
    /\ temps \subseteq Clients
    /\ shown \subseteq Names \X (1 .. Full)

TempsAreOfTransfers ==
    \A c \in Clients : c \in temps <=> clients[c].step \in {"writing", "uploading"}

LookedUpOnce ==
    \A c \in Clients :
        InStep(c, "listing") => \A info \in clients[c].infos : info[1] \notin clients[c].left

CutIsKnown ==
    \A c \in Clients :
        /\ clients[c].step \in {"writing", "uploading"} =>
            (clients[c].kind = "ftp" /\ clients[c].cut => clients[c].aborted)
        /\ clients[c].step = "uploading" =>
            /\ clients[c].sent > 0
            /\ ~ clients[c].aborted
            /\ clients[c].cut \/ clients[c].sent = Full

CompleteIsShown == \A n \in Names : Complete(n) => <<n, entries[n].size>> \in shown

\* The inductive invariant.
IInv ==
    /\ Typed
    /\ TempsAreOfTransfers
    /\ LookedUpOnce
    /\ CutIsKnown
    /\ CompleteIsShown
    /\ StorIsWhole
    /\ NoPartialSize

----------------------------------------------------------------------------
\* Every state of a client is of the kind that its step says.
LEMMA StatesByStep ==
    ASSUME NEW s \in States
    PROVE  /\ s.step = "idle" => s = Idle
           /\ s.step \in {"writing", "uploading"} => s \in Transfers
           /\ s.step = "listing" => s \in Listings
           /\ s.step \in {"idle", "writing", "uploading", "listing", "rmd"}
    BY DEF States, Idle, Transfers, Listings

\* The initial state satisfies the inductive invariant.
LEMMA InitIInv == Init => IInv
    <1>. SUFFICES ASSUME Init PROVE IInv
          OBVIOUS
    <1>1. \A c \in Clients : clients[c].step = "idle"
          BY DEF Init, Idle
    <1>2. Typed
          BY FrontAssumption DEF Init, Typed, States
    <1>3. TempsAreOfTransfers /\ LookedUpOnce /\ CutIsKnown /\ NoPartialSize
          BY <1>1 DEF Init, TempsAreOfTransfers, LookedUpOnce, CutIsKnown,
                      NoPartialSize, InStep
    <1>4. CompleteIsShown /\ StorIsWhole
          BY DEF Init, CompleteIsShown, StorIsWhole, Complete
    <1>. QED BY <1>2, <1>3, <1>4 DEF IInv

\* A step of one client that leaves the entries alone, and moves it to a state
\* that is as the invariant wants it.
LEMMA ClientMoves ==
    ASSUME IInv, NEW c \in Clients, NEW s \in States,
           clients' = [clients EXCEPT ![c] = s],
           UNCHANGED <<entries, folder, shown>>,
           temps' = IF s.step \in {"writing", "uploading"} THEN temps \cup {c}
                    ELSE temps \ {c},
           s.step = "listing" =>
               \A info \in s.infos :
                   info[1] \notin s.left /\ (info[2] = 0 \/ info \in shown),
           s.step \in {"writing", "uploading"} =>
               (s.kind = "ftp" /\ s.cut => s.aborted),
           s.step = "uploading" =>
               s.sent > 0 /\ ~ s.aborted /\ (s.cut \/ s.sent = Full)
    PROVE  IInv'
    <1>. USE DEF IInv
    <1>1. clients' \in [Clients -> States]
          BY DEF Typed
    <1>2. \A d \in Clients : clients'[d] = IF d = c THEN s ELSE clients[d]
          BY DEF Typed
    <1>3. Typed'
          BY <1>1 DEF Typed
    <1>4. TempsAreOfTransfers'
          BY <1>2 DEF TempsAreOfTransfers
    <1>5. LookedUpOnce'
          BY <1>2 DEF LookedUpOnce, InStep
    <1>6. CutIsKnown'
          BY <1>2 DEF CutIsKnown
    <1>7. CompleteIsShown' /\ StorIsWhole'
          BY DEF CompleteIsShown, StorIsWhole, Complete
    <1>8. NoPartialSize'
          BY <1>2 DEF NoPartialSize, InStep
    <1>. QED BY <1>3, <1>4, <1>5, <1>6, <1>7, <1>8

\* A step that changes the entries, and no client.
LEMMA EntriesMove ==
    ASSUME IInv,
           entries' \in [Names -> Entries \cup {NoEntry}],
           folder' \in BOOLEAN,
           UNCHANGED <<clients, temps, shown>>,
           \A n \in Names :
               \/ entries'[n] = entries[n]
               \/ entries'[n] = NoEntry
               \/ ~ entries'[n].complete
    PROVE  IInv'
    <1>. USE DEF IInv
    <1>1. Typed'
          BY DEF Typed
    <1>2. CompleteIsShown'
          BY DEF CompleteIsShown, Complete
    <1>3. StorIsWhole'
          BY DEF StorIsWhole, Complete
    <1>4. /\ TempsAreOfTransfers' /\ LookedUpOnce' /\ CutIsKnown' /\ NoPartialSize'
          BY DEF TempsAreOfTransfers, LookedUpOnce, CutIsKnown, NoPartialSize, InStep
    <1>. QED BY <1>1, <1>2, <1>3, <1>4

\* The end of an upload: the entry is what was sent, and on record.
LEMMA UploadedIInv ==
    ASSUME IInv, NEW c \in Clients, Uploaded(c)
    PROVE  IInv'
    <1>. DEFINE t == clients[c]
    <1>1. t.step = "uploading" /\ t \in Transfers
          BY StatesByStep DEF Uploaded, InStep, IInv, Typed
    <1>2. t.sent \in 1 .. Full /\ t.name \in Names /\ t.kind \in Kinds
          BY <1>1, FrontAssumption DEF Transfers, IInv, CutIsKnown
    <1>3. \A d \in Clients : clients'[d] = IF d = c THEN Idle ELSE clients[d]
          BY DEF Uploaded, Goes, IInv, Typed
    <1>4. \A n \in Names : entries'[n] =
            IF n = t.name THEN [complete |-> TRUE, size |-> t.sent, kind |-> t.kind]
            ELSE entries[n]
          BY DEF Uploaded, IInv, Typed
    <1>5. shown \subseteq shown' /\ <<t.name, t.sent>> \in shown'
          BY DEF Uploaded
    <1>6. Typed'
          <2>1. entries' \in [Names -> Entries \cup {NoEntry}]
                BY <1>2, FrontAssumption DEF Uploaded, IInv, Typed, Entries
          <2>2. clients' \in [Clients -> States]
                BY DEF Uploaded, Goes, IInv, Typed, States
          <2>3. shown' \subseteq Names \X (1 .. Full)
                BY <1>2 DEF Uploaded, IInv, Typed
          <2>. QED BY <2>1, <2>2, <2>3 DEF Uploaded, IInv, Typed
    <1>7. TempsAreOfTransfers' /\ LookedUpOnce' /\ CutIsKnown'
          BY <1>3 DEF Uploaded, IInv, TempsAreOfTransfers, LookedUpOnce, CutIsKnown,
                      InStep, Idle
    <1>8. CompleteIsShown'
          BY <1>4, <1>5 DEF IInv, CompleteIsShown, Complete
    <1>9. StorIsWhole'
          <2>1. t.kind = "ftp" => t.sent = Full
                BY <1>1 DEF IInv, CutIsKnown
          <2>. QED BY <1>4, <2>1 DEF IInv, StorIsWhole, Complete
    <1>10. NoPartialSize'
          BY <1>3, <1>5 DEF IInv, NoPartialSize, InStep, Idle
    <1>. QED BY <1>6, <1>7, <1>8, <1>9, <1>10 DEF IInv

\* A listing goes on as a listing.
LEMMA ListingChanges ==
    ASSUME NEW l \in Listings, NEW left \in SUBSET Names,
           NEW infos \in SUBSET (Names \X (0 .. Full))
    PROVE  [l EXCEPT !.left = left, !.infos = infos] \in Listings
    BY DEF Listings

\* One more name of a listing: the size is that of a complete entry, which is on
\* record.
LEMMA LookUpIInv ==
    ASSUME IInv, NEW c \in Clients, NEW n \in Names, LookUp(c, n)
    PROVE  IInv'
    <1>. DEFINE s == [clients[c] EXCEPT !.left = @ \ {n},
                                        !.infos = @ \cup {<<n, SizeOfEntry(n)>>}]
    <1>1. clients[c] \in Listings
          BY StatesByStep DEF LookUp, InStep, IInv, Typed
    <1>2. SizeOfEntry(n) \in 0 .. Full
          BY FrontAssumption DEF SizeOfEntry, Complete, IInv, Typed, Entries
    <1>3. SizeOfEntry(n) = 0 \/ <<n, SizeOfEntry(n)>> \in shown
          BY DEF SizeOfEntry, IInv, CompleteIsShown
    <1>4. s \in Listings /\ s.step = "listing"
          <2>1. clients[c].left \ {n} \in SUBSET Names
                BY <1>1 DEF Listings
          <2>2. clients[c].infos \cup {<<n, SizeOfEntry(n)>>} \in SUBSET (Names \X (0 .. Full))
                BY <1>1, <1>2 DEF Listings
          <2>3. s \in Listings
                BY <1>1, <2>1, <2>2, ListingChanges
          <2>. HIDE DEF s
          <2>. QED BY <2>3 DEF Listings
    <1>5. /\ s.left = clients[c].left \ {n}
          /\ s.infos = clients[c].infos \cup {<<n, SizeOfEntry(n)>>}
          BY <1>1 DEF Listings
    <1>6. \A info \in s.infos : info[1] \notin s.left /\ (info[2] = 0 \/ info \in shown)
          BY <1>3, <1>5 DEF LookUp, IInv, LookedUpOnce, NoPartialSize
    <1>7. temps' = temps \ {c}
          BY DEF LookUp, InStep, IInv, TempsAreOfTransfers
    <1>. HIDE DEF s
    <1>8. clients' = [clients EXCEPT ![c] = s]
          BY DEF LookUp, Goes, s
    <1>. QED BY <1>4, <1>6, <1>7, <1>8, ClientMoves DEF LookUp, States

\* The steps of a transfer, up to its upload and when that has failed.
LEMMA TransferIInv ==
    ASSUME IInv, NEW c \in Clients,
           \/ \E n \in Names, kind \in Kinds : Open(c, kind, n)
           \/ Write(c) \/ Cut(c) \/ CloseDiscards(c) \/ CloseUploads(c) \/ UploadFails(c)
    PROVE  IInv'
    <1>. DEFINE t == clients[c]
    <1>1. t.step \in {"writing", "uploading"} => t \in Transfers
          BY StatesByStep DEF IInv, Typed
    <1>2. ASSUME NEW n \in Names, NEW kind \in Kinds, Open(c, kind, n) PROVE IInv'
          <2>. DEFINE s == [step |-> "writing", kind |-> kind, name |-> n, sent |-> 0,
                            cut |-> FALSE, aborted |-> FALSE]
          <2>1. s \in Transfers
                BY FrontAssumption DEF Transfers
          <2>. QED BY <1>2, <2>1, ClientMoves DEF Open, Goes, States
    <1>3. CASE Write(c)
          <2>. DEFINE s == [t EXCEPT !.sent = @ + 1]
          <2>1. t \in Transfers /\ t.step = "writing" /\ ~ t.cut /\ t.sent < Full
                BY <1>1, <1>3 DEF Write, InStep
          <2>2. s \in Transfers /\ s.step = "writing" /\ s.cut = t.cut
                BY <2>1, FrontAssumption DEF Transfers
          <2>3. temps' = temps \cup {c}
                BY <1>3, <2>1 DEF Write, IInv, TempsAreOfTransfers
          <2>. HIDE DEF s
          <2>4. clients' = [clients EXCEPT ![c] = s]
                BY <1>3 DEF Write, Goes, s
          <2>. QED BY <1>3, <2>1, <2>2, <2>3, <2>4, ClientMoves DEF Write, States
    <1>4. CASE Cut(c)
          <2>. DEFINE s == [t EXCEPT !.cut = TRUE, !.aborted = (t.kind = "ftp")]
          <2>1. t \in Transfers /\ t.step = "writing"
                BY <1>1, <1>4 DEF Cut, InStep
          <2>2. s \in Transfers /\ s.step = "writing" /\ (s.kind = "ftp" => s.aborted)
                BY <2>1 DEF Transfers
          <2>3. temps' = temps \cup {c}
                BY <1>4, <2>1 DEF Cut, IInv, TempsAreOfTransfers
          <2>. HIDE DEF s
          <2>4. clients' = [clients EXCEPT ![c] = s]
                BY <1>4 DEF Cut, Goes, s
          <2>. QED BY <1>4, <2>2, <2>3, <2>4, ClientMoves DEF Cut, States
    <1>5. CASE CloseDiscards(c)
          BY <1>5, ClientMoves DEF CloseDiscards, Goes, Idle, States
    <1>6. CASE CloseUploads(c)
          <2>. DEFINE s == [t EXCEPT !.step = "uploading"]
          <2>1. t \in Transfers /\ t.step = "writing"
                BY <1>1, <1>6 DEF CloseUploads, InStep
          <2>2. /\ s \in Transfers /\ s.step = "uploading"
                /\ s.sent > 0 /\ ~ s.aborted /\ (s.cut \/ s.sent = Full)
                /\ s.kind = "ftp" /\ s.cut => s.aborted
                BY <1>6, <2>1 DEF CloseUploads, Transfers, IInv, CutIsKnown
          <2>3. temps' = temps \cup {c}
                BY <1>6, <2>1 DEF CloseUploads, IInv, TempsAreOfTransfers
          <2>. HIDE DEF s
          <2>4. clients' = [clients EXCEPT ![c] = s]
                BY <1>6 DEF CloseUploads, Goes, s
          <2>. QED BY <1>6, <2>2, <2>3, <2>4, ClientMoves DEF CloseUploads, States
    <1>7. CASE UploadFails(c)
          BY <1>7, ClientMoves DEF UploadFails, Goes, Idle, States
    <1>. QED BY <1>2, <1>3, <1>4, <1>5, <1>6, <1>7

\* What is recorded while an upload runs is not complete, and what is removed is
\* not there.
LEMMA EntriesIInv ==
    ASSUME IInv, NEW c \in Clients,
           \/ \E size \in 0 .. Full : Progress(c, size)
           \/ \E n \in Names : Remove(c, n)
    PROVE  IInv'
    <1>1. ASSUME NEW size \in 0 .. Full, Progress(c, size) PROVE IInv'
          <2>. DEFINE e == [complete |-> FALSE, size |-> size, kind |-> clients[c].kind]
          <2>1. clients[c] \in Transfers
                BY <1>1, StatesByStep DEF Progress, InStep, IInv, Typed
          <2>2. e \in Entries /\ ~ e.complete
                BY <2>1 DEF Entries, Transfers
          <2>. HIDE DEF e
          <2>3. entries' = [entries EXCEPT ![clients[c].name] = e]
                BY <1>1 DEF Progress, e
          <2>4. entries' \in [Names -> Entries \cup {NoEntry}]
                BY <2>2, <2>3 DEF IInv, Typed
          <2>5. \A n \in Names : entries'[n] = entries[n] \/ ~ entries'[n].complete
                BY <2>2, <2>3 DEF IInv, Typed
          <2>. QED BY <1>1, <2>4, <2>5, EntriesMove DEF Progress
    <1>2. ASSUME NEW n \in Names, Remove(c, n) PROVE IInv'
          <2>1. /\ entries' \in [Names -> Entries \cup {NoEntry}]
                /\ \A m \in Names : entries'[m] \in {entries[m], NoEntry}
                BY <1>2 DEF Remove, IInv, Typed
          <2>. QED BY <1>2, <2>1, EntriesMove DEF Remove, IInv, Typed
    <1>. QED BY <1>1, <1>2

\* RMD, whose second step removes what is in the folder by then.
LEMMA FolderIInv ==
    ASSUME IInv, NEW c \in Clients, RemoveDir(c) \/ DeleteDir(c)
    PROVE  IInv'
    <1>1. CASE RemoveDir(c)
          <2>1. temps' = temps \ {c}
                BY <1>1 DEF RemoveDir, InStep, IInv, TempsAreOfTransfers
          <2>. QED BY <1>1, <2>1, ClientMoves DEF RemoveDir, Goes, States
    <1>2. CASE DeleteDir(c)
          <2>1. \A d \in Clients : clients'[d] = IF d = c THEN Idle ELSE clients[d]
                BY <1>2 DEF DeleteDir, Goes, IInv, Typed
          <2>2. \A n \in Names : entries'[n] \in {entries[n], NoEntry}
                BY <1>2 DEF DeleteDir
          <2>3. Typed'
                <3>1. entries' \in [Names -> Entries \cup {NoEntry}]
                      BY <1>2 DEF DeleteDir, IInv, Typed
                <3>2. clients' \in [Clients -> States]
                      BY <1>2 DEF DeleteDir, Goes, IInv, Typed, States
                <3>. QED BY <1>2, <3>1, <3>2 DEF DeleteDir, IInv, Typed
          <2>4. TempsAreOfTransfers'
                BY <1>2, <2>1 DEF DeleteDir, IInv, TempsAreOfTransfers, InStep, Idle
          <2>5. LookedUpOnce' /\ CutIsKnown' /\ NoPartialSize'
                BY <1>2, <2>1 DEF DeleteDir, IInv, LookedUpOnce, CutIsKnown,
                                  NoPartialSize, InStep, Idle
          <2>6. CompleteIsShown' /\ StorIsWhole'
                BY <1>2, <2>2 DEF DeleteDir, IInv, CompleteIsShown, StorIsWhole, Complete
          <2>. QED BY <2>3, <2>4, <2>5, <2>6 DEF IInv
    <1>. QED BY <1>1, <1>2

\* The beginning and the end of a listing.
LEMMA ListIInv ==
    ASSUME IInv, NEW c \in Clients, List(c) \/ Listed(c)
    PROVE  IInv'
    <1>1. temps' = temps \ {c}
          BY DEF List, Listed, InStep, IInv, TempsAreOfTransfers
    <1>2. CASE List(c)
          <2>. DEFINE s == [step |-> "listing", left |-> {n \in Names : Complete(n)},
                            infos |-> {}]
          <2>1. s \in Listings /\ s.step = "listing" /\ s.infos = {}
                BY DEF Listings
          <2>. HIDE DEF s
          <2>2. clients' = [clients EXCEPT ![c] = s]
                BY <1>2 DEF List, Goes, s
          <2>. QED BY <1>1, <1>2, <2>1, <2>2, ClientMoves DEF List, States
    <1>3. CASE Listed(c)
          BY <1>1, <1>3, ClientMoves DEF Listed, Goes, Idle, States
    <1>. QED BY <1>2, <1>3

----------------------------------------------------------------------------
\* The inductive invariant holds in every state.
THEOREM Invariance == Spec => []IInv
    <1>1. IInv /\ [Next]_vars => IInv'
          <2>. SUFFICES ASSUME IInv, [Next]_vars PROVE IInv'
                OBVIOUS
          <2>1. CASE UNCHANGED vars
                BY <2>1 DEF vars, IInv, Typed, TempsAreOfTransfers, LookedUpOnce,
                            CutIsKnown, CompleteIsShown, StorIsWhole, NoPartialSize,
                            Complete, InStep
          <2>2. CASE Next
                BY <2>2, TransferIInv, UploadedIInv, LookUpIInv, EntriesIInv,
                   FolderIInv, ListIInv DEF Next, Kinds
          <2>. QED BY <2>1, <2>2
    <1>. QED BY InitIInv, <1>1, PTL DEF Spec

\* A request has a temporary file exactly while it has to have one, for any
\* number of clients (newFTPUploadHandle, newDavWriteFile and their Close).
THEOREM FrontTypeCorrect == Spec => []TypeOK
    <1>1. IInv => TypeOK
          <2>. SUFFICES ASSUME IInv PROVE TypeOK
                OBVIOUS
          <2>1. \A n \in Names : entries[n] # NoEntry => entries[n].size \in 0 .. Full
                BY DEF IInv, Typed, Entries
          <2>2. ASSUME NEW c \in Clients
                PROVE  clients[c].step \in {"idle", "writing", "uploading", "listing", "rmd"}
                BY StatesByStep DEF IInv, Typed
          <2>3. ASSUME NEW c \in Clients, InStep(c, "listing")
                PROVE  /\ clients[c].left \subseteq Names
                       /\ \A info \in clients[c].infos :
                            info[1] \in Names /\ info[1] \notin clients[c].left
                <3>1. clients[c] \in Listings
                      BY <2>3, StatesByStep DEF InStep, IInv, Typed
                <3>. QED BY <2>3, <3>1 DEF Listings, IInv, LookedUpOnce
          <2>. QED BY <2>1, <2>2, <2>3 DEF TypeOK, IInv, Typed, TempsAreOfTransfers
    <1>. QED BY Invariance, <1>1, PTL

\* What an FTP client stores is there as a whole or not at all, whatever byte a
\* transfer is cut at (TransferError and Close of ftpUploadHandle).
THEOREM StoredIsWhole == Spec => []StorIsWhole
    <1>1. IInv => StorIsWhole
          BY DEF IInv
    <1>. QED BY Invariance, <1>1, PTL

\* A size that ReadDir and Readdir give is one of a complete file of that name, or
\* 0 for an entry that is hidden or gone since the listing: the check of Incomplete
\* after GetEntry keeps the progress of an upload out of it.
THEOREM NoPartialSizeListed == Spec => []NoPartialSize
    <1>1. IInv => NoPartialSize
          BY DEF IInv
    <1>. QED BY Invariance, <1>1, PTL
=============================================================================
