----------------------------- MODULE Connection -----------------------------
(***************************************************************************)
(* The Telegram connection of a FileSystem: getClient, reconnect, Close,   *)
(* the keep-alive probers, and the operations that run on it through       *)
(* withClientRetry, withRetry and runWithTimeout.                          *)
(*                                                                         *)
(* Clients are numbered in the order getClient makes them; the prober that *)
(* startKeepAliveLocked starts for a client has the number of the client.  *)
(* A call on a client may return, return an error, or hang; what is behind *)
(* the client is external and may do any of these at any time.  Backoff,   *)
(* FLOOD_WAIT and the interval of the probers are time that passes.  Each  *)
(* worker stands for one operation, the SendMedia of a chunk.              *)
(***************************************************************************)
EXTENDS Integers, FiniteSets

CONSTANTS
    Workers,            \* goroutines inside withClientRetry
    MaxRetries,
    TimeoutSet,         \* whether OperationTimeout > 0
    KeepAliveSet,       \* whether KeepAliveInterval > 0
    ClientBound,        \* bound of the model: how many connects can succeed
    NoClient

ASSUME ConnectionAssumption ==
    /\ MaxRetries \in Nat \ {0}
    /\ ClientBound \in Nat
    /\ TimeoutSet \in BOOLEAN
    /\ KeepAliveSet \in BOOLEAN

Clients == 1 .. ClientBound
ASSUME NoClientAssumption == NoClient \notin Clients

VARIABLES
    client,         \* fs.client
    made,           \* how many clients getClient has made
    connected,      \* the clients that have not been disconnected
    keepAliveGen,
    closed,         \* whether Close has been called (a process does it once)
    prober,         \* per client: its prober
    pc,             \* per worker: where its operation is
    attempt,        \* the attempt withRetry is at
    stuck,          \* calls that were abandoned and still run: <<worker, attempt>>
    msg             \* per worker: whether the variable msg, which every attempt
                    \* assigns, is not nil

connVars == <<client, made, connected, keepAliveGen, closed>>
workerVars == <<pc, attempt, stuck, msg>>
vars == <<connVars, prober, workerVars>>

\* A prober waits for its ticker, is inside runWithTimeout, has seen an error
\* and is about to call reconnect, or has returned.
ProberSteps == {"none", "waiting", "probing", "failed", "gone"}
WorkerSteps == {"idle", "connecting", "calling", "failed", "backoff",
                "ok", "err", "done"}

----------------------------------------------------------------------------
(* The locked operations of FileSystem.                                    *)

\* Mutants: the client is forgotten, not disconnected; the generation stays.
DropClient_Leaks ==
    /\ keepAliveGen' = keepAliveGen + 1
    /\ client' = NoClient
    /\ UNCHANGED <<connected, made>>

DropClient_SameGen ==
    /\ connected' = connected \ {client}
    /\ client' = NoClient
    /\ UNCHANGED <<keepAliveGen, made>>

\* reconnect(), and Close() with the same effect.
DropClient ==
    /\ keepAliveGen' = keepAliveGen + 1
    /\ connected' = connected \ {client}
    /\ client' = NoClient
    /\ UNCHANGED made

\* getClient() when there is no client: NewClient and Connect, under the lock,
\* and the start of a prober.
NewClient ==
    /\ client = NoClient
    /\ made < ClientBound
    /\ made' = made + 1
    /\ client' = made'
    /\ connected' = connected \cup {client'}
    /\ IF KeepAliveSet
       THEN /\ keepAliveGen' = keepAliveGen + 1
            /\ prober' = [prober EXCEPT ![client'] =
                                [gen |-> keepAliveGen', pc |-> "waiting"]]
       ELSE UNCHANGED <<keepAliveGen, prober>>

Close ==
    /\ ~ closed
    /\ closed' = TRUE
    /\ DropClient
    /\ UNCHANGED <<prober, workerVars>>

----------------------------------------------------------------------------
(* An operation of a worker.                                               *)

Begin(w) ==
    /\ pc[w] = "idle"
    /\ pc' = [pc EXCEPT ![w] = "connecting"]
    /\ attempt' = [attempt EXCEPT ![w] = 1]
    /\ UNCHANGED <<connVars, prober, stuck, msg>>

StartCall(w) ==
    /\ pc' = [pc EXCEPT ![w] = "calling"]
    /\ UNCHANGED <<closed, attempt, stuck, msg>>

GetClient(w) ==
    /\ pc[w] = "connecting"
    /\ \/ client # NoClient /\ UNCHANGED <<client, made, connected, keepAliveGen, prober>>
       \/ NewClient
    /\ StartCall(w)

\* Mutant: one attempt too many.
Failed_OneMore(w) ==
    pc' = [pc EXCEPT ![w] = IF attempt[w] > MaxRetries THEN "err" ELSE "backoff"]

\* After a failed attempt withRetry backs off, or gives up.
Failed(w) ==
    pc' = [pc EXCEPT ![w] = IF attempt[w] = MaxRetries THEN "err" ELSE "backoff"]

\* No proxy, no route, no answer: the error goes to withRetry as it is.
ConnectFails(w) ==
    /\ pc[w] = "connecting"
    /\ client = NoClient
    /\ Failed(w)
    /\ UNCHANGED <<connVars, prober, attempt, stuck, msg>>

\* The call of the attempt returns in time; SendMedia sets msg, to nil if it
\* returns an error.
CallReturns(w) ==
    /\ pc[w] = "calling"
    /\ \/ /\ pc' = [pc EXCEPT ![w] = "ok"]
          /\ msg' = [msg EXCEPT ![w] = TRUE]
       \/ /\ pc' = [pc EXCEPT ![w] = "failed"]
          /\ msg' = [msg EXCEPT ![w] = FALSE]
    /\ UNCHANGED <<connVars, prober, attempt, stuck>>

\* The deadline passes first: the goroutine of the call is left running.
TimesOut(w) ==
    /\ TimeoutSet
    /\ pc[w] = "calling"
    /\ pc' = [pc EXCEPT ![w] = "failed"]
    /\ stuck' = stuck \cup {<<w, attempt[w]>>}
    /\ UNCHANGED <<connVars, prober, attempt, msg>>

\* ... and it returns later, or never.
LateReturn(w, a) ==
    /\ <<w, a>> \in stuck
    /\ stuck' = stuck \ {<<w, a>>}
    /\ \E sent \in BOOLEAN : msg' = [msg EXCEPT ![w] = sent]
    /\ UNCHANGED <<connVars, prober, pc, attempt>>

WorkerReconnects(w) ==
    /\ pc[w] = "failed"
    /\ DropClient
    /\ Failed(w)
    /\ UNCHANGED <<closed, prober, attempt, stuck, msg>>

\* Mutant: the attempts are not counted.
Retry_Uncounted(w) ==
    /\ pc[w] = "backoff"
    /\ pc' = [pc EXCEPT ![w] = "connecting"]
    /\ UNCHANGED <<connVars, prober, attempt, stuck, msg>>

Retry(w) ==
    /\ pc[w] = "backoff"
    /\ pc' = [pc EXCEPT ![w] = "connecting"]
    /\ attempt' = [attempt EXCEPT ![w] = attempt[w] + 1]
    /\ UNCHANGED <<connVars, prober, stuck, msg>>

\* uploadOne goes on with msg.
UseResult(w) ==
    /\ pc[w] = "ok"
    /\ pc' = [pc EXCEPT ![w] = "done"]
    /\ UNCHANGED <<connVars, prober, attempt, stuck, msg>>

----------------------------------------------------------------------------
(* The prober of client k.                                                 *)

ProberMoves(k, from, to) ==
    /\ prober[k].pc = from
    /\ prober' = [prober EXCEPT ![k].pc = to]
    /\ UNCHANGED <<closed, workerVars>>

Superseded(k) == prober[k].gen # keepAliveGen \/ client = NoClient

\* Mutant: a superseded prober only skips the probe.
ProberTick_Stays(k) ==
    /\ ProberMoves(k, "waiting", IF Superseded(k) THEN "waiting" ELSE "probing")
    /\ UNCHANGED connVars

ProberTick(k) ==
    /\ ProberMoves(k, "waiting", IF Superseded(k) THEN "gone" ELSE "probing")
    /\ UNCHANGED connVars

\* GetMe answers, or it fails or times out.
ProbeEnds(k) ==
    /\ \E to \in {"waiting", "failed"} : ProberMoves(k, "probing", to)
    /\ UNCHANGED connVars

ProberReconnects(k) ==
    /\ ProberMoves(k, "failed", "gone")
    /\ DropClient

----------------------------------------------------------------------------
Init ==
    /\ client = NoClient
    /\ made = 0
    /\ connected = {}
    /\ keepAliveGen = 0
    /\ closed = FALSE
    /\ prober = [k \in Clients |-> [gen |-> 0, pc |-> "none"]]
    /\ pc = [w \in Workers |-> "idle"]
    /\ attempt = [w \in Workers |-> 0]
    /\ stuck = {}
    /\ msg = [w \in Workers |-> FALSE]

OperationStep(w) ==
    \/ GetClient(w) \/ ConnectFails(w)
    \/ CallReturns(w) \/ TimesOut(w)
    \/ WorkerReconnects(w) \/ Retry(w) \/ UseResult(w)

ProberStep(k) == ProberTick(k) \/ ProbeEnds(k) \/ ProberReconnects(k)

Next ==
    \/ \E w \in Workers :
        \/ Begin(w)
        \/ OperationStep(w)
        \/ \E a \in 1 .. MaxRetries : LateReturn(w, a)
    \/ \E k \in Clients : ProberStep(k)
    \/ Close

Spec == Init /\ [][Next]_vars

\* Goroutines that can run do; the deadline makes every call and every probe
\* end; tickers tick and sleeps end.  Nothing makes a stuck call return.
Fairness ==
    /\ \A w \in Workers : WF_vars(OperationStep(w))
    /\ \A k \in Clients : WF_vars(ProberStep(k))

FairSpec == Spec /\ Fairness

----------------------------------------------------------------------------
(* Properties.                                                             *)

TypeOK ==
    /\ client \in Clients \cup {NoClient}
    /\ made \in 0 .. ClientBound
    /\ connected \subseteq Clients
    /\ keepAliveGen \in Nat
    /\ closed \in BOOLEAN
    /\ prober \in [Clients -> [gen : Nat, pc : ProberSteps]]
    /\ pc \in [Workers -> WorkerSteps]
    /\ attempt \in [Workers -> 0 .. MaxRetries]
    /\ stuck \subseteq Workers \X (1 .. MaxRetries)
    /\ msg \in [Workers -> BOOLEAN]

\* No connection is lost track of: whatever mix of failed workers, probers and
\* Close tears the client down, the one in fs.client is the only one open.
OneConnection == connected = {client} \ {NoClient}

\* The probers that have not been superseded and have not returned.
Current == {k \in Clients : /\ prober[k].pc \notin {"none", "gone"}
                            /\ prober[k].gen = keepAliveGen}

\* The generation counter does what it is for: the client in use is watched by
\* its own prober and by no other one, and a prober that counts itself current
\* never watches a client that is gone.
WatchedByItsProber ==
    KeepAliveSet => Current = {client} \ {NoClient}

\* A call that is done was made by an attempt that was counted, so that stuck
\* goroutines are "bounded by MaxRetries overall" (filesystem.go:279): at any
\* time an operation has left behind at most one for each attempt before this.
StuckBounded ==
    \A w \in Workers :
        Cardinality({c \in stuck : c[1] = w})
            <= attempt[w] - (IF pc[w] \in {"connecting", "calling", "ok", "done"}
                             THEN 1 ELSE 0)

\* Every operation ends, however its calls, its connects and the probers fail:
\* a connection that swallows everything delays it for MaxRetries deadlines.
OperationEnds ==
    \A w \in Workers : pc[w] = "connecting" ~> pc[w] \in {"err", "done"}

\* A prober whose client has been replaced returns.
SupersededProberEnds ==
    \A k \in Clients :
        prober[k].pc = "waiting" /\ Superseded(k) ~> prober[k].pc = "gone"
=============================================================================
