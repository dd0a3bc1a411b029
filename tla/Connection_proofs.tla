-------------------------- MODULE Connection_proofs --------------------------
(***************************************************************************)
(* What the checked run of Connection shows for one instance, for any      *)
(* number of operations, retries and clients.                              *)
(*                                                                         *)
(* Beside the invariants themselves, the inductive one says that no prober *)
(* has a generation that is still to come, so that reconnect() supersedes  *)
(* them all at once, and that an abandoned call was made by an attempt     *)
(* that its operation has left behind.                                     *)
(***************************************************************************)
EXTENDS Connection, FiniteSetTheorems, TLAPS

\* An operation that is at an attempt, or ended with it.
Running == {"connecting", "calling", "ok", "done"}

\* The attempts of an operation that are over.
Over(w) == attempt[w] - (IF pc[w] \in Running THEN 1 ELSE 0)

AttemptsCounted ==
    \A w \in Workers :
        /\ pc[w] = "idle" <=> attempt[w] = 0
        /\ pc[w] = "backoff" => attempt[w] < MaxRetries

StuckIsOver == \A w \in Workers, a \in 1 .. MaxRetries : <<w, a>> \in stuck => a <= Over(w)

NoFutureProber == \A k \in Clients : prober[k].gen <= keepAliveGen

\* The inductive invariant.
IInv ==
    /\ TypeOK
    /\ OneConnection
    /\ WatchedByItsProber
    /\ AttemptsCounted
    /\ StuckIsOver
    /\ NoFutureProber

----------------------------------------------------------------------------
\* The initial state satisfies the inductive invariant.
LEMMA InitIInv == Init => IInv
    <1>. SUFFICES ASSUME Init PROVE IInv
          OBVIOUS
    <1>. USE ConnectionAssumption, NoClientAssumption
    <1>1. TypeOK
          <2>1. /\ 0 \in 0 .. ClientBound /\ 0 \in 0 .. MaxRetries /\ 0 \in Nat
                /\ "none" \in ProberSteps /\ "idle" \in WorkerSteps
                BY DEF ProberSteps, WorkerSteps
          <2>2. /\ prober \in [Clients -> [gen : Nat, pc : ProberSteps]]
                /\ pc \in [Workers -> WorkerSteps]
                /\ attempt \in [Workers -> 0 .. MaxRetries]
                /\ msg \in [Workers -> BOOLEAN]
                BY <2>1 DEF Init
          <2>. QED BY <2>1, <2>2 DEF Init, TypeOK
    <1>2. OneConnection /\ WatchedByItsProber /\ NoFutureProber
          BY DEF Init, OneConnection, WatchedByItsProber, Current, NoFutureProber
    <1>3. AttemptsCounted /\ StuckIsOver
          BY DEF Init, AttemptsCounted, StuckIsOver
    <1>. QED BY <1>1, <1>2, <1>3 DEF IInv

\* The part of the invariant that is about operations, for a step of one of them
\* that abandons no call.
LEMMA OperationMoves ==
    ASSUME IInv, NEW w \in Workers, NEW step \in WorkerSteps, NEW n \in 1 .. MaxRetries,
           pc' = [pc EXCEPT ![w] = step],
           attempt' = [attempt EXCEPT ![w] = n],
           stuck' \subseteq stuck,
           step # "idle",
           step = "backoff" => n < MaxRetries,
           Over(w) <= n,
           step \in Running => Over(w) <= n - 1
    PROVE  /\ pc' \in [Workers -> WorkerSteps]
           /\ attempt' \in [Workers -> 0 .. MaxRetries]
           /\ stuck' \subseteq Workers \X (1 .. MaxRetries)
           /\ AttemptsCounted' /\ StuckIsOver'
    <1>. USE ConnectionAssumption
    <1>1. /\ pc' \in [Workers -> WorkerSteps]
          /\ attempt' \in [Workers -> 0 .. MaxRetries]
          /\ stuck' \subseteq Workers \X (1 .. MaxRetries)
          BY DEF IInv, TypeOK
    <1>2. \A v \in Workers : /\ pc'[v] = IF v = w THEN step ELSE pc[v]
                             /\ attempt'[v] = IF v = w THEN n ELSE attempt[v]
          BY DEF IInv, TypeOK
    <1>3. AttemptsCounted'
          BY <1>2 DEF IInv, TypeOK, AttemptsCounted
    <1>4. ASSUME NEW v \in Workers, NEW a \in 1 .. MaxRetries, <<v, a>> \in stuck'
          PROVE  a <= Over(v)'
          <2>1. a <= Over(v) /\ Over(v) \in Int
                BY <1>4 DEF IInv, StuckIsOver, Over, TypeOK
          <2>2. CASE v = w
                <3>1. Over(v)' = n - (IF step \in Running THEN 1 ELSE 0)
                      BY <1>2, <2>2 DEF Over
                <3>. QED BY <2>1, <2>2, <3>1
          <2>3. CASE v # w
                BY <1>2, <2>1, <2>3 DEF Over
          <2>. QED BY <2>2, <2>3
    <1>. QED BY <1>1, <1>3, <1>4 DEF StuckIsOver

\* The same for the end of an attempt that failed.
LEMMA GivesUpOrBacksOff ==
    ASSUME IInv, NEW w \in Workers, pc[w] # "idle", Failed(w),
           attempt' = attempt, stuck' \subseteq stuck
    PROVE  /\ pc' \in [Workers -> WorkerSteps]
           /\ attempt' \in [Workers -> 0 .. MaxRetries]
           /\ stuck' \subseteq Workers \X (1 .. MaxRetries)
           /\ AttemptsCounted' /\ StuckIsOver'
    <1>. USE ConnectionAssumption
    <1>1. /\ attempt[w] \in 1 .. MaxRetries
          /\ attempt' = [attempt EXCEPT ![w] = attempt[w]]
          /\ Over(w) <= attempt[w]
          BY DEF IInv, TypeOK, AttemptsCounted, Over
    <1>2. /\ "err" \in WorkerSteps /\ "backoff" \in WorkerSteps
          /\ "err" \notin Running /\ "backoff" \notin Running
          BY DEF WorkerSteps, Running
    <1>3. CASE attempt[w] = MaxRetries
          <2>1. pc' = [pc EXCEPT ![w] = "err"]
                BY <1>3 DEF Failed
          <2>. QED BY <1>1, <1>2, <2>1, OperationMoves
    <1>4. CASE attempt[w] # MaxRetries
          <2>1. pc' = [pc EXCEPT ![w] = "backoff"] /\ attempt[w] < MaxRetries
                BY <1>1, <1>4 DEF Failed
          <2>. QED BY <1>1, <1>2, <2>1, OperationMoves
    <1>. QED BY <1>3, <1>4

\* The part of the invariant that is about the connection, for reconnect() and
\* Close(): nobody watches anything any more.
LEMMA DropMoves ==
    ASSUME IInv, DropClient,
           \A k \in Clients : prober'[k].gen = prober[k].gen,
           prober' \in [Clients -> [gen : Nat, pc : ProberSteps]]
    PROVE  /\ client' \in Clients \cup {NoClient} /\ made' \in 0 .. ClientBound
           /\ connected' \subseteq Clients /\ keepAliveGen' \in Nat
           /\ OneConnection' /\ WatchedByItsProber' /\ NoFutureProber'
    <1>. USE ConnectionAssumption, NoClientAssumption
    <1>1. /\ keepAliveGen' = keepAliveGen + 1 /\ keepAliveGen \in Nat
          /\ client' = NoClient /\ made' = made
          /\ connected' = {}
          BY DEF DropClient, IInv, TypeOK, OneConnection
    <1>2. \A k \in Clients : prober[k].gen \in Nat /\ prober[k].gen <= keepAliveGen
          BY DEF IInv, TypeOK, NoFutureProber
    <1>3. NoFutureProber' /\ Current' = {}
          BY <1>1, <1>2 DEF NoFutureProber, Current
    <1>. QED BY <1>1, <1>3 DEF IInv, TypeOK, OneConnection, WatchedByItsProber

\* The same for getClient() that connects: there was no client, so nothing was
\* connected, and the new prober is the only one of its generation.
LEMMA NewClientMoves ==
    ASSUME IInv, NewClient
    PROVE  /\ client' \in Clients \cup {NoClient} /\ made' \in 0 .. ClientBound
           /\ connected' \subseteq Clients /\ keepAliveGen' \in Nat
           /\ prober' \in [Clients -> [gen : Nat, pc : ProberSteps]]
           /\ OneConnection' /\ WatchedByItsProber' /\ NoFutureProber'
    <1>. USE ConnectionAssumption, NoClientAssumption
    <1>1. /\ client' = made + 1 /\ made' = made + 1 /\ made' \in 1 .. ClientBound
          /\ client' \in Clients /\ keepAliveGen \in Nat
          /\ connected' = {client'}
          BY DEF NewClient, IInv, TypeOK, OneConnection, Clients
    <1>2. \A k \in Clients : prober[k].gen \in Nat /\ prober[k].gen <= keepAliveGen
          BY DEF IInv, TypeOK, NoFutureProber
    <1>3. CASE KeepAliveSet
          <2>1. /\ keepAliveGen' = keepAliveGen + 1
                /\ prober' = [prober EXCEPT ![client'] =
                                    [gen |-> keepAliveGen + 1, pc |-> "waiting"]]
                BY <1>3 DEF NewClient
          <2>2. \A k \in Clients : prober'[k] =
                    IF k = client' THEN [gen |-> keepAliveGen + 1, pc |-> "waiting"]
                    ELSE prober[k]
                BY <1>1, <2>1 DEF IInv, TypeOK
          <2>3. prober' \in [Clients -> [gen : Nat, pc : ProberSteps]]
                BY <1>1, <2>1 DEF IInv, TypeOK, ProberSteps
          <2>4. NoFutureProber' /\ Current' = {client'}
                <3>1. \A k \in Clients : k # client' =>
                            prober'[k].gen \in Nat /\ prober'[k].gen <= keepAliveGen
                      BY <1>2, <2>2
                <3>2. /\ prober'[client'].gen = keepAliveGen + 1
                      /\ prober'[client'].pc = "waiting"
                      BY <1>1, <2>2
                <3>3. keepAliveGen' \in Nat /\ keepAliveGen < keepAliveGen'
                      BY <1>1, <2>1
                <3>4. \A k \in Clients : prober'[k].gen <= keepAliveGen'
                      BY <1>1, <2>1, <3>1, <3>2
                <3>5. \A k \in Clients : k # client' => prober'[k].gen # keepAliveGen'
                      BY <1>1, <2>1, <3>1
                <3>6. Current' = {client'}
                      BY <1>1, <2>1, <3>2, <3>5 DEF Current
                <3>. QED BY <3>4, <3>6 DEF NoFutureProber
          <2>. QED BY <1>1, <2>1, <2>3, <2>4 DEF OneConnection, WatchedByItsProber
    <1>4. CASE ~ KeepAliveSet
          BY <1>1, <1>2, <1>4 DEF NewClient, IInv, TypeOK, OneConnection,
                                  WatchedByItsProber, NoFutureProber
    <1>. QED BY <1>3, <1>4

----------------------------------------------------------------------------
\* The steps of an operation that do not concern the connection.
LEMMA WorkerIInv ==
    ASSUME IInv, NEW w \in Workers,
           \/ Begin(w) \/ ConnectFails(w) \/ CallReturns(w) \/ TimesOut(w)
           \/ Retry(w) \/ UseResult(w)
           \/ \E a \in 1 .. MaxRetries : LateReturn(w, a)
    PROVE  IInv'
    <1>. USE ConnectionAssumption
    <1>1. UNCHANGED <<connVars, prober>>
          BY DEF Begin, ConnectFails, CallReturns, TimesOut, Retry, UseResult, LateReturn
    <1>2. OneConnection' /\ WatchedByItsProber' /\ NoFutureProber'
          BY <1>1 DEF IInv, connVars, OneConnection, WatchedByItsProber, Current,
                      NoFutureProber
    <1>3. msg' \in [Workers -> BOOLEAN]
          BY DEF IInv, TypeOK, Begin, ConnectFails, CallReturns, TimesOut, Retry, UseResult,
                 LateReturn
    <1>4. /\ pc' \in [Workers -> WorkerSteps]
          /\ attempt' \in [Workers -> 0 .. MaxRetries]
          /\ stuck' \subseteq Workers \X (1 .. MaxRetries)
          /\ AttemptsCounted' /\ StuckIsOver'
          <2>1. /\ attempt[w] \in 0 .. MaxRetries /\ pc[w] \in WorkerSteps
                /\ pc[w] # "idle" => attempt[w] \in 1 .. MaxRetries
                /\ pc[w] = "idle" => attempt[w] = 0
                /\ attempt = [attempt EXCEPT ![w] = attempt[w]]
                BY DEF IInv, TypeOK, AttemptsCounted
          <2>2. CASE Begin(w)
                <3>1. /\ pc' = [pc EXCEPT ![w] = "connecting"]
                      /\ attempt' = [attempt EXCEPT ![w] = 1]
                      /\ stuck' \subseteq stuck
                      /\ Over(w) <= 1 /\ Over(w) <= 1 - 1
                      BY <2>1, <2>2 DEF Begin, Over, Running
                <3>2. /\ "connecting" \in WorkerSteps /\ 1 \in 1 .. MaxRetries
                      /\ "connecting" # "idle" /\ "connecting" # "backoff"
                      BY DEF WorkerSteps
                <3>. QED BY <3>1, <3>2, OperationMoves
          <2>3. CASE ConnectFails(w)
                <3>1. /\ pc[w] # "idle" /\ Failed(w)
                      /\ attempt' = attempt /\ stuck' \subseteq stuck
                      BY <2>3 DEF ConnectFails
                <3>. QED BY <3>1, GivesUpOrBacksOff
          <2>4. CASE CallReturns(w)
                <3>1. /\ attempt[w] \in 1 .. MaxRetries /\ Over(w) <= attempt[w]
                      /\ Over(w) <= attempt[w] - 1 /\ stuck' \subseteq stuck
                      /\ attempt' = [attempt EXCEPT ![w] = attempt[w]]
                      BY <2>1, <2>4 DEF CallReturns, Over, Running
                <3>2. /\ "ok" \in WorkerSteps /\ "failed" \in WorkerSteps
                      /\ "ok" # "idle" /\ "ok" # "backoff"
                      /\ "failed" # "idle" /\ "failed" # "backoff"
                      BY DEF WorkerSteps
                <3>3. CASE pc' = [pc EXCEPT ![w] = "ok"]
                      BY <2>1, <3>1, <3>2, <3>3, OperationMoves
                <3>4. CASE pc' = [pc EXCEPT ![w] = "failed"]
                      BY <2>1, <3>1, <3>2, <3>4, OperationMoves
                <3>. QED BY <2>4, <3>3, <3>4 DEF CallReturns
          <2>5. CASE TimesOut(w)
                <3>1. pc[w] = "calling" /\ pc' = [pc EXCEPT ![w] = "failed"]
                      /\ attempt' = attempt /\ stuck' = stuck \cup {<<w, attempt[w]>>}
                      BY <2>5 DEF TimesOut
                <3>2. \A v \in Workers : pc'[v] = IF v = w THEN "failed" ELSE pc[v]
                      BY <3>1 DEF IInv, TypeOK
                <3>3. \A v \in Workers : v # w => Over(v)' = Over(v)
                      BY <3>1, <3>2 DEF Over
                <3>4. Over(w)' = attempt[w] /\ Over(w) = attempt[w] - 1
                      BY <2>1, <3>1, <3>2 DEF Over, Running
                <3>5. StuckIsOver'
                      BY <2>1, <3>1, <3>3, <3>4 DEF IInv, StuckIsOver
                <3>6. AttemptsCounted'
                      BY <2>1, <3>1, <3>2 DEF IInv, AttemptsCounted
                <3>. QED BY <2>1, <3>1, <3>5, <3>6 DEF IInv, TypeOK, WorkerSteps
          <2>6. CASE Retry(w)
                <3>1. PICK n \in 1 .. MaxRetries : n = attempt[w] + 1
                      BY <2>1, <2>6 DEF Retry, IInv, AttemptsCounted
                <3>2. /\ pc' = [pc EXCEPT ![w] = "connecting"]
                      /\ attempt' = [attempt EXCEPT ![w] = n]
                      /\ stuck' \subseteq stuck
                      /\ Over(w) <= n /\ Over(w) <= n - 1
                      BY <2>1, <2>6, <3>1 DEF Retry, Over, Running
                <3>3. /\ "connecting" \in WorkerSteps
                      /\ "connecting" # "idle" /\ "connecting" # "backoff"
                      BY DEF WorkerSteps
                <3>. QED BY <3>2, <3>3, OperationMoves
          <2>7. CASE UseResult(w)
                <3>1. /\ attempt[w] \in 1 .. MaxRetries /\ Over(w) <= attempt[w]
                      /\ Over(w) <= attempt[w] - 1 /\ stuck' \subseteq stuck
                      /\ pc' = [pc EXCEPT ![w] = "done"]
                      /\ attempt' = [attempt EXCEPT ![w] = attempt[w]]
                      BY <2>1, <2>7 DEF UseResult, Over, Running
                <3>2. /\ "done" \in WorkerSteps
                      /\ "done" # "idle" /\ "done" # "backoff"
                      BY DEF WorkerSteps
                <3>. QED BY <2>1, <3>1, <3>2, OperationMoves
          <2>8. CASE \E a \in 1 .. MaxRetries : LateReturn(w, a)
                <3>1. pc' = pc /\ attempt' = attempt /\ stuck' \subseteq stuck
                      BY <2>8 DEF LateReturn
                <3>. QED BY <3>1 DEF IInv, TypeOK, AttemptsCounted, StuckIsOver, Over
          <2>. QED BY <2>2, <2>3, <2>4, <2>5, <2>6, <2>7, <2>8
    <1>. QED BY <1>1, <1>2, <1>3, <1>4 DEF IInv, TypeOK, connVars

\* The steps of an operation that connect or tear down.
LEMMA ConnectIInv ==
    ASSUME IInv, NEW w \in Workers, GetClient(w) \/ WorkerReconnects(w)
    PROVE  IInv'
    <1>. USE ConnectionAssumption
    <1>1. /\ attempt[w] \in 0 .. MaxRetries /\ pc[w] \in WorkerSteps
          /\ pc[w] # "idle" => attempt[w] \in 1 .. MaxRetries
          /\ attempt = [attempt EXCEPT ![w] = attempt[w]]
          BY DEF IInv, TypeOK, AttemptsCounted
    <1>2. CASE GetClient(w)
          <2>1. /\ pc' \in [Workers -> WorkerSteps]
                /\ attempt' \in [Workers -> 0 .. MaxRetries]
                /\ stuck' \subseteq Workers \X (1 .. MaxRetries)
                /\ AttemptsCounted' /\ StuckIsOver'
                <3>1. /\ attempt[w] \in 1 .. MaxRetries /\ Over(w) <= attempt[w]
                      /\ Over(w) <= attempt[w] - 1 /\ stuck' \subseteq stuck
                      /\ pc' = [pc EXCEPT ![w] = "calling"]
                      /\ attempt' = [attempt EXCEPT ![w] = attempt[w]]
                      BY <1>1, <1>2 DEF GetClient, StartCall, Over, Running
                <3>2. /\ "calling" \in WorkerSteps
                      /\ "calling" # "idle" /\ "calling" # "backoff"
                      BY DEF WorkerSteps
                <3>. QED BY <1>1, <3>1, <3>2, OperationMoves
          <2>2. msg' \in [Workers -> BOOLEAN] /\ closed' \in BOOLEAN
                BY <1>2 DEF GetClient, StartCall, IInv, TypeOK
          <2>3. CASE UNCHANGED <<client, made, connected, keepAliveGen, prober>>
                BY <2>1, <2>2, <2>3 DEF IInv, TypeOK, OneConnection, WatchedByItsProber,
                                        Current, NoFutureProber
          <2>4. CASE NewClient
                BY <2>1, <2>2, <2>4, NewClientMoves DEF IInv, TypeOK
          <2>. QED BY <1>2, <2>3, <2>4 DEF GetClient
    <1>3. CASE WorkerReconnects(w)
          <2>1. /\ pc' \in [Workers -> WorkerSteps]
                /\ attempt' \in [Workers -> 0 .. MaxRetries]
                /\ stuck' \subseteq Workers \X (1 .. MaxRetries)
                /\ AttemptsCounted' /\ StuckIsOver'
                <3>1. /\ pc[w] # "idle" /\ Failed(w)
                      /\ attempt' = attempt /\ stuck' \subseteq stuck
                      BY <1>3 DEF WorkerReconnects
                <3>. QED BY <3>1, GivesUpOrBacksOff
          <2>2. msg' \in [Workers -> BOOLEAN] /\ closed' \in BOOLEAN
                BY <1>3 DEF WorkerReconnects, IInv, TypeOK
          <2>3. prober' = prober /\ prober \in [Clients -> [gen : Nat, pc : ProberSteps]]
                BY <1>3 DEF WorkerReconnects, IInv, TypeOK
          <2>. QED BY <1>3, <2>1, <2>2, <2>3, DropMoves DEF WorkerReconnects, IInv, TypeOK
    <1>. QED BY <1>2, <1>3

\* The steps of a prober, and Close.
LEMMA ProberIInv ==
    ASSUME IInv, Close \/ \E k \in Clients : ProberStep(k)
    PROVE  IInv'
    <1>1. UNCHANGED workerVars
          BY DEF Close, ProberStep, ProberTick, ProbeEnds, ProberReconnects, ProberMoves
    <1>2. /\ pc' \in [Workers -> WorkerSteps]
          /\ attempt' \in [Workers -> 0 .. MaxRetries]
          /\ stuck' \subseteq Workers \X (1 .. MaxRetries)
          /\ msg' \in [Workers -> BOOLEAN]
          /\ AttemptsCounted' /\ StuckIsOver'
          BY <1>1 DEF workerVars, IInv, TypeOK, AttemptsCounted, StuckIsOver, Over
    <1>3. CASE Close
          <2>1. /\ prober' = prober /\ prober \in [Clients -> [gen : Nat, pc : ProberSteps]]
                /\ closed' \in BOOLEAN
                BY <1>3 DEF Close, IInv, TypeOK
          <2>. QED BY <1>2, <1>3, <2>1, DropMoves DEF Close, IInv, TypeOK
    <1>4. ASSUME NEW k \in Clients, ProberStep(k) PROVE IInv'
          <2>1. PICK to \in ProberSteps : prober' = [prober EXCEPT ![k].pc = to]
                BY <1>4 DEF ProberStep, ProberTick, ProbeEnds, ProberReconnects, ProberMoves,
                            ProberSteps
          <2>2. /\ prober' \in [Clients -> [gen : Nat, pc : ProberSteps]]
                /\ \A j \in Clients : prober'[j].gen = prober[j].gen
                /\ prober'[k].pc = to
                /\ \A j \in Clients : j # k => prober'[j] = prober[j]
                BY <2>1 DEF IInv, TypeOK
          <2>3. closed' \in BOOLEAN
                BY <1>4 DEF ProberStep, ProberTick, ProbeEnds, ProberReconnects, ProberMoves,
                            IInv, TypeOK
          <2>4. CASE ProberReconnects(k)
                BY <1>2, <2>2, <2>3, <2>4, DropMoves DEF ProberReconnects, IInv, TypeOK
          <2>5. CASE ProberTick(k) \/ ProbeEnds(k)
                <3>1. UNCHANGED <<client, made, connected, keepAliveGen>>
                      BY <2>5 DEF ProberTick, ProbeEnds, connVars
                <3>2. NoFutureProber' /\ OneConnection'
                      BY <2>2, <3>1 DEF IInv, NoFutureProber, OneConnection
                <3>3. KeepAliveSet => Current' = Current
                      <4>1. /\ prober[k].pc \notin {"none", "gone"}
                            /\ to # "none"
                            /\ to = "gone" => Superseded(k)
                            BY <2>1, <2>2, <2>5
                            DEF ProberTick, ProbeEnds, ProberMoves, IInv, TypeOK
                      <4>2. KeepAliveSet /\ Superseded(k) => k \notin Current
                            BY NoClientAssumption DEF Superseded, Current, IInv, WatchedByItsProber
                      <4>3. \A j \in Clients : j # k => (j \in Current' <=> j \in Current)
                            BY <2>2, <3>1 DEF Current
                      <4>4. KeepAliveSet => (k \in Current' <=> k \in Current)
                            BY <2>2, <3>1, <4>1, <4>2 DEF Current
                      <4>. QED BY <4>3, <4>4 DEF Current
                <3>4. WatchedByItsProber'
                      BY <3>1, <3>3 DEF IInv, WatchedByItsProber
                <3>. QED BY <1>2, <2>2, <2>3, <3>1, <3>2, <3>4 DEF IInv, TypeOK
          <2>. QED BY <1>4, <2>4, <2>5 DEF ProberStep
    <1>. QED BY <1>3, <1>4

----------------------------------------------------------------------------
\* The inductive invariant holds in every state.
THEOREM Invariance == Spec => []IInv
    <1>1. IInv /\ [Next]_vars => IInv'
          <2>. SUFFICES ASSUME IInv, [Next]_vars PROVE IInv'
                OBVIOUS
          <2>1. CASE UNCHANGED vars
                BY <2>1 DEF vars, connVars, workerVars, IInv, TypeOK, OneConnection,
                            WatchedByItsProber, Current, AttemptsCounted, StuckIsOver, Over,
                            NoFutureProber
          <2>2. CASE Next
                BY <2>2, WorkerIInv, ConnectIInv, ProberIInv DEF Next, OperationStep
          <2>. QED BY <2>1, <2>2
    <1>. QED BY InitIInv, <1>1, PTL DEF Spec

\* Type correctness for any number of operations, retries and clients.
THEOREM ConnectionTypeCorrect == Spec => []TypeOK
    <1>1. IInv => TypeOK
          BY DEF IInv
    <1>. QED BY Invariance, <1>1, PTL

\* No connection is lost track of by getClient, reconnect and Close, whoever calls
\* them in whatever order.
THEOREM OnlyOneConnection == Spec => []OneConnection
    <1>1. IInv => OneConnection
          BY DEF IInv
    <1>. QED BY Invariance, <1>1, PTL

\* The generations of startKeepAliveLocked and reconnect leave exactly the prober
\* of the client in use current.
THEOREM ClientIsWatched == Spec => []WatchedByItsProber
    <1>1. IInv => WatchedByItsProber
          BY DEF IInv
    <1>. QED BY Invariance, <1>1, PTL

\* An operation leaves at most one stuck call behind for each attempt that is over
\* (runWithTimeout, withRetry).
THEOREM StuckCallsAreBounded == Spec => []StuckBounded
    <1>1. ASSUME IInv, NEW w \in Workers
          PROVE  Cardinality({c \in stuck : c[1] = w}) <= Over(w)
          <2>. DEFINE S == {c \in stuck : c[1] = w}
                      f == [c \in S |-> c[2]]
          <2>. USE ConnectionAssumption
          <2>1. attempt[w] \in Nat /\ (attempt[w] = 0 => pc[w] = "idle")
                BY <1>1 DEF IInv, TypeOK, AttemptsCounted
          <2>2. Over(w) \in Nat
                BY <2>1 DEF Over, Running
          <2>3. \A c \in S : c = <<w, c[2]>> /\ c[2] \in 1 .. Over(w)
                <3>1. \A c \in S : c = <<w, c[2]>> /\ c[2] \in 1 .. MaxRetries
                      BY <1>1 DEF IInv, TypeOK
                <3>. QED BY <1>1, <2>2, <3>1 DEF IInv, StuckIsOver
          <2>4. f \in [S -> 1 .. Over(w)]
                BY <2>3
          <2>5. \A c, d \in S : f[c] = f[d] => c = d
                BY <2>3
          <2>. HIDE DEF f, S
          <2>6. f \in Injection(S, 1 .. Over(w))
                BY <2>4, <2>5 DEF Injection, IsInjective
          <2>7. IsFiniteSet(1 .. Over(w)) /\ Cardinality(1 .. Over(w)) = Over(w)
                BY <2>2, FS_Interval
          <2>8. Cardinality(S) <= Cardinality(1 .. Over(w))
                BY <2>6, <2>7, FS_Injection
          <2>. QED BY <2>7, <2>8 DEF S
    <1>2. IInv => StuckBounded
          BY <1>1 DEF StuckBounded, Over, Running
    <1>. QED BY Invariance, <1>2, PTL
=============================================================================
