--------------------------- MODULE ClientLifecycle ---------------------------
(***************************************************************************)
(* A client from Connect to Close: the facade's read-write lock, Connect of *)
(* the two bindings around binding.Handshake, CoreClient with its state     *)
(* machine, closeOnce, background loops and fatalTeardown, and the client   *)
(* transport with its write token.  Each member of Connects is one call of  *)
(* Connect and stands for the connection and the transport it creates.      *)
(***************************************************************************)
EXTENDS Integers, FiniteSets

CONSTANTS
    Connects, Closes, Sends, \* calls of Connect, Close and SendBatch
    Clients,                 \* the clients looked at: binding, and whether used
                             \* through mbta.Client
    None

ASSUME ClientConstantsOK == Clients \subseteq [binding : {"v1", "ntls"}, facade : BOOLEAN]

VARIABLES
    kind,      \* which of Clients this is
    mu,        \* the facade's lock: who holds it for writing, and who for reading
    client,    \* facade: c.client # nil
    cConn,     \* binding: c.conn
    tr,        \* CoreClient.tr
    trConn,    \* transports whose conn is set
    picker,    \* v1: transports whose stream picker is stored
    open,      \* open connections
    sm,        \* Idle, Ready, Draining, Closed
    closed,    \* CoreClient.closed
    life,      \* lifecycle context: none, live, cancelled
    writeSem,  \* transports whose write token is free
    trClosed,  \* ntlsClientTransport.closed
    connect,   \* where each call of Connect is
    once,      \* closeOnce and the step of close it is in
    onceBy,
    close,     \* where each call of Close is
    reader,    \* ReadControlLoop, with the steps of fatalTeardown
    workers,   \* heartbeat, reaper and result worker: none, running, ended
    send,      \* where each call of SendBatch is
    sendTr,    \* the transport it uses
    nilUse     \* some call went through a nil conn

lockVars == <<mu, client>>
bindVars == <<cConn, tr, trConn, picker>>
netVars == <<open, writeSem, trClosed>>
coreVars == <<sm, closed, life>>
onceVars == <<once, onceBy>>
loopVars == <<reader, workers>>
sendVars == <<send, sendTr>>
clientVars == <<kind, lockVars, bindVars, netVars, coreVars, connect, onceVars, close, loopVars,
                sendVars, nilUse>>

Init ==
    /\ kind \in Clients
    /\ mu = [w |-> None, r |-> {}] /\ client = TRUE
    /\ cConn = None /\ tr = None /\ trConn = {} /\ picker = {}
    /\ open = {} /\ sm = "Idle" /\ closed = FALSE /\ life = "none"
    /\ writeSem = Connects /\ trClosed = {}
    /\ connect = [k \in Connects |-> "idle"]
    /\ once = "new" /\ onceBy = None
    /\ close = [c \in Closes |-> "idle"]
    /\ reader = "none" /\ workers = "none"
    /\ send = [s \in Sends |-> "idle"] /\ sendTr = [s \in Sends |-> None]
    /\ nilUse = FALSE

(* The facade's lock; without the facade there is none. *)
Lock(p) == IF kind.facade THEN mu.w = None /\ mu.r = {} /\ mu' = [mu EXCEPT !.w = p] ELSE UNCHANGED mu
Unlock == mu' = [mu EXCEPT !.w = None]
RLock(p) == IF kind.facade THEN mu.w = None /\ mu' = [mu EXCEPT !.r = @ \cup {p}] ELSE UNCHANGED mu
RUnlock(p) == mu' = [mu EXCEPT !.r = @ \ {p}]

(* The state machine: its table, a transition that may be refused, and      *)
(* ForceClosed, which is never refused.                                     *)
clientTransitions ==
    [Idle |-> {"Ready", "Closed"}, Ready |-> {"Draining", "Closed"}, Draining |-> {"Closed"},
     Closed |-> {}]
CanTransition(next) == next \in clientTransitions[sm]
ForceClosed == sm' = "Closed"

ConnectAt(k, pc) == connect[k] = pc
ConnectGoes(k, pc) == connect' = [connect EXCEPT ![k] = pc]

-----------------------------------------------------------------------------
(* Connect.                                                                 *)

ConnectRest == UNCHANGED <<kind, onceVars, close, sendVars, nilUse>>

(* Closed or already connected: refused. *)
Connect(k) ==
    /\ ConnectAt(k, "idle") /\ Lock(k)
    /\ ConnectGoes(k, IF ~client \/ cConn # None \/ closed THEN "failed" ELSE "dial")
    /\ UNCHANGED <<client, bindVars, netVars, coreVars, loopVars>> /\ ConnectRest

(* Mutant: no second look at c.conn after the dial. *)
DialOverwrites(k) ==
    /\ ConnectAt(k, "dial")
    /\ cConn' = k /\ trConn' = trConn \cup {k} /\ open' = open \cup {k}
    /\ ConnectGoes(k, "setup")
    /\ UNCHANGED <<lockVars, tr, picker, writeSem, trClosed, coreVars, loopVars>> /\ ConnectRest

(* The dial callback: dial, then look again at c.conn under the lock; the   *)
(* loser of a race closes its own connection.                               *)
Dial(k) ==
    /\ ConnectAt(k, "dial")
    /\ IF cConn = None
       THEN /\ cConn' = k /\ trConn' = trConn \cup {k} /\ open' = open \cup {k}
            /\ ConnectGoes(k, "setup")
       ELSE ConnectGoes(k, "failed") /\ UNCHANGED <<cConn, trConn, open>>
    /\ UNCHANGED <<lockVars, tr, picker, writeSem, trClosed, coreVars, loopVars>> /\ ConnectRest

(* A failed dial leaves the client as it was.  Dial itself closes the       *)
(* connection whose handshake fails or that comes after its context ended.  *)
DialFails(k) ==
    /\ ConnectAt(k, "dial") /\ ConnectGoes(k, "failed")
    /\ UNCHANGED <<lockVars, bindVars, netVars, coreVars, loopVars>> /\ ConnectRest

(* setupTransport; v1 opens the control stream first, which may fail. *)
SetupTransport(k) ==
    /\ ConnectAt(k, "setup")
    /\ \/ tr' = k /\ ConnectGoes(k, "hello")
       \/ kind.binding = "v1" /\ UNCHANGED tr /\ ConnectGoes(k, "abandon")
    /\ UNCHANGED <<lockVars, cConn, trConn, picker, netVars, coreVars, loopVars>> /\ ConnectRest

(* CoreClient.Handshake up to the HELLO_ACK or a failure. *)
Handshake(k) ==
    /\ ConnectAt(k, "hello")
    /\ \/ k \in open /\ ConnectGoes(k, "acked")
       \/ ConnectGoes(k, "abandon")
    /\ UNCHANGED <<lockVars, bindVars, netVars, coreVars, loopVars>> /\ ConnectRest

(* Its last step: Idle to Ready, refused when Close came first. *)
HandshakeReady(k) ==
    /\ ConnectAt(k, "acked")
    /\ IF CanTransition("Ready")
       THEN sm' = "Ready" /\ ConnectGoes(k, IF kind.binding = "v1" THEN "postAuth" ELSE "start")
       ELSE UNCHANGED sm /\ ConnectGoes(k, "abandon")
    /\ UNCHANGED <<lockVars, bindVars, netVars, closed, life, loopVars>> /\ ConnectRest

(* v1 opens its data stream. *)
postAuth(k) ==
    /\ ConnectAt(k, "postAuth")
    /\ \/ k \in open /\ picker' = picker \cup {k} /\ ConnectGoes(k, "start")
       \/ UNCHANGED picker /\ ConnectGoes(k, "abandon")
    /\ UNCHANGED <<lockVars, cConn, tr, trConn, netVars, coreVars, loopVars>> /\ ConnectRest

(* StartLifecycle looks at closed ... *)
StartLifecycle(k) ==
    /\ ConnectAt(k, "start")
    /\ ConnectGoes(k, IF closed THEN "ok" ELSE "spawn")
    /\ UNCHANGED <<lockVars, bindVars, netVars, coreVars, loopVars>> /\ ConnectRest

(* ... and then creates the context and the loops. *)
SpawnLoops(k) ==
    /\ ConnectAt(k, "spawn")
    /\ life' = "live" /\ reader' = "reads" /\ workers' = "running"
    /\ ConnectGoes(k, "ok")
    /\ UNCHANGED <<lockVars, bindVars, netVars, sm, closed>> /\ ConnectRest

(* The deferred cc.Close of a failed handshake returns once close is done. *)
Abandon(k) ==
    /\ ConnectAt(k, "abandon") /\ once = "done" /\ ConnectGoes(k, "cleanup")
    /\ UNCHANGED <<lockVars, bindVars, netVars, coreVars, loopVars>> /\ ConnectRest

(* The failed Connect closes its connection and forgets it. *)
Cleanup(k) ==
    /\ ConnectAt(k, "cleanup")
    /\ open' = open \ {k} /\ cConn' = None
    /\ trConn' = IF kind.binding = "ntls" THEN trConn \ {k} ELSE trConn
    /\ ConnectGoes(k, "failed")
    /\ UNCHANGED <<lockVars, tr, picker, writeSem, trClosed, coreVars, loopVars>> /\ ConnectRest

ConnectReturns(k) ==
    /\ connect[k] \in {"ok", "failed"} /\ mu.w = k /\ Unlock
    /\ UNCHANGED <<client, bindVars, netVars, coreVars, connect, loopVars>> /\ ConnectRest

-----------------------------------------------------------------------------
(* CoreClient.close, run once by whoever calls Close first.                 *)

OnceRest == UNCHANGED <<kind, lockVars, bindVars, connect, close, sendVars>>
OnceGoes(pc) == once' = pc /\ UNCHANGED onceBy

(* A caller: a Close, or the Connect that gives up. *)
OnceBegins(p) ==
    /\ once = "new"
    /\ \/ p \in Connects /\ connect[p] = "abandon"
       \/ p \in Closes /\ close[p] = "core"
    /\ closed' = TRUE /\ once' = "write" /\ onceBy' = p
    /\ UNCHANGED <<netVars, sm, life, loopVars, nilUse>> /\ OnceRest

(* The CLOSE frame, with a timeout of five seconds.  A token taken from a   *)
(* closed transport is not returned.                                        *)
OnceWritesClose ==
    /\ once = "write" /\ OnceGoes("state")
    /\ writeSem' \in IF kind.binding = "ntls" /\ tr \in trClosed THEN {writeSem, writeSem \ {tr}}
                     ELSE {writeSem}
    /\ nilUse' = (nilUse \/ (tr # None /\ tr \notin trConn))
    /\ UNCHANGED <<open, trClosed, coreVars, loopVars>> /\ OnceRest

(* Ready becomes Draining (the wait for results is bounded); otherwise no   *)
(* wait.                                                                    *)
OnceDrains ==
    /\ once = "state" /\ OnceGoes("teardown")
    /\ sm' = IF CanTransition("Draining") THEN "Draining" ELSE sm
    /\ UNCHANGED <<netVars, closed, life, loopVars, nilUse>> /\ OnceRest

(* teardownPhase. *)
teardownPhase ==
    /\ life' = IF life = "live" THEN "cancelled" ELSE life
    /\ ForceClosed

OnceTearsDown ==
    /\ once = "teardown" /\ OnceGoes(IF tr = None THEN "wait" ELSE "conn")
    /\ teardownPhase
    /\ UNCHANGED <<netVars, closed, loopVars, nilUse>> /\ OnceRest

(* CloseConn, first half: ntls marks the transport closed and takes the     *)
(* write token for good, or gives up after five seconds.                    *)
CloseConnDrains ==
    IF kind.binding = "ntls" /\ tr \notin trClosed
    THEN trClosed' = trClosed \cup {tr} /\ writeSem' \in {writeSem \ {tr}, writeSem}
    ELSE UNCHANGED <<trClosed, writeSem>>

(* Second half: the connection is closed. *)
CloseConnShuts ==
    /\ open' = open \ {tr}
    /\ nilUse' = (nilUse \/ tr \notin trConn)

OnceDrainsConn ==
    /\ once = "conn" /\ OnceGoes("shut") /\ CloseConnDrains
    /\ UNCHANGED <<open, coreVars, loopVars, nilUse>> /\ OnceRest

OnceShutsConn ==
    /\ once = "shut" /\ OnceGoes("wait") /\ CloseConnShuts
    /\ UNCHANGED <<writeSem, trClosed, coreVars, loopVars>> /\ OnceRest

(* waitGoroutines: until the loops end, five seconds each. *)
OnceEnds ==
    /\ once = "wait" /\ OnceGoes("done")
    /\ UNCHANGED <<netVars, coreVars, loopVars, nilUse>> /\ OnceRest

-----------------------------------------------------------------------------
(* Close of the facade or the binding.                                      *)

CloseRest ==
    UNCHANGED <<kind, bindVars, netVars, coreVars, connect, onceVars, loopVars, sendVars,
                nilUse>>
CloseGoes(c, pc) == close' = [close EXCEPT ![c] = pc]

CloseCalled(c) ==
    /\ close[c] = "idle" /\ CloseGoes(c, "lock")
    /\ UNCHANGED lockVars /\ CloseRest

Close(c) ==
    /\ close[c] = "lock" /\ Lock(c)
    /\ CloseGoes(c, IF client THEN "core" ELSE "unlock")
    /\ UNCHANGED client /\ CloseRest

CloseCoreDone(c) ==
    /\ close[c] = "core" /\ once = "done"
    /\ client' = (client /\ ~kind.facade)
    /\ CloseGoes(c, "unlock")
    /\ UNCHANGED mu /\ CloseRest

CloseReturns(c) ==
    /\ close[c] = "unlock"
    /\ IF kind.facade THEN Unlock ELSE UNCHANGED mu
    /\ CloseGoes(c, "returned")
    /\ UNCHANGED client /\ CloseRest

-----------------------------------------------------------------------------
(* ReadControlLoop with fatalTeardown, and the other loops.                 *)

LoopRest == UNCHANGED <<kind, lockVars, bindVars, connect, onceVars, close, sendVars>>

(* Mutant: a read error ends the loop and nothing else. *)
ReaderJustEnds ==
    /\ reader = "reads" /\ reader' = "ended"
    /\ UNCHANGED <<netVars, coreVars, workers, nilUse>> /\ LoopRest

(* The context is done, or: a read error, CLOSE, ABORT. *)
ReaderEnds ==
    /\ reader = "reads"
    /\ \/ life = "cancelled" /\ reader' = "ended" /\ UNCHANGED closed
       \/ life = "live" /\ reader' = "teardown" /\ closed' = TRUE
    /\ UNCHANGED <<netVars, sm, life, workers, nilUse>> /\ LoopRest

fatalTeardown ==
    /\ reader = "teardown" /\ reader' = "conn" /\ teardownPhase
    /\ UNCHANGED <<netVars, closed, workers, nilUse>> /\ LoopRest

FatalDrainsConn ==
    /\ reader = "conn" /\ reader' = "shut" /\ CloseConnDrains
    /\ UNCHANGED <<open, coreVars, workers, nilUse>> /\ LoopRest

FatalShutsConn ==
    /\ reader = "shut" /\ reader' = "ended" /\ CloseConnShuts
    /\ UNCHANGED <<writeSem, trClosed, coreVars, workers>> /\ LoopRest

WorkersEnd ==
    /\ workers = "running" /\ life = "cancelled" /\ workers' = "ended"
    /\ UNCHANGED <<netVars, coreVars, reader, nilUse>> /\ LoopRest

-----------------------------------------------------------------------------
(* SendBatch down to WriteFrame, with a context that is never cancelled.    *)

SendRest == UNCHANGED <<kind, client, bindVars, open, trClosed, coreVars, connect, onceVars,
                        close, loopVars>>
SendGoes(s, pc) == send' = [send EXCEPT ![s] = pc]

(* encodeAndSeal's state check comes before the write. *)
SendBatch(s) ==
    /\ send[s] = "idle" /\ RLock(s)
    /\ SendGoes(s, IF client /\ sm = "Ready" THEN "write" ELSE "unlock")
    /\ sendTr' = [sendTr EXCEPT ![s] = tr]
    /\ UNCHANGED <<writeSem, nilUse>> /\ SendRest

(* ntls: the write token; v1: the mutex of the only data stream, which is   *)
(* always returned because the write has a deadline.                        *)
TokenFree(s) == sendTr[s] \in writeSem

(* ntls waits for its token; v1 needs the picker first. *)
WriteBegins(s) ==
    /\ send[s] = "write"
    /\ \/ /\ kind.binding = "ntls" \/ sendTr[s] \in picker
          /\ TokenFree(s)
          /\ writeSem' = writeSem \ {sendTr[s]} /\ SendGoes(s, "holds")
       \/ kind.binding = "v1" /\ sendTr[s] \notin picker /\ SendGoes(s, "unlock") /\ UNCHANGED writeSem
    /\ UNCHANGED <<mu, sendTr, nilUse>> /\ SendRest

(* The token goes back unless the transport is closed by then. *)
WriteEnds(s) ==
    /\ send[s] = "holds"
    /\ writeSem' = IF sendTr[s] \in trClosed THEN writeSem ELSE writeSem \cup {sendTr[s]}
    /\ nilUse' = (nilUse \/ (sendTr[s] \notin trClosed /\ sendTr[s] \notin trConn))
    /\ SendGoes(s, "unlock")
    /\ UNCHANGED <<mu, sendTr>> /\ SendRest

(* Mutant: the read lock is kept. *)
SendReturnsLocked(s) ==
    /\ send[s] = "unlock"
    /\ SendGoes(s, "returned")
    /\ UNCHANGED <<mu, sendTr, writeSem, nilUse>> /\ SendRest

SendReturns(s) ==
    /\ send[s] = "unlock"
    /\ IF kind.facade THEN RUnlock(s) ELSE UNCHANGED mu
    /\ SendGoes(s, "returned")
    /\ UNCHANGED <<sendTr, writeSem, nilUse>> /\ SendRest

-----------------------------------------------------------------------------
ConnectStep(k) ==
    \/ Dial(k) \/ DialFails(k) \/ SetupTransport(k) \/ Handshake(k) \/ HandshakeReady(k)
    \/ postAuth(k) \/ StartLifecycle(k) \/ SpawnLoops(k) \/ Abandon(k) \/ Cleanup(k)
    \/ ConnectReturns(k)

OnceStep ==
    \/ \E p \in Connects \cup Closes : OnceBegins(p)
    \/ OnceWritesClose \/ OnceDrains \/ OnceTearsDown \/ OnceDrainsConn \/ OnceShutsConn \/ OnceEnds

CloseStep(c) == Close(c) \/ CloseCoreDone(c) \/ CloseReturns(c)
LoopStep == fatalTeardown \/ FatalDrainsConn \/ FatalShutsConn
SendStep(s) == WriteBegins(s) \/ WriteEnds(s) \/ SendReturns(s)

Next ==
    \/ \E k \in Connects : Connect(k) \/ ConnectStep(k)
    \/ OnceStep
    \/ \E c \in Closes : CloseCalled(c) \/ CloseStep(c)
    \/ ReaderEnds \/ LoopStep \/ WorkersEnd
    \/ \E s \in Sends : SendBatch(s) \/ SendStep(s)

ClientSpec == Init /\ [][Next]_clientVars

(* Goroutines that can go on do.  The read loop need only end when its      *)
(* context is done or its connection closed.                                *)
ClientFairness ==
    /\ \A k \in Connects : WF_clientVars(ConnectStep(k))
    /\ WF_clientVars(OnceStep)
    /\ \A c \in Closes : WF_clientVars(CloseStep(c))
    /\ WF_clientVars(ReaderEnds /\ (life = "cancelled" \/ tr \notin open))
    /\ WF_clientVars(LoopStep) /\ WF_clientVars(WorkersEnd)
    /\ \A s \in Sends : WF_clientVars(SendStep(s))

FairClientSpec == ClientSpec /\ ClientFairness

-----------------------------------------------------------------------------
(* However calls of Connect and Close overlap: when close is done and every *)
(* Connect has returned, no connection is left open ("close the own         *)
(* connection to avoid a leak"); no write and no CloseConn goes through the *)
(* nil conn that the clean-up of a failed Connect leaves in its transport;  *)
(* and a handshake that completes after Close does not revive the client.   *)
ConnectCloseSafe ==
    /\ once = "done" /\ (\A k \in Connects : connect[k] \in {"ok", "failed"}) => open = {}
    /\ ~nilUse
    /\ once = "done" => sm = "Closed"

(* All background loops end after Close, also those a Connect starts that   *)
(* was past its check of closed when Close came.                            *)
LoopsEnd == once = "done" ~> [](reader \in {"none", "ended"} /\ workers # "running")

(* "close must always converge". *)
CloseConverges == \A c \in Closes : close[c] = "lock" ~> close[c] = "returned"
=============================================================================
