------------------------------ MODULE Sessions ------------------------------
(***************************************************************************)
(* The control plane of the server across connections: Handle, controlLoop  *)
(* and handleHello of every connection, and what the connections share: the *)
(* epoch allocator, the command registry's routes and the OnSession         *)
(* callback.  Each member of Conns is one connection and its handler.       *)
(***************************************************************************)
EXTENDS Integers, FiniteSets, Sequences

CONSTANTS Conns, Agents, None

ASSUME SessionConstantsOK == None \notin Conns \cup Agents

VARIABLES
    pc,      \* where the handler of each connection is
    agent,   \* agentID of the handler
    epoch,   \* epoch of the handler (0: none)
    caps,    \* control_commands was negotiated
    authed,  \* handlers whose handshake completed
    epochs,  \* EpochAllocator
    byAgent, \* CommandRegistry
    latest,  \* history: the handler registered last for each agent
    events   \* history: calls of OnSession

connVars == <<pc, agent, epoch, caps, authed>>
sharedVars == <<epochs, byAgent, latest, events>>
sessionVars == <<connVars, sharedVars>>

Init ==
    /\ pc = [c \in Conns |-> "new"]
    /\ agent = [c \in Conns |-> None]
    /\ epoch = [c \in Conns |-> 0]
    /\ caps = [c \in Conns |-> FALSE]
    /\ authed = {}
    /\ epochs = [a \in Agents |-> 0]
    /\ byAgent = [a \in Agents |-> None] /\ latest = [a \in Agents |-> None]
    /\ events = <<>>

At(c, l) == pc[c] = l
Go(c, l) == pc' = [pc EXCEPT ![c] = l]

(* ServerMachine: a HELLO is handled in state Handshaking only.  Ready and  *)
(* Draining are not told apart: nothing looks at Draining.                  *)
Handshaking(c) == At(c, "new")

Event(type, c) == [type |-> type, conn |-> c, agent |-> agent[c]]

-----------------------------------------------------------------------------
(* A HELLO, or anything else that ends the control loop before one.         *)

(* Malformed, unknown profile, failed key derivation: NAK and the end. *)
HelloRefused(c) ==
    /\ Handshaking(c) /\ Go(c, "unregister")
    /\ caps' \in {caps, [caps EXCEPT ![c] = TRUE]}
    /\ UNCHANGED <<agent, epoch, authed, sharedVars>>

(* The token proof fails: the capabilities of this HELLO stay stored, the   *)
(* connection stays open and may send another HELLO.                        *)
HelloAuthFails(c) ==
    /\ Handshaking(c)
    /\ \E b \in BOOLEAN : caps' = [caps EXCEPT ![c] = b]
    /\ UNCHANGED <<pc, agent, epoch, authed, sharedVars>>

(* The proof and the key derivation succeed: the handler has its agent. *)
HelloProven(c, a, b) ==
    /\ Handshaking(c) /\ Go(c, "epoch")
    /\ caps' = [caps EXCEPT ![c] = b]
    /\ agent' = [agent EXCEPT ![c] = a]
    /\ UNCHANGED <<epoch, authed, sharedVars>>

(* Mutant: every handler counts for itself. *)
EpochNextPerHandler(c) ==
    /\ At(c, "epoch") /\ Go(c, "ack")
    /\ epoch' = [epoch EXCEPT ![c] = 1]
    /\ UNCHANGED <<agent, caps, authed, sharedVars>>

(* EpochAllocator.Next. *)
EpochNext(c) ==
    /\ At(c, "epoch") /\ Go(c, "ack")
    /\ epochs' = [epochs EXCEPT ![agent[c]] = @ + 1]
    /\ epoch' = [epoch EXCEPT ![c] = epochs[agent[c]] + 1]
    /\ UNCHANGED <<agent, caps, authed, byAgent, latest, events>>

(* HELLO_ACK and the dictionary are written; a failed write ends it all. *)
SendHelloAck(c) ==
    /\ At(c, "ack")
    /\ Go(c, "register") /\ authed' = authed \cup {c}
    /\ UNCHANGED <<agent, epoch, caps, sharedVars>>

SendHelloAckFails(c) ==
    /\ At(c, "ack") /\ Go(c, "unregister")
    /\ UNCHANGED <<agent, epoch, caps, authed, sharedVars>>

(* CommandRegistry.register, if the capability was negotiated. *)
registerCommandChannel(c) ==
    /\ At(c, "register") /\ Go(c, "connected")
    /\ IF caps[c] THEN /\ byAgent' = [byAgent EXCEPT ![agent[c]] = c]
                       /\ latest' = [latest EXCEPT ![agent[c]] = c]
       ELSE UNCHANGED <<byAgent, latest>>
    /\ UNCHANGED <<agent, epoch, caps, authed, epochs, events>>

(* OnSession(CONNECTED); a connection that is redirected ends at once. *)
OnConnected(c) ==
    /\ At(c, "connected")
    /\ events' = Append(events, Event("connected", c))
    /\ Go(c, "ready") \/ Go(c, "unregister")
    /\ UNCHANGED <<agent, epoch, caps, authed, epochs, byAgent, latest>>

(* CLOSE, ABORT, a second HELLO, a read error, the end of the context. *)
ControlLoopEnds(c) ==
    /\ pc[c] \in {"new", "ready"} /\ Go(c, "unregister")
    /\ UNCHANGED <<agent, epoch, caps, authed, sharedVars>>

-----------------------------------------------------------------------------
(* Handle's deferred function, after the data plane is drained.             *)

(* Mutant: the route is removed whoever it points to. *)
unregisterAnyone(c) ==
    /\ At(c, "unregister") /\ Go(c, "disconnected")
    /\ byAgent' = IF c \in authed THEN [byAgent EXCEPT ![agent[c]] = None] ELSE byAgent
    /\ UNCHANGED <<agent, epoch, caps, authed, epochs, latest, events>>

(* CommandRegistry.unregister: only if the route still points here. *)
unregister(c) ==
    /\ At(c, "unregister") /\ Go(c, "disconnected")
    /\ byAgent' = IF c \in authed /\ byAgent[agent[c]] = c
                  THEN [byAgent EXCEPT ![agent[c]] = None] ELSE byAgent
    /\ UNCHANGED <<agent, epoch, caps, authed, epochs, latest, events>>

(* Mutant: the event is sent only if the agent still has no other route. *)
OnDisconnectedIfAlone(c) ==
    /\ At(c, "disconnected") /\ Go(c, "ended")
    /\ events' = IF c \in authed /\ byAgent[agent[c]] # None THEN events
                 ELSE Append(events, Event("disconnected", c))
    /\ UNCHANGED <<agent, epoch, caps, authed, epochs, byAgent, latest>>

(* OnSession(DISCONNECTED). *)
OnDisconnected(c) ==
    /\ At(c, "disconnected") /\ Go(c, "ended")
    /\ events' = Append(events, Event("disconnected", c))
    /\ UNCHANGED <<agent, epoch, caps, authed, epochs, byAgent, latest>>

-----------------------------------------------------------------------------
HandlerStep(c) ==
    \/ HelloRefused(c) \/ HelloAuthFails(c)
    \/ \E a \in Agents, b \in BOOLEAN : HelloProven(c, a, b)
    \/ EpochNext(c) \/ SendHelloAck(c) \/ SendHelloAckFails(c)
    \/ registerCommandChannel(c) \/ OnConnected(c)
    \/ ControlLoopEnds(c) \/ unregister(c) \/ OnDisconnected(c)

SessionNext == \E c \in Conns : HandlerStep(c)

SessionSpec == Init /\ [][SessionNext]_sessionVars

-----------------------------------------------------------------------------
(* Every handshake of an agent gets a higher epoch than all earlier ones of *)
(* that agent, on whatever connection, also after handshakes that failed.   *)
EpochsIncrease ==
    [][\A c, d \in Conns :
         epoch'[c] # epoch[c] /\ d # c /\ agent[d] = agent[c] => epoch'[c] > epoch[d]]_sessionVars

(* Routes follow the connections ("the last registration counts"): a        *)
(* command never goes to the handler of a connection that has ended, to     *)
(* another agent, or to one that did not negotiate commands; and while the  *)
(* connection an agent registered last is alive the route leads to it, no   *)
(* matter when the handlers of its older connections clean up.              *)
RouteIsLatest ==
    \A a \in Agents :
        /\ byAgent[a] # None =>
             LET c == byAgent[a] IN
             agent[c] = a /\ caps[c] /\ c \in authed /\ pc[c] \notin {"disconnected", "ended"}
        /\ latest[a] # None /\ pc[latest[a]] \notin {"disconnected", "ended"} =>
             byAgent[a] = latest[a]

(* A CONNECTED is followed, by the end of the handler, by exactly one       *)
(* DISCONNECTED of the same connection and agent.                           *)
ConnectedIsClosed ==
    \A i \in DOMAIN events :
        LET e == events[i] IN
        e.type = "connected" /\ pc[e.conn] = "ended" =>
            Cardinality({j \in DOMAIN events :
                j > i /\ events[j] = [e EXCEPT !.type = "disconnected"]}) = 1

(* "A connection that did not pass HELLO produces no DISCONNECTED event". *)
DisconnectedOnlyAuthed ==
    \A i \in DOMAIN events : events[i].type = "disconnected" => events[i].conn \in authed
=============================================================================
