------------------------ MODULE CommandChannelProofs -------------------------
(* Proofs about Sessions and CommandChannel, for every set of connections,  *)
(* agents and calls.  The commands only read the sessions, so that what     *)
(* holds of SessionSpec holds of CommandSpec; the routes, epochs and events *)
(* of the sessions follow from where each handler is, and the answers of    *)
(* the commands from what is in the table, the channels and on the wire.    *)
EXTENDS CommandChannel, FiniteSetTheorems, TLAPS

Places == {"new", "epoch", "ack", "register", "connected", "ready",
           "unregister", "disconnected", "ended"}
Events == [type : {"connected", "disconnected"}, conn : Conns, agent : Agents \cup {None}]

SessionTypeOK ==
    /\ pc \in [Conns -> Places] /\ agent \in [Conns -> Agents \cup {None}]
    /\ epoch \in [Conns -> Nat] /\ caps \in [Conns -> BOOLEAN] /\ authed \in SUBSET Conns
    /\ epochs \in [Agents -> Nat]
    /\ byAgent \in [Agents -> Conns \cup {None}] /\ latest \in [Agents -> Conns \cup {None}]
    /\ events \in Seq(Events)

(* A handler has its agent from the proof on, and is authenticated from     *)
(* HELLO_ACK on.                                                            *)
HandlerInv ==
    \A c \in Conns :
        /\ pc[c] \in {"epoch", "ack"} \/ c \in authed => agent[c] \in Agents
        /\ pc[c] \in {"register", "connected", "ready"} => c \in authed
        /\ c \in authed => pc[c] \notin {"new", "epoch", "ack"}

(* The handler registered last stays what it was when it registered. *)
LatestInv ==
    \A a \in Agents :
        LET c == latest[a] IN
        c # None => /\ agent[c] = a /\ caps[c] /\ c \in authed
                    /\ pc[c] \notin {"new", "epoch", "ack", "register"}

(* An epoch is never above its agent's counter, and a handler without one   *)
(* has epoch 0.                                                             *)
EpochInv ==
    \A c \in Conns :
        /\ pc[c] \in {"new", "epoch"} => epoch[c] = 0
        /\ agent[c] \in Agents => epoch[c] <= epochs[agent[c]]

(* What an event says of its handler; a handler sends one DISCONNECTED, at  *)
(* its end, after its CONNECTED.                                            *)
EventInv ==
    \A i \in 1..Len(events) :
        /\ events[i].agent = agent[events[i].conn]
        /\ events[i].type = "connected" =>
             /\ pc[events[i].conn] \in {"ready", "unregister", "disconnected", "ended"}
             /\ pc[events[i].conn] = "ended" =>
                  \E j \in 1..Len(events) :
                      j > i /\ events[j].type = "disconnected" /\ events[j].conn = events[i].conn
        /\ events[i].type = "disconnected" =>
             /\ pc[events[i].conn] = "ended"
             /\ \A j \in 1..Len(events) :
                    events[j].type = "disconnected" /\ events[j].conn = events[i].conn => i = j

SessionInv == SessionTypeOK /\ HandlerInv /\ LatestInv /\ RouteIsLatest /\ EpochInv /\ EventInv

LEMMA SessionInitially == Init => SessionInv
<1> SUFFICES ASSUME Init PROVE SessionInv OBVIOUS
<1>1. SessionTypeOK
  BY DEF Init, SessionTypeOK, Places
<1>2. HandlerInv
  BY SessionConstantsOK DEF Init, HandlerInv
<1>3. LatestInv /\ RouteIsLatest
  BY DEF Init, LatestInv, RouteIsLatest
<1>4. EpochInv
  BY SessionConstantsOK DEF Init, EpochInv
<1>5. EventInv
  BY DEF Init, EventInv
<1> QED
  BY <1>1, <1>2, <1>3, <1>4, <1>5 DEF SessionInv

(* The steps of a handler, as the cases of every proof below. *)
LEMMA HandlerStepType ==
    ASSUME SessionTypeOK, HandlerInv, NEW c \in Conns, HandlerStep(c)
    PROVE  SessionTypeOK' /\ HandlerInv'
<1> USE DEF SessionTypeOK, HandlerInv, Places
<1>1. CASE HelloRefused(c)
  BY <1>1 DEF HelloRefused, Handshaking, At, Go, sharedVars
<1>2. CASE HelloAuthFails(c)
  BY <1>2 DEF HelloAuthFails, Handshaking, At, Go, sharedVars
<1>3. ASSUME NEW a \in Agents, NEW b \in BOOLEAN, HelloProven(c, a, b)
      PROVE  SessionTypeOK' /\ HandlerInv'
  BY <1>3 DEF HelloProven, Handshaking, At, Go, sharedVars
<1>4. CASE EpochNext(c)
  BY <1>4 DEF EpochNext, At, Go
<1>5. CASE SendHelloAck(c)
  BY <1>5 DEF SendHelloAck, At, Go, sharedVars
<1>6. CASE SendHelloAckFails(c)
  BY <1>6 DEF SendHelloAckFails, At, Go, sharedVars
<1>7. CASE registerCommandChannel(c)
  BY <1>7 DEF registerCommandChannel, At, Go
<1>8. CASE OnConnected(c)
  <2>1. Event("connected", c) \in Events
    BY DEF Event, Events
  <2>2. PICK l \in {"ready", "unregister"} : pc' = [pc EXCEPT ![c] = l]
    BY <1>8 DEF OnConnected, Go
  <2>3. events' \in Seq(Events) /\ pc[c] = "connected"
    BY <1>8, <2>1 DEF OnConnected, At
  <2> QED
    BY <1>8, <2>2, <2>3 DEF OnConnected
<1>9. CASE ControlLoopEnds(c)
  BY <1>9 DEF ControlLoopEnds, Go, sharedVars
<1>10. CASE unregister(c)
  BY <1>10 DEF unregister, At, Go
<1>11. CASE OnDisconnected(c)
  <2>1. Event("disconnected", c) \in Events
    BY DEF Event, Events
  <2> QED
    BY <1>11, <2>1 DEF OnDisconnected, At, Go
<1> QED
  BY <1>1, <1>2, <1>3, <1>4, <1>5, <1>6, <1>7, <1>8, <1>9, <1>10, <1>11 DEF HandlerStep

Gone == {"disconnected", "ended"}
Unregistered == {"new", "epoch", "ack", "register"}

(* Handlers that move without registering, unregistering or ending leave    *)
(* the routes right.                                                        *)
LEMMA RoutesKept ==
    ASSUME LatestInv, RouteIsLatest, UNCHANGED <<agent, caps, authed, byAgent, latest>>,
           \A d \in authed :
               /\ pc'[d] \in Gone <=> pc[d] \in Gone
               /\ pc'[d] \in Unregistered => pc[d] \in Unregistered
    PROVE  LatestInv' /\ RouteIsLatest'
<1> USE DEF Gone, Unregistered
<1>1. ASSUME NEW a \in Agents, latest[a] # None
      PROVE  /\ agent[latest[a]] = a /\ caps[latest[a]] /\ latest[a] \in authed
             /\ pc[latest[a]] \notin Unregistered
             /\ pc[latest[a]] \notin Gone => byAgent[a] = latest[a]
  BY <1>1 DEF LatestInv, RouteIsLatest
<1>2. ASSUME NEW a \in Agents, byAgent[a] # None
      PROVE  /\ agent[byAgent[a]] = a /\ caps[byAgent[a]] /\ byAgent[a] \in authed
             /\ pc[byAgent[a]] \notin Gone
  BY <1>2 DEF RouteIsLatest
<1>3. LatestInv'
  <2>1. ASSUME NEW a \in Agents, latest'[a] # None
        PROVE  /\ agent'[latest'[a]] = a /\ caps'[latest'[a]] /\ latest'[a] \in authed'
               /\ pc'[latest'[a]] \notin Unregistered
    BY <1>1, <2>1
  <2> QED
    BY <2>1 DEF LatestInv
<1>4. RouteIsLatest'
  <2>1. ASSUME NEW a \in Agents, byAgent'[a] # None
        PROVE  /\ agent'[byAgent'[a]] = a /\ caps'[byAgent'[a]] /\ byAgent'[a] \in authed'
               /\ pc'[byAgent'[a]] \notin Gone
    BY <1>2, <2>1
  <2>2. ASSUME NEW a \in Agents, latest'[a] # None, pc'[latest'[a]] \notin Gone
        PROVE  byAgent'[a] = latest'[a]
    BY <1>1, <2>2
  <2> QED
    BY <2>1, <2>2 DEF RouteIsLatest
<1> QED
  BY <1>3, <1>4

(* The routes: only a handler that has the capability registers, and one    *)
(* that ends takes away its own route only.                                 *)
LEMMA RouteStep ==
    ASSUME SessionInv, NEW c \in Conns, HandlerStep(c)
    PROVE  LatestInv' /\ RouteIsLatest'
<1> USE SessionConstantsOK DEF SessionInv, SessionTypeOK, HandlerInv, LatestInv, RouteIsLatest
<1>1. CASE HelloRefused(c)
  BY <1>1 DEF HelloRefused, Handshaking, At, Go, sharedVars
<1>2. CASE HelloAuthFails(c)
  BY <1>2 DEF HelloAuthFails, Handshaking, At, Go, sharedVars
<1>3. ASSUME NEW a \in Agents, NEW b \in BOOLEAN, HelloProven(c, a, b)
      PROVE  LatestInv' /\ RouteIsLatest'
  BY <1>3 DEF HelloProven, Handshaking, At, Go, sharedVars
<1>4. CASE EpochNext(c)
  BY <1>4 DEF EpochNext, At, Go
<1>5. CASE SendHelloAck(c)
  BY <1>5 DEF SendHelloAck, At, Go, sharedVars
<1>6. CASE SendHelloAckFails(c)
  BY <1>6 DEF SendHelloAckFails, At, Go, sharedVars
<1>7. CASE registerCommandChannel(c)
  <2>1. /\ pc[c] = "register" /\ pc'[c] = "connected" /\ \A d \in Conns \ {c} : pc'[d] = pc[d]
        /\ UNCHANGED <<agent, caps, authed>> /\ c \in authed /\ agent[c] \in Agents
    BY <1>7 DEF registerCommandChannel, At, Go
  <2>2. CASE caps[c]
    <3>1. /\ byAgent'[agent[c]] = c /\ latest'[agent[c]] = c
          /\ \A a \in Agents \ {agent[c]} : byAgent'[a] = byAgent[a] /\ latest'[a] = latest[a]
      BY <1>7, <2>1, <2>2 DEF registerCommandChannel
    <3>2. c # None /\ \A a \in Agents \ {agent[c]} : byAgent[a] # c /\ latest[a] # c
      BY <2>1
    <3>3. LatestInv'
      BY <2>1, <2>2, <3>1, <3>2
    <3>4. ASSUME NEW a \in Agents \ {agent[c]}
          PROVE  /\ byAgent[a] # None =>
                      /\ byAgent[a] \in Conns \ {c} /\ pc'[byAgent[a]] = pc[byAgent[a]]
                 /\ latest[a] # None =>
                      /\ latest[a] \in Conns \ {c} /\ pc'[latest[a]] = pc[latest[a]]
      BY <2>1, <3>2
    <3> DEFINE Routed(a) ==
                 /\ byAgent[a] # None =>
                      LET d == byAgent[a] IN
                      /\ agent[d] = a /\ caps[d] /\ d \in authed
                      /\ pc[d] \notin {"disconnected", "ended"}
                 /\ latest[a] # None /\ pc[latest[a]] \notin {"disconnected", "ended"} =>
                      byAgent[a] = latest[a]
    <3>5. ASSUME NEW a \in Agents, a # agent[c]
          PROVE  Routed(a)'
      <4>1. Routed(a)
        OBVIOUS
      <4> QED
        BY <2>1, <3>1, <3>4, <3>5, <4>1
    <3>6. Routed(agent[c])'
      BY <2>1, <2>2, <3>1
    <3>7. RouteIsLatest'
      BY <2>1, <3>5, <3>6
    <3> QED
      BY <3>3, <3>7
  <2>3. CASE ~caps[c]
    <3>1. UNCHANGED <<byAgent, latest>>
      BY <1>7, <2>3 DEF registerCommandChannel
    <3> QED
      BY <2>1, <2>3, <3>1
  <2> QED
    BY <2>2, <2>3
<1>8. CASE OnConnected(c)
  <2>1. /\ pc[c] = "connected" /\ pc'[c] \in {"ready", "unregister"}
        /\ \A d \in Conns \ {c} : pc'[d] = pc[d]
        /\ UNCHANGED <<agent, caps, authed, byAgent, latest>>
    BY <1>8 DEF OnConnected, At, Go
  <2> HIDE DEF LatestInv, RouteIsLatest
  <2> QED
    BY <2>1, RoutesKept DEF Gone, Unregistered
<1>9. CASE ControlLoopEnds(c)
  BY <1>9 DEF ControlLoopEnds, Go, sharedVars
<1>10. CASE unregister(c)
  <2>1. /\ pc[c] = "unregister" /\ pc'[c] = "disconnected"
        /\ \A d \in Conns \ {c} : pc'[d] = pc[d]
        /\ UNCHANGED <<agent, caps, authed, latest>>
        /\ byAgent' = IF c \in authed /\ byAgent[agent[c]] = c
                      THEN [byAgent EXCEPT ![agent[c]] = None] ELSE byAgent
    BY <1>10 DEF unregister, At, Go
  <2>2. \A a \in Agents : byAgent[a] = c => c \in authed /\ agent[c] = a
    OBVIOUS
  <2>3. \A a \in Agents : byAgent'[a] = IF byAgent[a] = c THEN None ELSE byAgent[a]
    <3> HIDE DEF RouteIsLatest, LatestInv
    <3> QED
      BY <2>1, <2>2
  <2>4. LatestInv'
    <3> HIDE DEF RouteIsLatest
    <3> QED
      BY <2>1
  <2>5. RouteIsLatest'
    BY <2>1, <2>3, SMTT(20)
  <2> QED
    BY <2>4, <2>5
<1>11. CASE OnDisconnected(c)
  <2>1. /\ pc[c] = "disconnected" /\ pc'[c] = "ended" /\ \A d \in Conns \ {c} : pc'[d] = pc[d]
        /\ UNCHANGED <<agent, caps, authed, byAgent, latest>>
    BY <1>11 DEF OnDisconnected, At, Go
  <2> HIDE DEF LatestInv, RouteIsLatest
  <2> QED
    BY <2>1, RoutesKept DEF Gone, Unregistered
<1> HIDE DEF SessionInv, SessionTypeOK, HandlerInv, LatestInv, RouteIsLatest
<1> QED
  BY <1>1, <1>2, <1>3, <1>4, <1>5, <1>6, <1>7, <1>8, <1>9, <1>10, <1>11 DEF HandlerStep

(* The epochs: a counter only grows, and a handler takes its value at its   *)
(* increment.                                                               *)
LEMMA EpochStep ==
    ASSUME SessionInv, NEW c \in Conns, HandlerStep(c)
    PROVE  /\ EpochInv'
           /\ \A d, e \in Conns :
                epoch'[d] # epoch[d] /\ e # d /\ agent[e] = agent[d] => epoch'[d] > epoch[e]
<1> USE DEF SessionInv, SessionTypeOK, EpochInv
<1>1. CASE EpochNext(c)
  <2>1. agent[c] \in Agents /\ epochs[agent[c]] \in Nat
    BY <1>1 DEF EpochNext, At, HandlerInv
  <2>2. /\ epoch'[c] = epochs[agent[c]] + 1 /\ epochs'[agent[c]] = epochs[agent[c]] + 1
        /\ \A d \in Conns \ {c} : epoch'[d] = epoch[d] /\ pc'[d] = pc[d]
        /\ \A a \in Agents : epochs'[a] >= epochs[a] /\ epochs'[a] \in Nat
        /\ agent' = agent /\ pc'[c] = "ack"
    BY <1>1, <2>1 DEF EpochNext, At, Go
  <2>3. EpochInv'
    BY <2>1, <2>2
  <2>4. ASSUME NEW d \in Conns, NEW e \in Conns,
               epoch'[d] # epoch[d], e # d, agent[e] = agent[d]
        PROVE  epoch'[d] > epoch[e]
    <3>1. d = c /\ epoch[e] \in Nat /\ epoch[e] <= epochs[agent[c]]
      BY <2>1, <2>2, <2>4
    <3> QED
      BY <2>1, <2>2, <3>1
  <2> QED
    BY <2>3, <2>4
<1>2. ASSUME NEW a \in Agents, NEW b \in BOOLEAN, HelloProven(c, a, b)
      PROVE  EpochInv' /\ epoch' = epoch
  BY <1>2 DEF HelloProven, Handshaking, At, Go, sharedVars
<1>3. CASE /\ UNCHANGED <<agent, epoch, epochs>>
           /\ \A d \in Conns : pc'[d] \in {"new", "epoch"} => pc[d] \in {"new", "epoch"}
  BY <1>3
<1>4. ASSUME NEW l, Go(c, l), l \notin {"new", "epoch"}
      PROVE  \A d \in Conns : pc'[d] \in {"new", "epoch"} => pc[d] \in {"new", "epoch"}
  BY <1>4 DEF Go
<1>5. CASE HelloRefused(c) \/ SendHelloAck(c) \/ SendHelloAckFails(c) \/ ControlLoopEnds(c)
  BY <1>3, <1>4, <1>5
  DEF HelloRefused, SendHelloAck, SendHelloAckFails, ControlLoopEnds, sharedVars
<1>6. CASE registerCommandChannel(c) \/ OnConnected(c) \/ unregister(c) \/ OnDisconnected(c)
  BY <1>3, <1>4, <1>6 DEF registerCommandChannel, OnConnected, unregister, OnDisconnected
<1>7. CASE HelloAuthFails(c)
  BY <1>3, <1>7 DEF HelloAuthFails, sharedVars
<1> QED
  BY <1>1, <1>2, <1>5, <1>6, <1>7 DEF HandlerStep

(* One more event, of handler c at its new place, keeps what the events say. *)
LEMMA EventAppended ==
    ASSUME SessionInv, NEW c \in Conns, NEW type \in {"connected", "disconnected"},
           events' = Append(events, Event(type, c)), agent' = agent,
           \A d \in Conns \ {c} : pc'[d] = pc[d],
           \/ /\ type = "connected" /\ pc[c] = "connected"
              /\ pc'[c] \in {"ready", "unregister"}
           \/ type = "disconnected" /\ pc[c] = "disconnected" /\ pc'[c] = "ended"
    PROVE  EventInv'
<1> DEFINE n == Len(events)
<1>1. /\ n \in Nat /\ Len(events') = n + 1
      /\ \A i \in 1..n : events'[i] = events[i] /\ events[i] \in Events
      /\ events'[n + 1] = [type |-> type, conn |-> c, agent |-> agent[c]]
  BY DEF SessionInv, SessionTypeOK, Event
<1>2. \A i \in 1..n : events[i].type = "disconnected" => events[i].conn \in Conns \ {c}
  BY <1>1 DEF SessionInv, EventInv, Events
<1>3. type = "connected" =>
        \A i \in 1..n : events[i].conn \in Conns \ {c}
  BY <1>1 DEF SessionInv, EventInv, Events
<1> SUFFICES ASSUME NEW i \in 1..(n + 1)
             PROVE  /\ events'[i].agent = agent[events'[i].conn]
                    /\ events'[i].type = "connected" =>
                         /\ pc'[events'[i].conn] \in {"ready", "unregister", "disconnected", "ended"}
                         /\ pc'[events'[i].conn] = "ended" =>
                              \E j \in 1..(n + 1) :
                                  /\ j > i /\ events'[j].type = "disconnected"
                                  /\ events'[j].conn = events'[i].conn
                    /\ events'[i].type = "disconnected" =>
                         /\ pc'[events'[i].conn] = "ended"
                         /\ \A j \in 1..(n + 1) :
                                events'[j].type = "disconnected"
                                /\ events'[j].conn = events'[i].conn => i = j
  BY <1>1 DEF EventInv
<1>4. CASE i = n + 1
  BY <1>1, <1>2, <1>3, <1>4
<1>5. CASE i \in 1..n /\ events[i].conn = c
  <2>1. events[i].type = "connected" /\ type = "disconnected" /\ n + 1 > i
    BY <1>1, <1>2, <1>3, <1>5 DEF Events
  <2> QED
    BY <1>1, <1>5, <2>1 DEF SessionInv, EventInv
<1>6. CASE i \in 1..n /\ events[i].conn # c
  <2>1. /\ events[i].conn \in Conns \ {c} /\ events'[n + 1].conn = c
        /\ events'[i] = events[i] /\ pc'[events[i].conn] = pc[events[i].conn]
    BY <1>1, <1>6 DEF Events
  <2>2. /\ events[i].agent = agent[events[i].conn]
        /\ events[i].type = "connected" =>
             pc[events[i].conn] \in {"ready", "unregister", "disconnected", "ended"}
        /\ events[i].type = "disconnected" => pc[events[i].conn] = "ended"
    BY <1>6 DEF SessionInv, EventInv
  <2>3. ASSUME events[i].type = "connected", pc[events[i].conn] = "ended"
        PROVE  \E j \in 1..(n + 1) : /\ j > i /\ events'[j].type = "disconnected"
                                     /\ events'[j].conn = events[i].conn
    <3>1. PICK j \in 1..n :
            j > i /\ events[j].type = "disconnected" /\ events[j].conn = events[i].conn
      BY <1>6, <2>3 DEF SessionInv, EventInv
    <3> QED
      BY <1>1, <3>1
  <2>4. ASSUME events[i].type = "disconnected", NEW j \in 1..(n + 1),
               events'[j].type = "disconnected", events'[j].conn = events[i].conn
        PROVE  i = j
    <3>1. j \in 1..n /\ events'[j] = events[j]
      BY <1>1, <2>1, <2>4
    <3> QED
      BY <1>6, <2>4, <3>1 DEF SessionInv, EventInv
  <2> QED
    BY <2>1, <2>2, <2>3, <2>4
<1>7. i = n + 1 \/ i \in 1..n
  BY <1>1
<1> QED
  BY <1>4, <1>5, <1>6, <1>7

(* The other steps leave the events and what they say of their handlers. *)
LEMMA EventStep ==
    ASSUME SessionInv, NEW c \in Conns, HandlerStep(c)
    PROVE  EventInv'
<1> USE DEF SessionInv, SessionTypeOK
<1>1. CASE OnConnected(c)
  BY <1>1, EventAppended DEF OnConnected, At, Go
<1>2. CASE OnDisconnected(c)
  BY <1>2, EventAppended DEF OnDisconnected, At, Go
<1>3. CASE /\ events' = events /\ pc[c] \notin {"disconnected", "ended"}
           /\ \A d \in Conns \ {c} : pc'[d] = pc[d] /\ agent'[d] = agent[d]
           /\ \/ pc[c] \in {"ready", "unregister"} /\ agent'[c] = agent[c]
                 /\ pc'[c] \in {"unregister", "disconnected"}
              \/ pc[c] \in {"new", "epoch", "ack", "register"}
  <2>1. \A i \in 1..Len(events) :
          /\ events[i].conn \in Conns /\ events[i].type \in {"connected", "disconnected"}
          /\ pc[events[i].conn] \in {"ready", "unregister", "disconnected", "ended"}
    <3>1. \A i \in 1..Len(events) : events[i] \in Events
      OBVIOUS
    <3> QED
      BY <3>1 DEF EventInv, Events
  <2>2. \A i \in 1..Len(events) :
          /\ agent'[events[i].conn] = agent[events[i].conn]
          /\ pc'[events[i].conn] \in {"ready", "unregister", "disconnected", "ended"}
          /\ pc'[events[i].conn] = "ended" <=> pc[events[i].conn] = "ended"
    BY <1>3, <2>1
  <2> QED
    BY <1>3, <2>1, <2>2 DEF EventInv
<1>4. CASE HelloRefused(c) \/ HelloAuthFails(c)
  BY <1>3, <1>4 DEF HelloRefused, HelloAuthFails, Handshaking, At, Go, sharedVars
<1>5. ASSUME NEW a \in Agents, NEW b \in BOOLEAN, HelloProven(c, a, b)
      PROVE  EventInv'
  BY <1>3, <1>5 DEF HelloProven, Handshaking, At, Go, sharedVars
<1>6. CASE EpochNext(c) \/ SendHelloAck(c) \/ SendHelloAckFails(c)
  BY <1>3, <1>6 DEF EpochNext, SendHelloAck, SendHelloAckFails, At, Go, sharedVars
<1>7. CASE registerCommandChannel(c) \/ unregister(c)
  BY <1>3, <1>7 DEF registerCommandChannel, unregister, At, Go
<1>8. CASE ControlLoopEnds(c)
  BY <1>3, <1>8 DEF ControlLoopEnds, Go, sharedVars
<1> QED
  BY <1>1, <1>2, <1>4, <1>5, <1>6, <1>7, <1>8 DEF HandlerStep

LEMMA SessionStep == SessionInv /\ [SessionNext]_sessionVars => SessionInv'
<1> SUFFICES ASSUME SessionInv, [SessionNext]_sessionVars PROVE SessionInv' OBVIOUS
<1>1. ASSUME NEW c \in Conns, HandlerStep(c) PROVE SessionInv'
  <2>1. SessionTypeOK' /\ HandlerInv'
    BY <1>1, HandlerStepType DEF SessionInv
  <2>2. LatestInv' /\ RouteIsLatest'
    BY <1>1, RouteStep
  <2>3. EpochInv' /\ EventInv'
    BY <1>1, EpochStep, EventStep
  <2> QED
    BY <2>1, <2>2, <2>3 DEF SessionInv
<1>2. CASE UNCHANGED sessionVars
  <2> USE <1>2 DEF SessionInv, sessionVars, connVars, sharedVars
  <2>1. SessionTypeOK' /\ HandlerInv'
    BY DEF SessionTypeOK, HandlerInv
  <2>2. LatestInv' /\ RouteIsLatest'
    BY DEF LatestInv, RouteIsLatest
  <2>3. EpochInv' /\ EventInv'
    BY DEF EpochInv, EventInv
  <2> QED
    BY <2>1, <2>2, <2>3
<1> QED
  BY <1>1, <1>2 DEF SessionNext

LEMMA SessionInvariant == SessionSpec => []SessionInv
BY SessionInitially, SessionStep, PTL DEF SessionSpec

(* SendCommand, resolve and the clients change nothing of the sessions: a   *)
(* behaviour of the command channel is one of the sessions, and everything  *)
(* shown of Handle, the registry and the epochs holds while commands run.   *)
THEOREM CommandsKeepSessions == CommandSpec => SessionSpec
<1>1. CommandInit => Init
  BY DEF CommandInit
<1>2. ASSUME [CommandNext]_commandVars PROVE [SessionNext]_sessionVars
  <2>1. ASSUME NEW k \in Calls, CallStep(k) PROVE UNCHANGED sessionVars
    BY <2>1
    DEF CallStep, SendCommand, SendCommandWaits, sendCommand, SendCommandEnds, SendCommandReturns
  <2>2. ASSUME NEW c \in Conns, WireStep(c) PROVE UNCHANGED sessionVars
    BY <2>2 DEF WireStep, dispatchCommand, resolve, WireLost, CommandDone, ClientRest
  <2> QED
    BY <1>2, <2>1, <2>2 DEF CommandNext, commandVars
<1> QED
  BY <1>1, <1>2, PTL DEF CommandSpec, SessionSpec

(* A command is routed to a live, authenticated handler of its agent, the   *)
(* one registered last, whenever the older ones of the agent unregister.    *)
THEOREM RoutesFollow == CommandSpec => []RouteIsLatest
<1>1. SessionInv => RouteIsLatest
  BY DEF SessionInv
<1> QED
  BY <1>1, CommandsKeepSessions, SessionInvariant, PTL

(* EpochAllocator.Next gives a handshake an epoch above those of every      *)
(* other connection of the agent.                                           *)
THEOREM EpochsGrow == CommandSpec => EpochsIncrease
<1> DEFINE Above == \A c, d \in Conns :
                      epoch'[c] # epoch[c] /\ d # c /\ agent[d] = agent[c] => epoch'[c] > epoch[d]
<1>1. SessionInv /\ [SessionNext]_sessionVars => [Above]_sessionVars
  BY EpochStep DEF SessionNext
<1> QED
  BY <1>1, CommandsKeepSessions, SessionInvariant, PTL DEF SessionSpec, EpochsIncrease

(* OnSession hears of every end it was promised: a CONNECTED has exactly    *)
(* one DISCONNECTED of the same connection and agent when Handle is done.   *)
THEOREM EventsPaired == CommandSpec => []ConnectedIsClosed
<1>1. ASSUME SessionInv PROVE ConnectedIsClosed
  <2> SUFFICES ASSUME NEW i \in DOMAIN events,
                      events[i].type = "connected", pc[events[i].conn] = "ended"
               PROVE  Cardinality({j \in DOMAIN events :
                        j > i /\ events[j] = [events[i] EXCEPT !.type = "disconnected"]}) = 1
    BY DEF ConnectedIsClosed
  <2>1. DOMAIN events = 1..Len(events) /\ \A j \in 1..Len(events) : events[j] \in Events
    BY <1>1 DEF SessionInv, SessionTypeOK
  <2>2. PICK j \in 1..Len(events) :
          j > i /\ events[j].type = "disconnected" /\ events[j].conn = events[i].conn
    BY <1>1, <2>1 DEF SessionInv, EventInv
  <2>3. events[j] = [events[i] EXCEPT !.type = "disconnected"]
    BY <1>1, <2>1, <2>2 DEF SessionInv, EventInv, Events
  <2>4. ASSUME NEW k \in 1..Len(events),
               events[k] = [events[i] EXCEPT !.type = "disconnected"]
        PROVE  k = j
    <3>1. events[k].type = "disconnected" /\ events[k].conn = events[i].conn
      BY <2>1, <2>4 DEF Events
    <3> QED
      BY <1>1, <2>2, <3>1 DEF SessionInv, EventInv
  <2>5. {k \in DOMAIN events :
           k > i /\ events[k] = [events[i] EXCEPT !.type = "disconnected"]} = {j}
    BY <2>1, <2>2, <2>3, <2>4
  <2> QED
    BY <2>5, FS_Singleton
<1> QED
  BY <1>1, CommandsKeepSessions, SessionInvariant, PTL

-----------------------------------------------------------------------------
(* The answers of the commands.                                             *)

Answers == [id : Ids, ok : BOOLEAN]
RanIds == {i \in Ids : \E c \in Conns : executed[c][i] > 0}

CommandTypeOK ==
    /\ DOMAIN call = Calls /\ pending \in [Ids -> Calls \cup {None}]
    /\ ackCh \in [Calls -> Seq(Answers)] /\ acks \in [Conns -> Seq(Answers)]
    /\ executed \in [Conns -> [Ids -> Nat]]

(* A call is in the table only between its entry and its deferred delete,   *)
(* and its channel is empty as long as it is there.                         *)
TableInv ==
    /\ \A i \in Ids : pending[i] # None =>
         /\ IdOf[pending[i]] = i /\ ackCh[pending[i]] = <<>>
         /\ call[pending[i]] \in {"send", "wait", "drop_ok", "drop_failed"}
    /\ \A k \in Calls :
         /\ call[k] \in {"idle", "found"} => ackCh[k] = <<>>
         /\ Len(ackCh[k]) <= 1

(* Whatever answer there is, on the wire, in a channel or taken from it,    *)
(* its command was run.                                                     *)
AnswerInv ==
    /\ \A c \in Conns : \A n \in 1..Len(acks[c]) : acks[c][n].id \in RanIds
    /\ \A k \in Calls : ackCh[k] # <<>> \/ call[k] \in {"drop_ok", "ok"} => IdOf[k] \in RanIds

CommandInv == CommandTypeOK /\ TableInv /\ AnswerInv

LEMMA CommandInitially == CommandInit => CommandInv
BY CommandConstantsOK
DEF CommandInit, CommandInv, CommandTypeOK, TableInv, AnswerInv, Ids

LEMMA CallStepKeeps ==
    ASSUME CommandInv, NEW k \in Calls, CallStep(k)
    PROVE  CommandInv'
<1> USE CommandConstantsOK DEF CommandInv, CommandTypeOK, CallGoes
<1>1. IdOf[k] \in Ids /\ \A j \in Calls : IdOf[j] \in Ids
  BY DEF Ids
<1>2. CASE UNCHANGED <<ackCh, acks, executed>> /\ TableInv' /\ DOMAIN call' = Calls
           /\ pending' \in [Ids -> Calls \cup {None}]
           /\ \A j \in Calls : call'[j] \in {"drop_ok", "ok"} =>
                call[j] \in {"drop_ok", "ok"} \/ ackCh[j] # <<>>
  BY <1>2 DEF AnswerInv, RanIds
<1>3. ASSUME NEW a \in Agents, SendCommand(k, a) PROVE CommandInv'
  <2>1. TableInv'
    <3>1. /\ call[k] = "idle" /\ call'[k] \in {"found", "failed"}
          /\ \A j \in Calls \ {k} : call'[j] = call[j]
          /\ UNCHANGED <<pending, ackCh>>
      BY <1>3 DEF SendCommand
    <3> QED
      BY <3>1 DEF TableInv
  <2> QED
    BY <1>2, <1>3, <2>1 DEF SendCommand, wireVars
<1>4. CASE SendCommandWaits(k)
  <2>1. /\ ackCh[k] = <<>> /\ pending'[IdOf[k]] = k /\ call'[k] = "send"
        /\ \A i \in Ids \ {IdOf[k]} : pending'[i] = pending[i] /\ pending[i] # k
        /\ \A j \in Calls \ {k} : call'[j] = call[j]
        /\ ackCh' = ackCh
    <3>1. /\ call[k] = "found" /\ pending' = [pending EXCEPT ![IdOf[k]] = k]
          /\ call' = [call EXCEPT ![k] = "send"] /\ ackCh' = ackCh
      BY <1>4 DEF SendCommandWaits
    <3>2. ackCh[k] = <<>> /\ \A i \in Ids : pending[i] # k
      BY <3>1 DEF TableInv
    <3> QED
      BY <1>1, <3>1, <3>2
  <2>2. TableInv'
    <3>1. ASSUME NEW i \in Ids, i # IdOf[k], pending'[i] # None
          PROVE  /\ pending'[i] \in Calls \ {k} /\ pending'[i] = pending[i]
                 /\ call'[pending'[i]] = call[pending[i]]
      BY <2>1, <3>1
    <3> QED
      BY <1>1, <2>1, <3>1, SMTT(20) DEF TableInv
  <2> QED
    BY <1>1, <1>2, <1>4, <2>2 DEF SendCommandWaits, wireVars
<1>5. CASE sendCommand(k)
  <2>1. TableInv'
    <3>1. /\ call[k] = "send" /\ call'[k] \in {"wait", "drop_failed"}
          /\ \A j \in Calls \ {k} : call'[j] = call[j]
          /\ UNCHANGED <<pending, ackCh>>
      BY <1>5 DEF sendCommand
    <3> QED
      BY <3>1 DEF TableInv
  <2> QED
    BY <1>2, <1>5, <2>1 DEF sendCommand
<1>6. CASE SendCommandEnds(k)
  <2>1. TableInv'
    <3>1. /\ call[k] = "wait" /\ call'[k] \in {"drop_ok", "drop_failed"}
          /\ \A j \in Calls \ {k} : call'[j] = call[j]
          /\ UNCHANGED <<pending, ackCh>>
      BY <1>6 DEF SendCommandEnds
    <3> QED
      BY <3>1 DEF TableInv
  <2> QED
    BY <1>2, <1>6, <2>1 DEF SendCommandEnds, wireVars
<1>7. CASE SendCommandReturns(k)
  <2>1. TableInv'
    <3>1. /\ call[k] \in {"drop_ok", "drop_failed"} /\ call'[k] \in {"ok", "failed"}
          /\ \A j \in Calls \ {k} : call'[j] = call[j]
          /\ ackCh' = ackCh /\ pending'[IdOf[k]] = None
          /\ \A i \in Ids \ {IdOf[k]} : pending'[i] = pending[i]
      BY <1>1, <1>7 DEF SendCommandReturns
    <3>2. \A i \in Ids : pending'[i] # None =>
            pending'[i] = pending[i] /\ pending[i] \in Calls \ {k}
      <4>1. \A i \in Ids \ {IdOf[k]} : pending[i] # k
        BY DEF TableInv
      <4> QED
        BY <1>1, <3>1, <4>1
    <3>3. \A i \in Ids : pending'[i] # None => call'[pending'[i]] = call[pending[i]]
      BY <3>1, <3>2
    <3>4. \A i \in Ids : pending'[i] # None =>
            /\ IdOf[pending'[i]] = i /\ ackCh'[pending'[i]] = <<>>
            /\ call'[pending'[i]] \in {"send", "wait", "drop_ok", "drop_failed"}
      BY <3>1, <3>2, <3>3 DEF TableInv
    <3>5. \A j \in Calls : /\ call'[j] \in {"idle", "found"} => ackCh'[j] = <<>>
                           /\ Len(ackCh'[j]) <= 1
      BY <3>1 DEF TableInv
    <3> QED
      BY <3>4, <3>5 DEF TableInv
  <2> QED
    BY <1>1, <1>2, <1>7, <2>1 DEF SendCommandReturns, wireVars
<1> QED
  BY <1>3, <1>4, <1>5, <1>6, <1>7 DEF CallStep

LEMMA HeadOf ==
    ASSUME NEW S, NEW s \in Seq(S), s # <<>>
    PROVE  Head(s) = s[1] /\ 1 \in 1..Len(s) /\ Head(s) \in S
<1>1. Len(s) \in Nat \ {0}
  OBVIOUS
<1> QED
  BY <1>1

(* resolve takes the waiter out of the table before its channel is filled. *)
LEMMA ResolveKeeps ==
    ASSUME CommandInv, NEW c \in Conns, resolve(c)
    PROVE  CommandInv'
<1> USE CommandConstantsOK DEF CommandInv, CommandTypeOK
<1> DEFINE a == Head(acks[c])
           k == pending[a.id]
<1>1. /\ acks[c] \in Seq(Answers) /\ acks[c] # <<>> /\ UNCHANGED <<call, executed>>
      /\ acks' = [acks EXCEPT ![c] = Tail(@)]
      /\ pending' = [pending EXCEPT ![a.id] = None]
      /\ ackCh' = IF k = None THEN ackCh ELSE [ackCh EXCEPT ![k] = Append(@, a)]
  BY DEF resolve
<1>2. a = acks[c][1] /\ 1 \in 1..Len(acks[c]) /\ a \in Answers
  <2> HIDE DEF CommandInv, CommandTypeOK
  <2> QED
    BY <1>1, HeadOf
<1>3. a.id \in Ids /\ a.id \in RanIds /\ RanIds' = RanIds
  BY <1>1, <1>2 DEF AnswerInv, Answers, RanIds
<1> HIDE DEF a
<1>4. /\ acks' \in [Conns -> Seq(Answers)]
      /\ \A d \in Conns : \A n \in 1..Len(acks'[d]) :
           \E m \in 1..Len(acks[d]) : acks'[d][n] = acks[d][m]
  <2>1. /\ Tail(acks[c]) \in Seq(Answers)
        /\ \A n \in 1..Len(Tail(acks[c])) :
             n + 1 \in 1..Len(acks[c]) /\ Tail(acks[c])[n] = acks[c][n + 1]
    BY <1>1
  <2>2. acks'[c] = Tail(acks[c]) /\ \A d \in Conns \ {c} : acks'[d] = acks[d]
    BY <1>1
  <2>3. acks' \in [Conns -> Seq(Answers)]
    BY <1>1, <2>1
  <2>4. ASSUME NEW d \in Conns, NEW n \in 1..Len(acks'[d])
        PROVE  \E m \in 1..Len(acks[d]) : acks'[d][n] = acks[d][m]
    <3>1. CASE d = c
      <4>1. n \in 1..Len(Tail(acks[c])) /\ acks'[d] = Tail(acks[c])
        BY <2>2, <3>1
      <4> QED
        BY <2>1, <3>1, <4>1
    <3>2. CASE d # c
      BY <2>2, <3>2
    <3> QED
      BY <3>1, <3>2
  <2> QED
    BY <2>3, <2>4
<1>5. \A d \in Conns : \A n \in 1..Len(acks'[d]) : acks'[d][n].id \in RanIds'
  BY <1>3, <1>4 DEF AnswerInv
<1>6. /\ pending' \in [Ids -> Calls \cup {None}] /\ pending'[a.id] = None
      /\ \A i \in Ids \ {a.id} : pending'[i] = pending[i]
  BY <1>1, <1>3
<1>7. CASE k = None
  <2>1. ackCh' = ackCh
    BY <1>1, <1>7
  <2>2. TableInv'
    BY <1>1, <1>6, <2>1 DEF TableInv
  <2>3. AnswerInv'
    BY <1>1, <1>3, <1>5, <2>1 DEF AnswerInv
  <2> QED
    BY <1>1, <1>4, <1>6, <2>1, <2>2, <2>3
<1>8. CASE k # None
  <2>1. /\ k \in Calls /\ IdOf[k] = a.id /\ ackCh[k] = <<>>
        /\ call[k] \in {"send", "wait", "drop_ok", "drop_failed"}
    BY <1>3, <1>8, SMTT(20) DEF TableInv
  <2>2. /\ Append(ackCh[k], a) \in Seq(Answers) /\ Len(Append(ackCh[k], a)) = 1
    <3> HIDE DEF k, CommandInv, CommandTypeOK
    <3> QED
      BY <1>2, <2>1
  <2>3. /\ ackCh' \in [Calls -> Seq(Answers)] /\ Len(ackCh'[k]) = 1
        /\ \A j \in Calls \ {k} : ackCh'[j] = ackCh[j]
    <3>1. ackCh' = [ackCh EXCEPT ![k] = Append(ackCh[k], a)]
      BY <1>1, <1>8
    <3> HIDE DEF k
    <3> QED
      BY <2>1, <2>2, <3>1
  <2>4. \A i \in Ids : pending'[i] # None =>
          pending'[i] = pending[i] /\ pending[i] # k /\ pending[i] \in Calls
    BY <1>6, <2>1 DEF TableInv
  <2>5. TableInv'
    <3> HIDE DEF k
    <3> QED
      BY <1>1, <2>1, <2>3, <2>4, SMTT(20) DEF TableInv
  <2>6. AnswerInv'
    <3> HIDE DEF k
    <3> QED
      BY <1>1, <1>3, <1>5, <2>1, <2>3 DEF AnswerInv
  <2> QED
    BY <1>1, <1>4, <1>6, <2>3, <2>5, <2>6
<1> QED
  BY <1>7, <1>8

LEMMA WireStepKeeps ==
    ASSUME CommandInv, NEW c \in Conns, WireStep(c)
    PROVE  CommandInv'
<1> USE CommandConstantsOK DEF CommandInv, CommandTypeOK
<1>1. \A d \in Conns : \A n \in 1..Len(acks[d]) :
        acks[d][n].id \in RanIds
  BY DEF AnswerInv
<1>2. ASSUME UNCHANGED callVars, executed' \in [Conns -> [Ids -> Nat]], RanIds \subseteq RanIds',
             acks' \in [Conns -> Seq(Answers)],
             \A d \in Conns : \A n \in 1..Len(acks'[d]) : acks'[d][n].id \in RanIds'
      PROVE  CommandInv'
  <2>1. TableInv'
    BY <1>2 DEF TableInv, callVars
  <2>2. AnswerInv'
    BY <1>2 DEF AnswerInv, callVars
  <2> QED
    BY <1>2, <2>1, <2>2 DEF callVars
<1>3. CASE dispatchCommand(c)
  <2>1. UNCHANGED <<callVars, acks, executed>>
    BY <1>3 DEF dispatchCommand, ClientRest
  <2>2. RanIds' = RanIds
    BY <2>1 DEF RanIds
  <2> QED
    BY <1>1, <1>2, <2>1, <2>2
<1>4. CASE WireLost(c)
  <2>1. UNCHANGED <<callVars, executed>> /\ acks' = [acks EXCEPT ![c] = <<>>]
    BY <1>4 DEF WireLost, ClientRest
  <2>2. RanIds' = RanIds
    BY <2>1 DEF RanIds
  <2>3. /\ acks' \in [Conns -> Seq(Answers)]
        /\ \A d \in Conns : acks'[d] = acks[d] \/ Len(acks'[d]) = 0
    BY <2>1
  <2>4. \A d \in Conns : \A n \in 1..Len(acks'[d]) : acks'[d][n].id \in RanIds'
    BY <1>1, <2>2, <2>3
  <2> QED
    BY <1>2, <2>1, <2>2, <2>3, <2>4, SMTT(20)
<1>5. ASSUME NEW i \in Ids, NEW ok \in BOOLEAN, CommandDone(c, i, ok)
      PROVE  CommandInv'
  <2> DEFINE a == [id |-> i, ok |-> ok]
  <2>1. UNCHANGED callVars /\ executed' = [executed EXCEPT ![c][i] = @ + 1]
    BY <1>5 DEF CommandDone, ClientRest
  <2>2. executed' \in [Conns -> [Ids -> Nat]] /\ RanIds \subseteq RanIds' /\ i \in RanIds'
    BY <2>1 DEF RanIds
  <2>3. acks' = acks \/ acks' = [acks EXCEPT ![c] = Append(@, a)]
    BY <1>5 DEF CommandDone
  <2>4. a \in Answers /\ a.id = i
    BY DEF Answers
  <2>5. /\ acks' \in [Conns -> Seq(Answers)]
        /\ \A d \in Conns : \A n \in 1..Len(acks'[d]) :
             \/ acks'[d][n] = a
             \/ n \in 1..Len(acks[d]) /\ acks'[d][n] = acks[d][n]
    <3> HIDE DEF a
    <3>1. CASE acks' = acks
      BY <3>1
    <3>2. CASE acks' = [acks EXCEPT ![c] = Append(@, a)]
      <4>1. /\ acks'[c] = Append(acks[c], a) /\ acks[c] \in Seq(Answers)
            /\ \A d \in Conns \ {c} : acks'[d] = acks[d]
        BY <3>2
      <4>2. /\ Append(acks[c], a) \in Seq(Answers)
            /\ \A n \in 1..Len(Append(acks[c], a)) :
                 \/ Append(acks[c], a)[n] = a
                 \/ n \in 1..Len(acks[c]) /\ Append(acks[c], a)[n] = acks[c][n]
        BY <2>4, <4>1
      <4>3. acks' \in [Conns -> Seq(Answers)]
        BY <3>2, <4>1, <4>2
      <4> QED
        BY <4>1, <4>2, <4>3
    <3> QED
      BY <2>3, <3>1, <3>2
  <2>6. \A d \in Conns : \A n \in 1..Len(acks'[d]) : acks'[d][n].id \in RanIds'
    BY <1>1, <2>2, <2>4, <2>5
  <2> QED
    BY <1>2, <2>1, <2>2, <2>5, <2>6
<1>6. CASE resolve(c)
  BY <1>6, ResolveKeeps
<1> QED
  BY <1>3, <1>4, <1>5, <1>6 DEF WireStep

LEMMA CommandStep == CommandInv /\ [CommandNext]_commandVars => CommandInv'
<1> SUFFICES ASSUME CommandInv, [CommandNext]_commandVars PROVE CommandInv' OBVIOUS
<1>1. ASSUME UNCHANGED <<callVars, wireVars>> PROVE CommandInv'
  BY <1>1 DEF CommandInv, CommandTypeOK, TableInv, AnswerInv, RanIds, callVars, wireVars
<1> QED
  BY <1>1, CallStepKeeps, WireStepKeeps DEF CommandNext, commandVars

LEMMA CommandInvariant == CommandSpec => []CommandInv
BY CommandInitially, CommandStep, PTL DEF CommandSpec

(* resolve never blocks the control loop on the channel of a call, and the  *)
(* table is empty when no SendCommand is under way, whatever ids the calls  *)
(* share and however often a frame is answered.                             *)
THEOREM WaitersSafe == CommandSpec => []WaitersKept
<1>1. ASSUME CommandInv PROVE WaitersKept
  <2>1. \A k \in Calls : Len(ackCh[k]) <= 1
    BY <1>1 DEF CommandInv, TableInv
  <2>2. \A i \in Ids : pending[i] # None =>
          pending[i] \in Calls /\ call[pending[i]] \notin {"idle", "found", "ok", "failed"}
    BY <1>1 DEF CommandInv, CommandTypeOK, TableInv
  <2> QED
    BY <2>1, <2>2 DEF WaitersKept
<1> QED
  BY <1>1, CommandInvariant, PTL

(* A SendCommand that returns without an error was run to its end by some   *)
(* client, although ids are reused and connections come and go.             *)
THEOREM SuccessProved == CommandSpec => []SuccessIsReal
<1>1. CommandInv => SuccessIsReal
  BY DEF CommandInv, AnswerInv, RanIds, SuccessIsReal
<1> QED
  BY <1>1, CommandInvariant, PTL
=============================================================================
