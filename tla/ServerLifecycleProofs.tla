------------------------ MODULE ServerLifecycleProofs ------------------------
(* Proofs about ServerLifecycle for any number of Runs and connections and  *)
(* any MaxConns: the slots of connSem, the connections and the listeners    *)
(* are given back.                                                          *)
EXTENDS ServerLifecycle, FiniteSetTheorems, TLAPS

Accepting == {r \in Runs : At(r, "accept")}
Busy == {c \in Conns : conn[c] \in {"setup", "handling", "closed"}}

LifeTypeOK ==
    /\ run \in [Runs -> {"idle", "listen", "refused", "install", "acquire", "accept", "backoff",
                         "leave", "reset", "returned"}]
    /\ watcher \in [Runs -> {"none", "waiting", "gone"}]
    /\ conn \in [Conns -> {"new", "setup", "handling", "closed", "ended"}]

(* Each slot has a holder; and there are only finitely many of those. *)
SlotInv ==
    /\ IsFiniteSet(Accepting) /\ IsFiniteSet(Busy)
    /\ connSem = Cardinality(Accepting) + Cardinality(Busy)
    /\ connSem \in 0..MaxConns

ConnInv == \A c \in Conns : conn[c] \in {"closed", "ended"} => c \notin connOpen

(* A Run opens its listener after it has entered and before its watcher     *)
(* starts; it leaves its loop only when its context is cancelled or the     *)
(* listener closed; and a watcher that has ended has seen one of the two.   *)
ListenerInv ==
    \A r \in Runs :
        /\ run[r] \in {"idle", "listen", "refused"} => r \notin open
        /\ run[r] \in {"leave", "reset", "returned"} => r \in cancelled \/ r \notin open
        /\ run[r] \in {"idle", "listen", "refused", "install"} => watcher[r] = "none"
        /\ watcher[r] = "gone" => r \notin open

LifeInv == LifeTypeOK /\ SlotInv /\ ConnInv /\ ListenerInv

-----------------------------------------------------------------------------
LEMMA LifeInitially == Init => LifeInv
<1> SUFFICES ASSUME Init PROVE LifeInv
    OBVIOUS
<1>1. LifeTypeOK /\ ConnInv /\ ListenerInv
    BY DEF Init, LifeTypeOK, ConnInv, ListenerInv
<1>2. Accepting = {} /\ Busy = {} /\ connSem = 0
    BY DEF Init, Accepting, Busy, At
<1>3. SlotInv
    BY <1>2, FS_EmptySet, MaxConnsAssumption DEF SlotInv
<1> QED
    BY <1>1, <1>3 DEF LifeInv

(* The steps that touch neither slots nor connections. *)
LEMMA RunMoves ==
    ASSUME LifeInv, NEW r \in Runs,
           \/ RunEnters(r) \/ RunListenFails(r) \/ RunListens(r) \/ RunInstalls(r)
           \/ RunLeavesLoop(r) \/ RunResets(r) \/ Backoff(r)
    PROVE  LifeInv'
<1> USE DEF LifeInv, LifeTypeOK, At, Go
<1>1. UNCHANGED <<connSem, conn, connOpen, cancelled>>
    BY DEF RunEnters, RunListenFails, RunListens, RunInstalls, RunLeavesLoop, RunResets, Backoff,
           connVars
<1>2. /\ run[r] # "accept"
      /\ \E pc \in {"listen", "refused", "install", "acquire", "leave", "reset", "returned"} :
             run' = [run EXCEPT ![r] = pc]
    BY DEF RunEnters, RunListenFails, RunListens, RunInstalls, RunLeavesLoop, RunResets, Backoff
<1>3. LifeTypeOK'
    BY <1>1, <1>2 DEF RunEnters, RunListenFails, RunListens, RunInstalls, RunLeavesLoop, RunResets,
                      Backoff
<1>4. Accepting' = Accepting /\ Busy' = Busy
    BY <1>1, <1>2 DEF Accepting, Busy
<1>5. SlotInv' /\ ConnInv'
    BY <1>1, <1>4 DEF SlotInv, ConnInv
<1>6. ListenerInv'
    <2>1. CASE RunEnters(r) \/ RunListenFails(r)
        BY <2>1 DEF RunEnters, RunListenFails, ListenerInv
    <2>2. CASE RunListens(r)
        BY <2>2 DEF RunListens, ListenerInv
    <2>3. CASE RunInstalls(r)
        BY <2>3 DEF RunInstalls, ListenerInv
    <2>4. CASE RunLeavesLoop(r) \/ RunResets(r) \/ Backoff(r)
        BY <2>4 DEF RunLeavesLoop, RunResets, Backoff, ListenerInv
    <2> QED
        BY <2>1, <2>2, <2>3, <2>4
<1> QED
    BY <1>3, <1>5, <1>6

(* The accept loop: a slot is taken, passed to a connection, or returned. *)
LEMMA AcceptMoves ==
    ASSUME LifeInv, NEW r \in Runs,
           AcquireSlot(r) \/ (\E c \in Conns : Accepts(r, c)) \/ AcceptError(r)
    PROVE  LifeInv'
<1> USE DEF LifeInv, LifeTypeOK, At, Go
<1>1. CASE AcquireSlot(r)
    <2>1. LifeTypeOK' /\ ConnInv' /\ ListenerInv' /\ Busy' = Busy
        BY <1>1 DEF AcquireSlot, ConnInv, ListenerInv, Busy
    <2>2. CASE connSem < MaxConns /\ connSem' = connSem + 1 /\ run' = [run EXCEPT ![r] = "accept"]
        <3>1. Accepting' = Accepting \cup {r} /\ r \notin Accepting
            BY <1>1, <2>2 DEF AcquireSlot, Accepting
        <3>2. /\ IsFiniteSet(Accepting')
              /\ Cardinality(Accepting') = Cardinality(Accepting) + 1
            BY <3>1, FS_AddElement DEF SlotInv
        <3> QED
            BY <2>1, <2>2, <3>2, FS_CardinalityType, MaxConnsAssumption DEF SlotInv
    <2>3. CASE connSem' = connSem /\ run' = [run EXCEPT ![r] = "leave"]
        <3>1. Accepting' = Accepting
            BY <1>1, <2>3 DEF AcquireSlot, Accepting
        <3> QED
            BY <2>1, <2>3, <3>1 DEF SlotInv
    <2> QED
        BY <1>1, <2>2, <2>3 DEF AcquireSlot
<1>2. ASSUME NEW c \in Conns, Accepts(r, c) PROVE LifeInv'
    <2>1. LifeTypeOK' /\ ConnInv' /\ ListenerInv'
        BY <1>2 DEF Accepts, ConnInv, ListenerInv
    <2>2. /\ Accepting' = Accepting \ {r} /\ r \in Accepting
          /\ Busy' = Busy \cup {c} /\ c \notin Busy
        BY <1>2 DEF Accepts, Accepting, Busy
    <2>3. /\ IsFiniteSet(Accepting') /\ IsFiniteSet(Busy')
          /\ Cardinality(Accepting') = Cardinality(Accepting) - 1
          /\ Cardinality(Busy') = Cardinality(Busy) + 1
        BY <2>2, FS_AddElement, FS_RemoveElement DEF SlotInv
    <2> QED
        BY <1>2, <2>1, <2>3, FS_CardinalityType DEF Accepts, SlotInv
<1>3. CASE AcceptError(r)
    <2>1. LifeTypeOK' /\ ConnInv' /\ ListenerInv' /\ Busy' = Busy
        BY <1>3 DEF AcceptError, ConnInv, ListenerInv, Busy
    <2>2. Accepting' = Accepting \ {r} /\ r \in Accepting
        BY <1>3 DEF AcceptError, Accepting
    <2>3. /\ IsFiniteSet(Accepting')
          /\ Cardinality(Accepting') = Cardinality(Accepting) - 1
        BY <2>2, FS_RemoveElement DEF SlotInv
    <2>4. /\ Cardinality(Accepting) \in Nat /\ Cardinality(Accepting') \in Nat
          /\ Cardinality(Busy) \in Nat
        BY <2>3, FS_CardinalityType DEF SlotInv
    <2>5. connSem' = connSem - 1
        BY <1>3 DEF AcceptError
    <2>6. SlotInv'
        BY <2>1, <2>3, <2>4, <2>5, MaxConnsAssumption DEF SlotInv
    <2> QED
        BY <2>1, <2>6
<1> QED
    BY <1>1, <1>2, <1>3

(* handleConn keeps its slot to the end, and closes first. *)
LEMMA ConnMoves ==
    ASSUME LifeInv, NEW c \in Conns, ConnStep(c)
    PROVE  LifeInv'
<1> USE DEF LifeInv, LifeTypeOK, At
<1>1. LifeTypeOK' /\ ConnInv' /\ ListenerInv' /\ Accepting' = Accepting
    BY DEF ConnStep, handleConnSetup, handleConnEnds, handleConnReleases, ConnRest, runVars,
           ConnInv, ListenerInv, Accepting
<1>2. CASE handleConnSetup(c) \/ handleConnEnds(c)
    <2>1. Busy' = Busy /\ connSem' = connSem
        BY <1>2 DEF handleConnSetup, handleConnEnds, Busy
    <2> QED
        BY <1>1, <2>1 DEF SlotInv
<1>3. CASE handleConnReleases(c)
    <2>1. Busy' = Busy \ {c} /\ c \in Busy
        BY <1>3 DEF handleConnReleases, Busy
    <2>2. IsFiniteSet(Busy') /\ Cardinality(Busy') = Cardinality(Busy) - 1
        BY <2>1, FS_RemoveElement DEF SlotInv
    <2>3. /\ Cardinality(Busy) \in Nat /\ Cardinality(Busy') \in Nat
          /\ Cardinality(Accepting) \in Nat
        BY <2>2, FS_CardinalityType DEF SlotInv
    <2>4. connSem' = connSem - 1
        BY <1>3 DEF handleConnReleases
    <2>5. SlotInv'
        BY <1>1, <2>2, <2>3, <2>4, MaxConnsAssumption DEF SlotInv
    <2> QED
        BY <1>1, <2>5
<1> QED
    BY <1>2, <1>3 DEF ConnStep

(* Watcher, Close and cancellation only close listeners. *)
LEMMA ListenerMoves ==
    ASSUME LifeInv, (\E r \in Runs : WatcherEnds(r) \/ Cancel(r)) \/ Close
    PROVE  LifeInv'
<1> USE DEF LifeInv, LifeTypeOK, At
<1>1. LifeTypeOK' /\ UNCHANGED <<run, connSem, conn, connOpen>>
    BY DEF WatcherEnds, Cancel, Close, runVars, connVars
<1>2. SlotInv' /\ ConnInv'
    BY <1>1 DEF SlotInv, ConnInv, Accepting, Busy
<1>3. ASSUME NEW r \in Runs, WatcherEnds(r) PROVE ListenerInv'
    BY <1>3 DEF WatcherEnds, Done, ListenerInv
<1>4. ASSUME NEW r \in Runs, Cancel(r) PROVE ListenerInv'
    BY <1>4 DEF Cancel, runVars, ListenerInv
<1>5. CASE Close
    <2>1. UNCHANGED <<run, watcher, cancelled>>
        BY <1>5 DEF Close
    <2>2. \A r \in Runs : r \notin open => r \notin open'
        BY <1>5 DEF Close
    <2> QED
        BY <1>1, <1>2, <2>1, <2>2 DEF ListenerInv
<1> QED
    BY <1>1, <1>2, <1>3, <1>4, <1>5

LEMMA LifeStep == LifeInv /\ [Next]_lifeVars => LifeInv'
<1>1. ASSUME LifeInv, UNCHANGED lifeVars PROVE LifeInv'
    BY <1>1 DEF lifeVars, runVars, connVars, LifeInv, LifeTypeOK, SlotInv, ConnInv, ListenerInv,
                Accepting, Busy, At
<1> QED
    BY <1>1, RunMoves, AcceptMoves, ConnMoves, ListenerMoves DEF Next, RunStep

(* Over any number of restarts, connections, Closes and cancellations in    *)
(* any order: every slot of connSem is held by one accept loop or one       *)
(* connection, an ended handleConn has closed its connection, and a         *)
(* finished Run whose watcher has ended has no open listener (AcceptLoop,   *)
(* handleConn, Run, Close).                                                 *)
THEOREM ServerReturnsAll == LifeSpec => []ResourcesReturned
<1>1. LifeInv => ResourcesReturned
    BY DEF LifeInv, SlotInv, ConnInv, ListenerInv, Accepting, Busy, ResourcesReturned,
           SlotsBalanced, ConnClosed, NoListenerLeak
<1> QED
    BY <1>1, LifeInitially, LifeStep, PTL DEF LifeSpec
=============================================================================
