--------------------------- MODULE ServerLifecycle ---------------------------
(***************************************************************************)
(* The generic server of internal/binding: Run with its atomic runState,    *)
(* the watcher goroutine that closes the listener when the context ends,    *)
(* AcceptLoop with the connection semaphore, handleConn, and Close.  Each   *)
(* member of Runs is one call of Run with its own context and its own       *)
(* listener; a server may be run again after it stopped.                    *)
(***************************************************************************)
EXTENDS Integers, FiniteSets

CONSTANTS
    Runs,      \* calls of Run
    Conns,     \* connections that may arrive
    MaxConns,  \* capacity of connSem
    MaxCloses, \* bound: calls of Close
    None

ASSUME MaxConnsAssumption == MaxConns \in Nat

VARIABLES
    runState,  \* stopped, starting, running
    listener,  \* the Run whose listener is stored in the server
    open,      \* listeners that are open
    run,       \* where each Run is
    cancelled, \* Runs whose context is cancelled
    watcher,   \* the goroutine that closes the listener of each Run
    connSem,   \* slots in use
    conn,      \* state of each connection
    connOpen,  \* accepted connections that have not been closed
    closes

runVars == <<runState, listener, run, watcher>>
connVars == <<connSem, conn, connOpen>>
lifeVars == <<runVars, open, cancelled, connVars, closes>>

Init ==
    /\ runState = "stopped" /\ listener = None /\ open = {}
    /\ run = [r \in Runs |-> "idle"]
    /\ cancelled = {}
    /\ watcher = [r \in Runs |-> "none"]
    /\ connSem = 0
    /\ conn = [c \in Conns |-> "new"]
    /\ connOpen = {}
    /\ closes = 0

At(r, pc) == run[r] = pc
Go(r, pc) == run' = [run EXCEPT ![r] = pc]

-----------------------------------------------------------------------------
(* Run.                                                                     *)

(* The CAS stopped -> starting. *)
RunEnters(r) ==
    /\ At(r, "idle")
    /\ IF runState = "stopped" THEN runState' = "starting" /\ Go(r, "listen")
       ELSE UNCHANGED runState /\ Go(r, "refused")
    /\ UNCHANGED <<listener, watcher, open, cancelled, connVars, closes>>

(* Listen fails: reset, and the deferred function resets once more. *)
RunListenFails(r) ==
    /\ At(r, "listen")
    /\ runState' = "stopped"
    /\ Go(r, "reset")
    /\ UNCHANGED <<listener, watcher, open, cancelled, connVars, closes>>

RunListens(r) ==
    /\ At(r, "listen")
    /\ open' = open \cup {r}
    /\ Go(r, "install")
    /\ UNCHANGED <<runState, listener, watcher, cancelled, connVars, closes>>

(* Listener and state change together under mu; then the watcher starts. *)
RunInstalls(r) ==
    /\ At(r, "install")
    /\ listener' = r /\ runState' = "running"
    /\ watcher' = [watcher EXCEPT ![r] = "waiting"]
    /\ Go(r, "acquire")
    /\ UNCHANGED <<open, cancelled, connVars, closes>>

(* close(done), then the deferred reset of runState: both of its branches   *)
(* end in stopped.                                                          *)
RunLeavesLoop(r) ==
    /\ At(r, "leave")
    /\ Go(r, "reset")
    /\ UNCHANGED <<runState, listener, watcher, open, cancelled, connVars, closes>>

RunResets(r) ==
    /\ At(r, "reset")
    /\ runState' = "stopped"
    /\ Go(r, "returned")
    /\ UNCHANGED <<listener, watcher, open, cancelled, connVars, closes>>

Done(r) == run[r] \in {"reset", "returned"}

(* Mutant: a watcher woken by done leaves the listener alone. *)
WatcherEndsOnDone(r) ==
    /\ watcher[r] = "waiting"
    /\ \/ r \in cancelled /\ open' = open \ {r}
       \/ Done(r) /\ UNCHANGED open
    /\ watcher' = [watcher EXCEPT ![r] = "gone"]
    /\ UNCHANGED <<runState, listener, run, cancelled, connVars, closes>>

(* The select takes either branch when both are ready. *)
WatcherEnds(r) ==
    /\ watcher[r] = "waiting"
    /\ r \in cancelled \/ Done(r)
    /\ open' = IF r \in cancelled THEN open \ {r} ELSE open
    /\ watcher' = [watcher EXCEPT ![r] = "gone"]
    /\ UNCHANGED <<runState, listener, run, cancelled, connVars, closes>>

-----------------------------------------------------------------------------
(* AcceptLoop: a slot first, then a connection.                             *)

(* Mutant: the wait for a slot ignores the context. *)
AcquireSlotBlindly(r) ==
    /\ At(r, "acquire")
    /\ connSem < MaxConns /\ connSem' = connSem + 1 /\ Go(r, "accept")
    /\ UNCHANGED <<runState, listener, watcher, open, cancelled, conn, connOpen, closes>>

AcquireSlot(r) ==
    /\ At(r, "acquire")
    /\ \/ connSem < MaxConns /\ connSem' = connSem + 1 /\ Go(r, "accept")
       \/ r \in cancelled /\ Go(r, "leave") /\ UNCHANGED connSem
    /\ UNCHANGED <<runState, listener, watcher, open, cancelled, conn, connOpen, closes>>

Accepts(r, c) ==
    /\ At(r, "accept") /\ r \in open
    /\ conn[c] = "new"
    /\ conn' = [conn EXCEPT ![c] = "setup"]
    /\ connOpen' = connOpen \cup {c}
    /\ Go(r, "acquire")
    /\ UNCHANGED <<runState, listener, watcher, open, cancelled, connSem, closes>>

(* Accept fails because the context or the listener is gone, or for a       *)
(* moment (back-off, then again).                                           *)
AcceptError(r) ==
    /\ At(r, "accept")
    /\ connSem' = connSem - 1
    /\ \/ (r \in cancelled \/ r \notin open) /\ Go(r, "leave")
       \/ r \notin cancelled /\ r \in open /\ Go(r, "backoff")
    /\ UNCHANGED <<runState, listener, watcher, open, cancelled, conn, connOpen, closes>>

Backoff(r) ==
    /\ At(r, "backoff")
    /\ Go(r, IF r \in cancelled THEN "leave" ELSE "acquire")
    /\ UNCHANGED <<runState, listener, watcher, open, cancelled, connVars, closes>>

-----------------------------------------------------------------------------
(* handleConn.  Every way out closes the connection and returns the slot.   *)

ConnRest == UNCHANGED <<runVars, open, cancelled, closes>>

(* newTransport fails or panics: closeConn; otherwise Handle runs. *)
handleConnSetup(c) ==
    /\ conn[c] = "setup"
    /\ \/ conn' = [conn EXCEPT ![c] = "handling"] /\ UNCHANGED connOpen
       \/ conn' = [conn EXCEPT ![c] = "closed"] /\ connOpen' = connOpen \ {c}
    /\ UNCHANGED connSem /\ ConnRest

(* Handle returned or panicked: the deferred tr.Close. *)
handleConnEnds(c) ==
    /\ conn[c] = "handling"
    /\ conn' = [conn EXCEPT ![c] = "closed"]
    /\ connOpen' = connOpen \ {c}
    /\ UNCHANGED connSem /\ ConnRest

handleConnReleases(c) ==
    /\ conn[c] = "closed"
    /\ conn' = [conn EXCEPT ![c] = "ended"]
    /\ connSem' = connSem - 1
    /\ UNCHANGED connOpen /\ ConnRest

-----------------------------------------------------------------------------
(* Close, and the owner of a context cancelling it.                         *)

Close ==
    /\ closes < MaxCloses
    /\ closes' = closes + 1
    /\ IF runState = "running"
       THEN runState' = "stopped" /\ open' = open \ {listener}
       ELSE UNCHANGED <<runState, open>>
    /\ UNCHANGED <<listener, run, watcher, cancelled, connVars>>

Cancel(r) ==
    /\ r \notin cancelled
    /\ cancelled' = cancelled \cup {r}
    /\ UNCHANGED <<runVars, open, connVars, closes>>

RunStep(r) ==
    \/ RunListenFails(r) \/ RunListens(r) \/ RunInstalls(r) \/ RunLeavesLoop(r) \/ RunResets(r)
    \/ AcquireSlot(r) \/ (\E c \in Conns : Accepts(r, c)) \/ AcceptError(r) \/ Backoff(r)

ConnStep(c) == handleConnSetup(c) \/ handleConnEnds(c) \/ handleConnReleases(c)

Next ==
    \/ \E r \in Runs : RunEnters(r) \/ RunStep(r) \/ WatcherEnds(r) \/ Cancel(r)
    \/ \E c \in Conns : ConnStep(c)
    \/ Close

LifeSpec == Init /\ [][Next]_lifeVars

(* Goroutines that are ready run; accept does not fail for ever by itself.  *)
(* No fairness for calls of Run and Close, cancellation, or Handle's end.   *)
LifeFairness ==
    /\ \A r \in Runs : WF_lifeVars(RunStep(r)) /\ WF_lifeVars(WatcherEnds(r))

FairLifeSpec == LifeSpec /\ LifeFairness

-----------------------------------------------------------------------------
(* Every slot of connSem is held by an accept loop or a connection, and is  *)
(* returned exactly once, over any number of restarts.                      *)
SlotsBalanced ==
    /\ connSem = Cardinality({r \in Runs : At(r, "accept")})
                 + Cardinality({c \in Conns : conn[c] \in {"setup", "handling", "closed"}})
    /\ connSem \in 0..MaxConns

(* No connection outlives its handler: when handleConn has ended the        *)
(* connection is closed, also after a failed setup.                         *)
ConnClosed == \A c \in Conns : conn[c] = "ended" => c \notin connOpen

(* The listener of a finished Run is closed once its watcher has ended, no  *)
(* matter which of context, Close and done came first.                      *)
NoListenerLeak == \A r \in Runs : run[r] = "returned" /\ watcher[r] = "gone" => r \notin open

(* What a server takes it gives back, in any order of Run, Close, contexts  *)
(* and handlers: all of the above (AcceptLoop, handleConn, Run, its watcher). *)
ResourcesReturned == SlotsBalanced /\ ConnClosed /\ NoListenerLeak

(* Cancelling the context ends Run and frees the port, whatever the         *)
(* handlers do, also with connSem full (Run, AcceptLoop and the watcher).   *)
CancelEndsRun ==
    \A r \in Runs : r \in cancelled /\ ~At(r, "idle") ~>
        run[r] \in {"returned", "refused"} /\ r \notin open

(* "The CAS guarantees that only one Run enters Listen at a time".          *)
OneInListen == Cardinality({r \in Runs : At(r, "listen")}) <= 1

(* "The CAS running -> stopped ... Close and Run's defer exclude each other *)
(* (whichever comes first completes the close)": a Close that finds nothing *)
(* to do leaves no accept loop on an open listener behind.                  *)
CloseCloses ==
    [][closes' # closes /\ UNCHANGED open =>
         \A r \in Runs : run[r] \in {"acquire", "accept", "backoff"} => r \notin open]_lifeVars
=============================================================================
