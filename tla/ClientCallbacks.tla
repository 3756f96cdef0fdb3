--------------------------- MODULE ClientCallbacks ---------------------------
(***************************************************************************)
(* The background goroutines of a ready client and the callbacks they run   *)
(* (internal/protocol/client_control.go, client.go): ReadControlLoop with   *)
(* handleResult and dispatchRedirect, AckReaperLoop, HeartbeatLoop, the     *)
(* result worker with its bounded queue, and the two ways a session ends,   *)
(* Close and fatalTeardown.  The control loop and the reaper fill the       *)
(* queue; a notification carries "early", a history of whether the          *)
(* lifecycle context was still alive when it was queued.                    *)
(***************************************************************************)
EXTENDS Naturals, Sequences

CONSTANTS
    MaxSent,   \* bound: batches sent
    MaxRead,   \* bound: RESULT and REDIRECT frames read
    AckQueue   \* ackQueueSize (1024 in the code)

VARIABLES
    live,      \* lifecycleCtx is not cancelled
    sentCount, \* batches sent
    ledgerSlots, \* the ledger's slots
    read,      \* frames read
    loop,      \* ReadControlLoop: the seq whose callback is due, or NoSeq
    reaper,    \* AckReaperLoop: the seqs whose callback is due
    ended,     \* goroutines of StartLifecycle that have returned
    ackQueue,  \* queued notifications
    worker,    \* runResultWorker: select, invoke, drain, invokeLast
    redirectInflight,
    redirects, \* redirect handlers running
    closer,    \* where close is: open, drain, teardown, a goroutine it waits for, closed
    hurried    \* history: timeouts that passed, callbacks dropped, a session torn down

callbackVars == <<live, sentCount, ledgerSlots, read, loop, reaper, ended, ackQueue, worker,
                  redirectInflight, redirects, closer, hurried>>

NoSeq == 0
Goroutines == {"loop", "heartbeat", "reaper", "worker"}

(* The order in which waitGoroutines waits for them. *)
NextWait == [loop |-> "heartbeat", heartbeat |-> "reaper", reaper |-> "worker", worker |-> "closed"]

(* StartLifecycle has just been called. *)
CallbackInit ==
    /\ live = TRUE /\ sentCount = 0 /\ ledgerSlots = {} /\ read = 0
    /\ loop = NoSeq /\ reaper = {} /\ ended = {}
    /\ ackQueue = <<>> /\ worker = "select"
    /\ redirectInflight = FALSE /\ redirects = 0
    /\ closer = "open" /\ hurried = {}

SendBatch ==
    /\ live /\ closer = "open" /\ sentCount < MaxSent
    /\ sentCount' = sentCount + 1 /\ ledgerSlots' = ledgerSlots \cup {sentCount + 1}
    /\ UNCHANGED <<live, read, loop, reaper, ended, ackQueue, worker, redirectInflight, redirects,
                   closer, hurried>>

Enqueue(seq, level) ==
    IF Len(ackQueue) < AckQueue
    THEN ackQueue' = Append(ackQueue, [seq |-> seq, level |-> level, early |-> live])
         /\ UNCHANGED hurried
    ELSE UNCHANGED ackQueue /\ hurried' = hurried \cup {"dropped"}

-----------------------------------------------------------------------------
(* ReadControlLoop.  A frame that is ready and a cancelled context race in  *)
(* ReadFrame, so that a frame may still be handled after the cancellation.  *)

Reading == "loop" \notin ended /\ loop = NoSeq
NextFrame == Reading /\ read < MaxRead /\ read' = read + 1

(* handleResult: the slot is terminal, a drain is woken, ... *)
handleResult(s) ==
    /\ NextFrame
    /\ ledgerSlots' = ledgerSlots \ {s} /\ loop' = s
    /\ UNCHANGED <<live, sentCount, reaper, ended, ackQueue, worker, redirectInflight, redirects,
                   closer, hurried>>

(* ... and then the callback is queued. *)
dispatchResult ==
    /\ loop # NoSeq /\ Enqueue(loop, "result") /\ loop' = NoSeq
    /\ UNCHANGED <<live, sentCount, ledgerSlots, read, reaper, ended, worker, redirectInflight, redirects,
                   closer>>

(* One redirect handler at a time; a REDIRECT that finds one is dropped. *)
dispatchRedirect ==
    /\ NextFrame
    /\ redirectInflight' = TRUE
    /\ redirects' = IF redirectInflight THEN redirects ELSE redirects + 1
    /\ UNCHANGED <<live, sentCount, ledgerSlots, loop, reaper, ended, ackQueue, worker, closer, hurried>>

(* The handler returns, panics or is cancelled; then the flag is reset. *)
redirectReturns ==
    /\ redirects > 0 /\ redirects' = redirects - 1
    /\ UNCHANGED <<live, sentCount, ledgerSlots, read, loop, reaper, ended, ackQueue, worker,
                   redirectInflight, closer, hurried>>

redirectClears ==
    /\ redirectInflight /\ redirects = 0 /\ redirectInflight' = FALSE
    /\ UNCHANGED <<live, sentCount, ledgerSlots, read, loop, reaper, ended, ackQueue, worker, redirects,
                   closer, hurried>>

(* Cancel the lifecycle, empty the ledger. *)
teardownPhase == live' = FALSE /\ ledgerSlots' = {}

(* CLOSE, ABORT or a read error: the session is torn down and the loop      *)
(* returns; after a bad CREDIT it goes on until it sees the context.        *)
fatalTeardown ==
    /\ Reading /\ live
    /\ teardownPhase /\ ended' \in {ended, ended \cup {"loop"}}
    /\ hurried' = hurried \cup {"torn"}
    /\ UNCHANGED <<sentCount, read, loop, reaper, ackQueue, worker, redirectInflight, redirects,
                   closer>>

loopSeesDone ==
    /\ Reading /\ ~live /\ ended' = ended \cup {"loop"}
    /\ UNCHANGED <<live, sentCount, ledgerSlots, read, loop, reaper, ackQueue, worker, redirectInflight,
                   redirects, closer, hurried>>

-----------------------------------------------------------------------------
(* AckReaperLoop and HeartbeatLoop.                                         *)

(* A tick takes the expired slots out of the ledger, ... *)
reaperTicks(S) ==
    /\ "reaper" \notin ended /\ reaper = {} /\ S # {}
    /\ ledgerSlots' = ledgerSlots \ S /\ reaper' = S
    /\ UNCHANGED <<live, sentCount, read, loop, ended, ackQueue, worker, redirectInflight, redirects,
                   closer, hurried>>

(* ... and queues a "timeout" callback for each. *)
reaperDispatches(s) ==
    /\ s \in reaper /\ reaper' = reaper \ {s} /\ Enqueue(s, "timeout")
    /\ UNCHANGED <<live, sentCount, ledgerSlots, read, loop, ended, worker, redirectInflight, redirects,
                   closer>>

reaperEnds ==
    /\ "reaper" \notin ended /\ reaper = {} /\ ~live
    /\ ended' = ended \cup {"reaper"}
    /\ UNCHANGED <<live, sentCount, ledgerSlots, read, loop, reaper, ackQueue, worker, redirectInflight,
                   redirects, closer, hurried>>

(* Cancelled, or a PING could not be written. *)
HeartbeatEnds ==
    /\ "heartbeat" \notin ended /\ ended' = ended \cup {"heartbeat"}
    /\ UNCHANGED <<live, sentCount, ledgerSlots, read, loop, reaper, ackQueue, worker, redirectInflight,
                   redirects, closer, hurried>>

-----------------------------------------------------------------------------
(* runResultWorker.  Its select takes either branch when both are ready.    *)

WorkerRest == UNCHANGED <<live, sentCount, ledgerSlots, read, loop, reaper, redirectInflight, redirects,
                          closer>>

workerTakes ==
    /\ worker \in {"select", "drain"} /\ ackQueue # <<>>
    /\ worker' = IF worker = "select" THEN "invoke" ELSE "invokeLast"
    /\ ackQueue' = Tail(ackQueue)
    /\ UNCHANGED <<ended, hurried>> /\ WorkerRest

(* The callback returns, or its panic is recovered. *)
invokeReturns ==
    /\ worker \in {"invoke", "invokeLast"}
    /\ worker' = IF worker = "invoke" THEN "select" ELSE "drain"
    /\ UNCHANGED <<ended, ackQueue, hurried>> /\ WorkerRest

(* Mutant: the worker leaves when the context ends. *)
workerSeesDoneReturns ==
    /\ worker = "select" /\ ~live /\ worker' = "returned"
    /\ ended' = ended \cup {"worker"}
    /\ UNCHANGED <<ackQueue, hurried>> /\ WorkerRest

workerSeesDone ==
    /\ worker = "select" /\ ~live /\ worker' = "drain"
    /\ UNCHANGED <<ended, ackQueue, hurried>> /\ WorkerRest

(* The queue is empty, or the five seconds of the drain have passed. *)
workerReturns ==
    /\ worker = "drain" /\ worker' = "returned"
    /\ ended' = ended \cup {"worker"}
    /\ hurried' = IF ackQueue = <<>> THEN hurried ELSE hurried \cup {"deadline"}
    /\ UNCHANGED ackQueue /\ WorkerRest

-----------------------------------------------------------------------------
(* close: CLOSE is written, the ledger drained unless the session is torn   *)
(* down already, the lifecycle cancelled, the goroutines waited for.        *)

CloseRest == UNCHANGED <<sentCount, read, loop, reaper, ended, ackQueue, worker, redirectInflight,
                         redirects>>

close ==
    /\ closer = "open" /\ closer' = IF live THEN "drain" ELSE "teardown"
    /\ UNCHANGED <<live, ledgerSlots, hurried>> /\ CloseRest

drain ==
    /\ closer = "drain" /\ closer' = "teardown"
    /\ hurried' = IF ledgerSlots = {} THEN hurried ELSE hurried \cup {"drain"}
    /\ UNCHANGED <<live, ledgerSlots>> /\ CloseRest

closeTearsDown ==
    /\ closer = "teardown" /\ closer' = "loop"
    /\ teardownPhase /\ UNCHANGED hurried /\ CloseRest

(* Each goroutine has five seconds. *)
waitGoroutines ==
    /\ closer \in Goroutines /\ closer' = NextWait[closer]
    /\ hurried' = IF closer \in ended THEN hurried ELSE hurried \cup {"budget"}
    /\ UNCHANGED <<live, ledgerSlots>> /\ CloseRest

CallbackNext ==
    \/ SendBatch
    \/ \E s \in 1..sentCount : handleResult(s)
    \/ dispatchResult \/ dispatchRedirect \/ redirectReturns \/ redirectClears
    \/ fatalTeardown \/ loopSeesDone
    \/ \E S \in SUBSET ledgerSlots : reaperTicks(S)
    \/ \E s \in reaper : reaperDispatches(s)
    \/ reaperEnds \/ HeartbeatEnds
    \/ workerTakes \/ invokeReturns \/ workerSeesDone \/ workerReturns
    \/ close \/ drain \/ closeTearsDown \/ waitGoroutines

CallbackSpec == CallbackInit /\ [][CallbackNext]_callbackVars

-----------------------------------------------------------------------------
(* No callback that was queued before the session ended is lost: when the   *)
(* worker has returned without its deadline, none of them is left in the    *)
(* queue.  After a Close that met no timeout nothing runs and no callback   *)
(* can come; and at most one redirect handler runs at a time                *)
(* (runResultWorker, waitGoroutines, dispatchRedirect).                     *)
CallbacksDelivered ==
    /\ worker = "returned" /\ "deadline" \notin hurried =>
          \A i \in DOMAIN ackQueue : ~ackQueue[i].early
    /\ closer = "closed" /\ "budget" \notin hurried =>
          ended = Goroutines /\ worker = "returned" /\ reaper = {} /\ loop = NoSeq
    /\ redirects <= 1

(* "Close sends a CLOSE frame, drains pending results, and shuts down": when *)
(* Close has drained, met no timeout and dropped nothing, every RESULT that  *)
(* was read has been handed to its callback (handleResult, drain,            *)
(* runResultWorker).                                                         *)
ResultsReported ==
    closer = "closed" /\ hurried = {} => \A i \in DOMAIN ackQueue : ackQueue[i].level # "result"
=============================================================================
