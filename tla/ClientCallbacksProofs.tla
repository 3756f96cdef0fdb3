------------------------ MODULE ClientCallbacksProofs ------------------------
(* Proofs about ClientCallbacks for any number of batches and frames and    *)
(* any size of the queue.                                                   *)
EXTENDS ClientCallbacks, SequenceTheorems, TLAPS

Notification == [seq : Nat, level : {"result", "timeout"}, early : BOOLEAN]

CallbackTypeOK ==
    /\ live \in BOOLEAN
    /\ sentCount \in Nat /\ loop \in Nat /\ ledgerSlots \subseteq Nat /\ reaper \subseteq Nat
    /\ ended \subseteq Goroutines
    /\ ackQueue \in Seq(Notification)
    /\ worker \in {"select", "invoke", "drain", "invokeLast", "returned"}
    /\ redirectInflight \in BOOLEAN /\ redirects \in Nat
    /\ closer \in {"open", "drain", "teardown", "closed"} \cup Goroutines

(* The worker leaves its select only when the context has ended, and then   *)
(* nothing it takes or leaves behind in an empty queue is early.            *)
WorkerInv ==
    /\ worker \in {"drain", "invokeLast", "returned"} => ~live
    /\ worker = "returned" <=> "worker" \in ended
    /\ worker = "returned" /\ "deadline" \notin hurried =>
          \A i \in DOMAIN ackQueue : ~ackQueue[i].early

(* A goroutine that has ended has nothing left to queue. *)
EndedInv ==
    /\ "loop" \in ended => loop = NoSeq
    /\ "reaper" \in ended => reaper = {} /\ ~live

(* The goroutines close has waited for, in the order of waitGoroutines. *)
Waited ==
    CASE closer = "heartbeat" -> {"loop"}
      [] closer = "reaper" -> {"loop", "heartbeat"}
      [] closer = "worker" -> {"loop", "heartbeat", "reaper"}
      [] closer = "closed" -> Goroutines
      [] OTHER -> {}

CloserInv == "budget" \notin hurried => Waited \subseteq ended

RedirectInv == redirects <= 1 /\ (redirects = 1 => redirectInflight)

CallbackInv == CallbackTypeOK /\ WorkerInv /\ EndedInv /\ CloserInv /\ RedirectInv

USE DEF Goroutines, NoSeq

LEMMA CallbackInitially == CallbackInit => CallbackInv
<1> SUFFICES ASSUME CallbackInit PROVE CallbackInv
    OBVIOUS
<1>1. CallbackTypeOK
    <2>1. live \in BOOLEAN /\ redirectInflight \in BOOLEAN
        BY DEF CallbackInit
    <2>2. ackQueue \in Seq(Notification)
        BY DEF CallbackInit
    <2> QED
        BY <2>1, <2>2 DEF CallbackInit, CallbackTypeOK
<1>2. WorkerInv /\ EndedInv /\ RedirectInv
    BY DEF CallbackInit, WorkerInv, EndedInv, RedirectInv
<1>3. CloserInv
    BY DEF CallbackInit, CloserInv, Waited
<1> QED
    BY <1>1, <1>2, <1>3 DEF CallbackInv

(* Queueing a callback keeps the type, and after the context has ended what *)
(* is queued is not early.                                                  *)
LEMMA EnqueueKeeps ==
    ASSUME CallbackTypeOK, WorkerInv, NEW s \in Nat, NEW l \in {"result", "timeout"},
           Enqueue(s, l), UNCHANGED <<live, worker, ended>>
    PROVE  /\ ackQueue' \in Seq(Notification)
           /\ WorkerInv'
           /\ "budget" \in hurried' <=> "budget" \in hurried
<1> DEFINE n == [seq |-> s, level |-> l, early |-> live]
<1>1. n \in Notification
    BY DEF CallbackTypeOK, Notification
<1>2. CASE Len(ackQueue) < AckQueue
    <2>1. ackQueue' = Append(ackQueue, n) /\ UNCHANGED hurried
        BY <1>2 DEF Enqueue
    <2>2. \A i \in DOMAIN ackQueue' :
              \/ i \in DOMAIN ackQueue /\ ackQueue'[i] = ackQueue[i]
              \/ ackQueue'[i] = n
        BY <2>1, <1>1, AppendProperties DEF CallbackTypeOK
    <2>3. ackQueue' \in Seq(Notification)
        BY <2>1, <1>1, AppendProperties DEF CallbackTypeOK
    <2>4. WorkerInv'
        BY <2>1, <2>2 DEF WorkerInv, CallbackTypeOK
    <2> QED
        BY <2>1, <2>3, <2>4
<1>3. CASE ~(Len(ackQueue) < AckQueue)
    BY <1>3 DEF Enqueue, CallbackTypeOK, WorkerInv
<1> QED
    BY <1>2, <1>3

LEMMA LoopSteps ==
    ASSUME CallbackInv,
           \/ SendBatch \/ (\E s \in 1..sentCount : handleResult(s))
           \/ dispatchResult \/ fatalTeardown \/ loopSeesDone
    PROVE  CallbackInv'
<1> USE DEF CallbackInv
<1>1. CASE SendBatch
    BY <1>1 DEF SendBatch, CallbackTypeOK, WorkerInv, EndedInv, CloserInv, Waited, RedirectInv
<1>2. ASSUME NEW s \in 1..sentCount, handleResult(s) PROVE CallbackInv'
    BY <1>2 DEF handleResult, NextFrame, Reading, CallbackTypeOK, WorkerInv, EndedInv, CloserInv,
                Waited, RedirectInv
<1>3. CASE dispatchResult
    <2>1. /\ ackQueue' \in Seq(Notification) /\ WorkerInv'
          /\ "budget" \in hurried' <=> "budget" \in hurried
        BY <1>3, EnqueueKeeps DEF dispatchResult, CallbackTypeOK
    <2> QED
        BY <1>3, <2>1 DEF dispatchResult, CallbackTypeOK, EndedInv, CloserInv, Waited, RedirectInv
<1>4. CASE fatalTeardown
    BY <1>4 DEF fatalTeardown, teardownPhase, Reading, CallbackTypeOK, WorkerInv, EndedInv,
                CloserInv, Waited, RedirectInv
<1>5. CASE loopSeesDone
    BY <1>5 DEF loopSeesDone, Reading, CallbackTypeOK, WorkerInv, EndedInv, CloserInv, Waited,
                RedirectInv
<1> QED
    BY <1>1, <1>2, <1>3, <1>4, <1>5

LEMMA RedirectSteps ==
    ASSUME CallbackInv, dispatchRedirect \/ redirectReturns \/ redirectClears
    PROVE  CallbackInv'
<1> USE DEF CallbackInv
<1>1. CASE dispatchRedirect
    BY <1>1 DEF dispatchRedirect, NextFrame, Reading, CallbackTypeOK, WorkerInv, EndedInv,
                CloserInv, Waited, RedirectInv
<1>2. CASE redirectReturns
    BY <1>2 DEF redirectReturns, CallbackTypeOK, WorkerInv, EndedInv, CloserInv, Waited, RedirectInv
<1>3. CASE redirectClears
    <2>1. redirectInflight' \in BOOLEAN
        BY <1>3 DEF redirectClears
    <2>2. RedirectInv'
        BY <1>3 DEF redirectClears, RedirectInv
    <2> QED
        BY <1>3, <2>1, <2>2 DEF redirectClears, CallbackTypeOK, WorkerInv, EndedInv, CloserInv, Waited
<1> QED
    BY <1>1, <1>2, <1>3

LEMMA ReaperSteps ==
    ASSUME CallbackInv,
           \/ \E S \in SUBSET ledgerSlots : reaperTicks(S)
           \/ \E s \in reaper : reaperDispatches(s)
           \/ reaperEnds \/ HeartbeatEnds
    PROVE  CallbackInv'
<1> USE DEF CallbackInv
<1>1. ASSUME NEW S \in SUBSET ledgerSlots, reaperTicks(S) PROVE CallbackInv'
    BY <1>1 DEF reaperTicks, CallbackTypeOK, WorkerInv, EndedInv, CloserInv, Waited, RedirectInv
<1>2. ASSUME NEW s \in reaper, reaperDispatches(s) PROVE CallbackInv'
    <2>1. /\ ackQueue' \in Seq(Notification) /\ WorkerInv'
          /\ "budget" \in hurried' <=> "budget" \in hurried
        BY <1>2, EnqueueKeeps DEF reaperDispatches, CallbackTypeOK
    <2> QED
        BY <1>2, <2>1 DEF reaperDispatches, CallbackTypeOK, EndedInv, CloserInv, Waited, RedirectInv
<1>3. CASE reaperEnds
    BY <1>3 DEF reaperEnds, CallbackTypeOK, WorkerInv, EndedInv, CloserInv, Waited, RedirectInv
<1>4. CASE HeartbeatEnds
    BY <1>4 DEF HeartbeatEnds, CallbackTypeOK, WorkerInv, EndedInv, CloserInv, Waited, RedirectInv
<1> QED
    BY <1>1, <1>2, <1>3, <1>4

LEMMA WorkerSteps ==
    ASSUME CallbackInv, workerTakes \/ invokeReturns \/ workerSeesDone \/ workerReturns
    PROVE  CallbackInv'
<1> USE DEF CallbackInv, WorkerRest
<1>1. CASE workerTakes
    <2>1. ackQueue' \in Seq(Notification)
        BY <1>1, HeadTailProperties DEF workerTakes, CallbackTypeOK
    <2> QED
        BY <1>1, <2>1 DEF workerTakes, CallbackTypeOK, WorkerInv, EndedInv, CloserInv, Waited,
                          RedirectInv
<1>2. CASE invokeReturns
    BY <1>2 DEF invokeReturns, CallbackTypeOK, WorkerInv, EndedInv, CloserInv, Waited, RedirectInv
<1>3. CASE workerSeesDone
    BY <1>3 DEF workerSeesDone, CallbackTypeOK, WorkerInv, EndedInv, CloserInv, Waited, RedirectInv
<1>4. CASE workerReturns
    BY <1>4 DEF workerReturns, CallbackTypeOK, WorkerInv, EndedInv, CloserInv, Waited, RedirectInv
<1> QED
    BY <1>1, <1>2, <1>3, <1>4

LEMMA CloseSteps ==
    ASSUME CallbackInv, close \/ drain \/ closeTearsDown \/ waitGoroutines
    PROVE  CallbackInv'
<1> USE DEF CallbackInv, CloseRest
<1>1. CASE close
    BY <1>1 DEF close, CallbackTypeOK, WorkerInv, EndedInv, CloserInv, Waited, RedirectInv
<1>2. CASE drain
    BY <1>2 DEF drain, CallbackTypeOK, WorkerInv, EndedInv, CloserInv, Waited, RedirectInv
<1>3. CASE closeTearsDown
    BY <1>3 DEF closeTearsDown, teardownPhase, CallbackTypeOK, WorkerInv, EndedInv, CloserInv,
                Waited, RedirectInv
<1>4. CASE waitGoroutines
    <2>1. CallbackTypeOK' /\ WorkerInv' /\ EndedInv' /\ RedirectInv'
        BY <1>4 DEF waitGoroutines, NextWait, CallbackTypeOK, WorkerInv, EndedInv, RedirectInv
    <2>2. CloserInv'
        BY <1>4 DEF waitGoroutines, NextWait, CallbackTypeOK, CloserInv, Waited
    <2> QED
        BY <2>1, <2>2
<1> QED
    BY <1>1, <1>2, <1>3, <1>4

LEMMA CallbackStep == CallbackInv /\ [CallbackNext]_callbackVars => CallbackInv'
<1>1. ASSUME CallbackInv, UNCHANGED callbackVars PROVE CallbackInv'
    BY <1>1 DEF callbackVars, CallbackInv, CallbackTypeOK, WorkerInv, EndedInv, CloserInv, Waited,
                RedirectInv
<1> QED
    BY <1>1, LoopSteps, RedirectSteps, ReaperSteps, WorkerSteps, CloseSteps DEF CallbackNext

(* Whatever the order in which loops, worker and Close end, no callback     *)
(* queued before the context ended stays behind, a Close without a timeout  *)
(* leaves no goroutine and no callback under way, and redirect handlers run *)
(* one at a time (runResultWorker, waitGoroutines, dispatchRedirect).       *)
THEOREM CallbacksArrive == CallbackSpec => []CallbacksDelivered
<1>1. CallbackInv => CallbacksDelivered
    BY DEF CallbackInv, CallbackTypeOK, WorkerInv, EndedInv, CloserInv, Waited, RedirectInv,
           CallbacksDelivered
<1> QED
    BY <1>1, CallbackInitially, CallbackStep, PTL DEF CallbackSpec
=============================================================================
