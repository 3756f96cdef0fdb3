------------------------------ MODULE BatchPath ------------------------------
(***************************************************************************)
(* The server's data path for one connection (internal/protocol):           *)
(* dataLoop and processBatch with its semaphore (handler.go,                *)
(* handler_batch.go), the sink queue and its workers (handler_sink.go), the *)
(* lazily armed CREDIT flush, the reaper, and the wind-down at the end of   *)
(* Handle.  All of them share the CreditManager, whose actions are used     *)
(* here; a step outside the manager's mutex is a step of its own.           *)
(*                                                                          *)
(* A worker's record: pc, the frame it handles, "out" the RESULT level it   *)
(* will settle with or write, "arm" whether it then arms the flush.         *)
(***************************************************************************)
EXTENDS CreditManager

CONSTANTS
    Workers,      \* slots of batchSem
    SinkWorkers,  \* goroutines of the sink pool
    QueueCap,     \* capacity of sinkQueue
    SinkMaxBytes, \* limit on sinkQueuedBytes
    SinkOutcomes, \* outcomes the sink may give to done
    Modes,        \* the sessions looked at, see mode
    MaxFrames,    \* bound: BATCH frames received
    Loop,         \* the dataLoop goroutine itself
    Reaper, Closer \* the Forcers: the reaper, and Handle when it winds down

ASSUME PathConstantsOK ==
    /\ Forcers \subseteq {Reaper, Closer} /\ Reaper # Closer
    /\ Loop \notin Workers
    /\ Levels = {"accepted", "durable", "rejected", "released"}
    /\ SinkOutcomes \subseteq Levels
    /\ Modes \subseteq [durable : BOOLEAN, sink : BOOLEAN, reaps : BOOLEAN, ends : BOOLEAN]

VARIABLES
    mode,       \* ack_mode is durable (or accepted_only), a SinkHandler is set,
                \* and whether the reaper runs and controlLoop returns in it
    work,       \* processBatch goroutines, and rejectAtCapacity in dataLoop
    loopEnded,  \* dataLoop has returned
    frames,     \* BATCH frames received so far
    sinkQ,      \* sinkQueue
    queued,     \* sinkQueuedBytes
    sinkW,      \* sink workers
    handler,    \* the SinkHandler call of each seq
    done,       \* the makeDone closure of each seq
    armed,      \* flushArmed; TRUE while a flush timer runs
    stuck,      \* progress of each releaseStuck call
    phase,      \* Handle
    sinkDone,   \* sinkDone is closed
    abandoned,  \* data goroutines outlived the drain timeout
    trOpen,     \* the transport is open
    calls, said \* history: SinkHandler calls, and outcome the sink gave

cmVars == vars
sinkVars == <<sinkQ, queued, sinkW, handler, calls>>
handleVars == <<phase, sinkDone, abandoned>>
pathVars == <<cmVars, mode, work, loopEnded, frames, sinkVars, done, said, armed, stuck,
              handleVars, trOpen>>

Procs == Workers \cup {Loop}
IdleWork == [pc |-> "idle", seq |-> 0, bytes |-> 0, out |-> None, arm |-> FALSE]

PathInit ==
    /\ Init
    /\ mode \in Modes
    /\ work = [w \in Procs |-> IdleWork]
    /\ loopEnded = FALSE /\ frames = 0
    /\ sinkQ = <<>> /\ queued = 0
    /\ sinkW = [k \in SinkWorkers |-> [pc |-> "idle", seq |-> 0, bytes |-> 0]]
    /\ handler = [s \in Seqs |-> "none"]
    /\ calls = [s \in Seqs |-> 0]
    /\ done = [s \in Seqs |-> [pc |-> "unused", out |-> None]]
    /\ said = [s \in Seqs |-> None]
    /\ armed = FALSE
    /\ stuck = [r \in Forcers |-> [pc |-> "off", seq |-> 0, out |-> None]]
    /\ phase = "serving" /\ sinkDone = FALSE /\ abandoned = FALSE
    /\ trOpen = TRUE

(* The data context is cancelled when controlLoop returns. *)
DataCtxOK == phase = "serving"

-----------------------------------------------------------------------------
(* The flush: armed at most once, re-armed by whoever settles next.         *)

maybeScheduleFlush == armed' = TRUE

(* The timer's callback: Store(false), then flushPending.  CreditFlush      *)
(* looks at the two separately.                                             *)
flushPending ==
    /\ armed
    /\ armed' = FALSE
    /\ \/ TakeRecovered
       \/ recoveredB = 0 /\ recoveredY = 0 /\ UNCHANGED cmVars
    /\ UNCHANGED <<mode, work, loopEnded, frames, sinkVars, done, said, stuck, handleVars, trOpen>>

-----------------------------------------------------------------------------
(* dataLoop and processBatch.                                               *)

AtPc(w, pc) == work[w].pc = pc
Goto(w, pc) == work' = [work EXCEPT ![w].pc = pc]
SettleNext(w, level) ==
    work' = [work EXCEPT ![w].pc = "settle", ![w].out = level, ![w].arm = TRUE]
SendNext(w, level) == work' = [work EXCEPT ![w].pc = "send", ![w].out = level]
Finish(w) == work' = [work EXCEPT ![w] = IdleWork]

(* A frame goes to a free slot, or is rejected by dataLoop itself.  A       *)
(* cancelled context and a ready frame race in RecvDataFrame.               *)
dataLoop(w, s, b) ==
    /\ ~loopEnded /\ frames < MaxFrames
    /\ AtPc(w, "idle")
    /\ w = Loop => \A v \in Workers : ~AtPc(v, "idle")
    /\ AtPc(Loop, "idle")
    /\ frames' = frames + 1
    /\ work' = [work EXCEPT ![w] = [IdleWork EXCEPT !.pc = "admit", !.seq = s, !.bytes = b]]
    /\ UNCHANGED <<cmVars, mode, loopEnded, sinkVars, done, said, armed, stuck, handleVars,
                   trOpen>>

dataLoopEnds ==
    /\ ~loopEnded /\ AtPc(Loop, "idle")
    /\ ~DataCtxOK \/ ~trOpen
    /\ loopEnded' = TRUE
    /\ UNCHANGED <<cmVars, mode, work, frames, sinkVars, done, said, armed, stuck, handleVars,
                   trOpen>>

WorkerRest == UNCHANGED <<mode, loopEnded, frames, sinkVars, done, said, stuck, handleVars>>

abort(w) == trOpen' = FALSE /\ Finish(w)

WorkerAdmits(w) ==
    LET s == work[w].seq IN
    /\ AtPc(w, "admit") /\ AdmitDecision(s) = "Accept"
    /\ Admit(s)
    /\ Goto(w, "consume")
    /\ UNCHANGED <<armed, trOpen>> /\ WorkerRest

(* The answers to a replay; at capacity a replay is not answered. *)
WorkerAnswersReplay(w) ==
    LET s == work[w].seq
        d == AdmitDecision(s)
    IN  /\ AtPc(w, "admit")
        /\ d \in {"TerminalHit", "BelowUnknown", "Duplicate"}
        /\ IF w = Loop THEN UNCHANGED cmVars /\ Finish(w)
           ELSE \/ d = "TerminalHit" /\ AdmitTerminalHit(s) /\ SendNext(w, terminal[s])
                \/ d = "BelowUnknown" /\ UNCHANGED cmVars /\ SendNext(w, "released")
                \/ d = "Duplicate" /\ UNCHANGED cmVars /\ SendNext(w, "accepted")
        /\ UNCHANGED <<armed, trOpen>> /\ WorkerRest

(* The envelope cannot be decoded: the frame is dropped without an answer. *)
WorkerDropsFrame(w) ==
    /\ AtPc(w, "admit")
    /\ Finish(w)
    /\ UNCHANGED <<cmVars, armed, trOpen>> /\ WorkerRest

WorkerSeqZero(w) ==
    /\ AtPc(w, "admit") /\ AdmitDecision(work[w].seq) = "Violation"
    /\ abort(w)
    /\ UNCHANGED <<cmVars, armed>> /\ WorkerRest

WorkerConsumes(w) ==
    LET s == work[w].seq IN
    /\ AtPc(w, "consume")
    /\ \/ /\ Consume(s, work[w].bytes)
          /\ IF w = Loop THEN SettleNext(w, "released") ELSE Goto(w, "validate")
          /\ UNCHANGED trOpen
       \/ ConsumeExhausted(s, work[w].bytes) /\ abort(w)
    /\ UNCHANGED <<armed>> /\ WorkerRest

(* decodeAndValidate refused the content, or found the session expired. *)
WorkerRejects(w) ==
    /\ AtPc(w, "validate")
    /\ SettleNext(w, "rejected")
    /\ UNCHANGED <<cmVars, armed, trOpen>> /\ WorkerRest

WorkerExpired(w) ==
    /\ AtPc(w, "validate")
    /\ abort(w)
    /\ UNCHANGED <<cmVars, armed>> /\ WorkerRest

(* Mutant: the panic path releases the placeholder after Consume. *)
WorkerPanicsReleases(w) ==
    /\ AtPc(w, "validate")
    /\ Finish(w)
    /\ releaseLocked(work[w].seq)
    /\ grant' = [grant EXCEPT ![work[w].seq].done = TRUE]
    /\ UNCHANGED <<creditVars, low, accepted, ringOrd, terminal, force, sent,
                   armed, trOpen>> /\ WorkerRest

(* A recovered panic: the slot is free again and the grant is lost. *)
WorkerPanics(w) ==
    /\ AtPc(w, "validate")
    /\ Finish(w)
    /\ UNCHANGED <<cmVars, armed, trOpen>> /\ WorkerRest

(* Settle by its holder: first, too late (stale), or already done. *)
SettleBy(s, level, bytes, first) ==
    \/ first /\ Settle(s, level, bytes)
    \/ ~first /\ SettleStale(s)
    \/ ~first /\ grant[s].done /\ UNCHANGED cmVars

WorkerSettles(w) ==
    LET s == work[w].seq IN
    /\ AtPc(w, "settle")
    /\ \/ SettleBy(s, work[w].out, work[w].bytes, TRUE) /\ Goto(w, "send")
       \/ SettleBy(s, work[w].out, work[w].bytes, FALSE) /\ SendNext(w, None)
    /\ UNCHANGED <<armed, trOpen>> /\ WorkerRest

(* Write the RESULT (none after a late settlement), then arm the flush. *)
WorkerSends(w) ==
    /\ AtPc(w, "send")
    /\ IF work[w].arm THEN maybeScheduleFlush ELSE UNCHANGED armed
    /\ Finish(w)
    /\ UNCHANGED <<cmVars, trOpen>> /\ WorkerRest

-----------------------------------------------------------------------------
(* deliver and enqueueSink.                                                 *)

(* Without a SinkHandler a valid batch is accepted at once. *)
deliverNoSink(w) ==
    /\ AtPc(w, "validate") /\ ~mode.sink
    /\ SettleNext(w, "accepted")
    /\ UNCHANGED <<cmVars, armed, trOpen>> /\ WorkerRest

enqueueReserve(w) ==
    /\ AtPc(w, "validate") /\ mode.sink
    /\ IF sinkDone \/ queued + work[w].bytes > SinkMaxBytes
       THEN SettleNext(w, "released") /\ UNCHANGED queued
       ELSE Goto(w, "push") /\ queued' = queued + work[w].bytes
    /\ UNCHANGED <<cmVars, mode, loopEnded, frames, sinkQ, sinkW, handler, calls, done, said,
                   armed, stuck, handleVars, trOpen>>

enqueuePush(w) ==
    /\ AtPc(w, "push")
    /\ IF Len(sinkQ) < QueueCap
       THEN /\ sinkQ' = Append(sinkQ, [seq |-> work[w].seq, bytes |-> work[w].bytes])
            /\ Goto(w, "recheck")
            /\ UNCHANGED queued
       ELSE /\ queued' = queued - work[w].bytes
            /\ SettleNext(w, "released")
            /\ UNCHANGED sinkQ
    /\ UNCHANGED <<cmVars, mode, loopEnded, frames, sinkW, handler, calls, done, said,
                   armed, stuck, handleVars, trOpen>>

(* Mutant: no second look at sinkDone. *)
enqueueRecheckNot(w) ==
    /\ AtPc(w, "recheck")
    /\ IF mode.durable THEN Goto(w, "accept") ELSE SettleNext(w, "accepted")
    /\ UNCHANGED <<cmVars, armed, trOpen>> /\ WorkerRest

enqueueRecheck(w) ==
    /\ AtPc(w, "recheck")
    /\ IF sinkDone THEN SettleNext(w, "released")
       ELSE IF mode.durable THEN Goto(w, "accept") ELSE SettleNext(w, "accepted")
    /\ UNCHANGED <<cmVars, armed, trOpen>> /\ WorkerRest

WorkerAccepts(w) ==
    LET s == work[w].seq IN
    /\ AtPc(w, "accept")
    /\ Accept(s)
    /\ SendNext(w, IF AcceptIsFirst(s) THEN "accepted" ELSE None)
    /\ UNCHANGED <<armed, trOpen>> /\ WorkerRest

-----------------------------------------------------------------------------
(* Sink workers, the handler's goroutine and its done closure.              *)

SinkRest == UNCHANGED <<mode, work, loopEnded, frames, armed, stuck, handleVars, trOpen>>

sinkWorkerTakes(k) ==
    /\ sinkW[k].pc = "idle" /\ sinkQ # <<>>
    /\ sinkW' = [sinkW EXCEPT ![k] = [pc |-> "run", seq |-> Head(sinkQ).seq,
                                      bytes |-> Head(sinkQ).bytes]]
    /\ sinkQ' = Tail(sinkQ)
    /\ handler' = [handler EXCEPT ![Head(sinkQ).seq] = "running"]
    /\ calls' = [calls EXCEPT ![Head(sinkQ).seq] = @ + 1]
    /\ UNCHANGED <<cmVars, queued, done, said>> /\ SinkRest

DoneLevel(outcome) == IF outcome \in {"durable", "accepted"} THEN "durable" ELSE outcome

(* The closure's body, once; in accepted_only mode it does nothing.  Settle *)
(* is given 0 bytes and uses the registered ones.                           *)
RunDone(s, outcome) ==
    /\ mode.durable /\ done[s].pc = "unused"
    /\ \/ /\ SettleBy(s, DoneLevel(outcome), 0, TRUE)
          /\ done' = [done EXCEPT ![s] = [pc |-> "send", out |-> DoneLevel(outcome)]]
       \/ /\ SettleBy(s, DoneLevel(outcome), 0, FALSE)
          /\ done' = [done EXCEPT ![s] = [pc |-> "send", out |-> None]]

(* The sink calls done, possibly after its handler returned. *)
SinkCallsDone(s, outcome) ==
    /\ handler[s] # "none"
    /\ RunDone(s, outcome)
    /\ said' = [said EXCEPT ![s] = outcome]
    /\ UNCHANGED <<sinkVars>> /\ SinkRest

(* SinkDeadline passes in runSinkTask, or callHandler recovers a panic. *)
SinkGivesUp(k) ==
    /\ sinkW[k].pc = "run"
    /\ RunDone(sinkW[k].seq, "released")
    /\ UNCHANGED <<sinkVars, said>> /\ SinkRest

DoneSends(s) ==
    /\ done[s].pc = "send"
    /\ done' = [done EXCEPT ![s] = [pc |-> "finished", out |-> None]]
    /\ maybeScheduleFlush
    /\ UNCHANGED <<cmVars, mode, work, loopEnded, frames, sinkVars, said, stuck,
                   handleVars, trOpen>>

HandlerReturns(s) ==
    /\ handler[s] = "running"
    /\ handler' = [handler EXCEPT ![s] = "returned"]
    /\ UNCHANGED <<cmVars, sinkQ, queued, sinkW, calls, done, said>> /\ SinkRest

(* Mutant: the bytes of a task are not returned. *)
runSinkTaskLeaks(k) ==
    /\ sinkW[k].pc = "run" /\ handler[sinkW[k].seq] = "returned"
    /\ sinkW' = [sinkW EXCEPT ![k] = [pc |-> "idle", seq |-> 0, bytes |-> 0]]
    /\ UNCHANGED <<cmVars, queued, sinkQ, handler, calls, done, said>> /\ SinkRest

runSinkTaskEnds(k) ==
    /\ sinkW[k].pc = "run" /\ handler[sinkW[k].seq] = "returned"
    /\ queued' = queued - sinkW[k].bytes
    /\ sinkW' = [sinkW EXCEPT ![k] = [pc |-> "idle", seq |-> 0, bytes |-> 0]]
    /\ UNCHANGED <<cmVars, sinkQ, handler, calls, done, said>> /\ SinkRest

sinkWorkerExits(k) ==
    /\ sinkW[k].pc = "idle" /\ sinkDone /\ sinkQ = <<>>
    /\ sinkW' = [sinkW EXCEPT ![k].pc = "exited"]
    /\ UNCHANGED <<cmVars, sinkQ, queued, handler, calls, done, said>> /\ SinkRest

-----------------------------------------------------------------------------
(* releaseStuck, called by the reaper's ticker and at the end of Handle.    *)

StuckRest == UNCHANGED <<mode, work, loopEnded, frames, sinkVars, done, said>>

(* A tick that finds nothing old enough. *)
reaperTickEmpty ==
    /\ mode.reaps
    /\ phase = "serving" /\ stuck[Reaper].pc = "off"
    /\ maybeScheduleFlush
    /\ UNCHANGED <<cmVars, stuck, handleVars, trOpen>> /\ StuckRest

InLoop(r) ==
    \/ stuck[r].pc = "loop"
    \/ r = Reaper /\ mode.reaps /\ phase = "serving" /\ stuck[r].pc = "off"

(* Mutant: only placeholders are found. *)
releasePicksPlaceholders(r, s) ==
    /\ InLoop(r)
    /\ slotBytes[s] = 0
    /\ OldestBefore(r, s)
    /\ stuck' = [stuck EXCEPT ![r].pc = "loop"]
    /\ UNCHANGED <<armed, handleVars, trOpen>> /\ StuckRest

releasePicks(r, s) ==
    /\ InLoop(r)
    /\ OldestBefore(r, s)
    /\ stuck' = [stuck EXCEPT ![r].pc = "loop"]
    /\ UNCHANGED <<armed, handleVars, trOpen>> /\ StuckRest

releaseForces(r) ==
    LET s == force[r].seq IN
    /\ stuck[r].pc = "loop"
    /\ \/ ForceSettleLook(r) /\ UNCHANGED stuck
       \/ /\ ForceSettleReplay(r)
          /\ stuck' = [stuck EXCEPT ![r] =
                [pc |-> "send", seq |-> s, out |-> IF s \in Decided THEN terminal[s] ELSE None]]
       \/ /\ ForceSettleCommit(r, "released")
          /\ stuck' = [stuck EXCEPT ![r] = [pc |-> "send", seq |-> s, out |-> "released"]]
       \/ ForceSettleStale(r) /\ UNCHANGED stuck
    /\ UNCHANGED <<armed, handleVars, trOpen>> /\ StuckRest

releaseSends(r) ==
    /\ stuck[r].pc = "send"
    /\ stuck' = [stuck EXCEPT ![r] = [pc |-> "loop", seq |-> 0, out |-> None]]
    /\ UNCHANGED <<cmVars, armed, handleVars, trOpen>> /\ StuckRest

(* No seq is old enough.  Handle's call has age 0: every seq in flight is. *)
releaseEnds(r) ==
    /\ stuck[r].pc = "loop" /\ force[r].pc = "idle"
    /\ r = Closer => seen = {} \/ abandoned
    /\ stuck' = [stuck EXCEPT ![r].pc = IF r = Closer THEN "finished" ELSE "off"]
    /\ maybeScheduleFlush
    /\ UNCHANGED <<cmVars, handleVars, trOpen>> /\ StuckRest

-----------------------------------------------------------------------------
(* Handle: controlLoop returns, then the bounded wind-down.                 *)

HandleRest == UNCHANGED <<cmVars, mode, work, loopEnded, frames, sinkVars, done, said, armed>>

(* CLOSE leaves the transport open; a lost connection does not. *)
controlLoopReturns ==
    /\ mode.ends
    /\ phase = "serving"
    /\ phase' = "dataDrain"
    /\ trOpen' \in {trOpen, FALSE}
    /\ UNCHANGED <<sinkDone, abandoned, stuck>> /\ HandleRest

DataIdle == loopEnded /\ \A w \in Procs : AtPc(w, "idle")

StartRelease(left) ==
    /\ phase' = "release"
    /\ abandoned' = left
    /\ stuck' = [stuck EXCEPT ![Closer].pc = "loop"]
    /\ UNCHANGED <<sinkDone, trOpen>> /\ HandleRest

(* Mutant: the in-flight items are released without waiting for the workers. *)
HandleDataDrainedEarly == phase = "dataDrain" /\ StartRelease(FALSE)

HandleDataDrained == phase = "dataDrain" /\ DataIdle /\ StartRelease(FALSE)

HandleDataTimeout == phase = "dataDrain" /\ ~DataIdle /\ StartRelease(TRUE)

HandleClosesSink ==
    /\ phase = "release" /\ stuck[Closer].pc = "finished"
    /\ phase' = IF mode.sink THEN "sinkDrain" ELSE "ended"
    /\ sinkDone' = mode.sink
    /\ UNCHANGED <<abandoned, stuck, trOpen>> /\ HandleRest

(* Mutant: no timeout on the sink workers. *)
HandleReturnsDrained ==
    /\ phase = "sinkDrain" /\ \A k \in SinkWorkers : sinkW[k].pc = "exited"
    /\ phase' = "ended"
    /\ UNCHANGED <<sinkDone, abandoned, stuck, trOpen>> /\ HandleRest

(* All sink workers have exited, or the drain timeout has passed. *)
HandleReturns ==
    /\ phase = "sinkDrain"
    /\ phase' = "ended"
    /\ UNCHANGED <<sinkDone, abandoned, stuck, trOpen>> /\ HandleRest

(* Handle's last act, if the data goroutines had ended in time. *)
KeysWiped == phase = "ended" /\ ~abandoned

-----------------------------------------------------------------------------
WorkerStep(w) ==
    \/ WorkerAdmits(w) \/ WorkerAnswersReplay(w) \/ WorkerSeqZero(w) \/ WorkerConsumes(w)
    \/ deliverNoSink(w) \/ enqueueReserve(w) \/ enqueuePush(w) \/ enqueueRecheck(w) \/ WorkerAccepts(w)
    \/ WorkerSettles(w) \/ WorkerSends(w)
WorkerFails(w) == WorkerDropsFrame(w) \/ WorkerRejects(w) \/ WorkerExpired(w) \/ WorkerPanics(w)

SinkStep(k) == sinkWorkerTakes(k) \/ SinkGivesUp(k) \/ runSinkTaskEnds(k) \/ sinkWorkerExits(k)

ReleaseStep(r) == releaseForces(r) \/ releaseSends(r) \/ releaseEnds(r)

HandleStep == HandleDataDrained \/ HandleDataTimeout \/ HandleClosesSink \/ HandleReturns

PathNext ==
    \/ flushPending
    \/ \E w \in Procs, s \in 0..MaxSeq, b \in FrameBytes : dataLoop(w, s, b)
    \/ dataLoopEnds
    \/ \E w \in Procs : WorkerStep(w) \/ WorkerFails(w)
    \/ \E k \in SinkWorkers : SinkStep(k)
    \/ \E s \in Seqs, o \in SinkOutcomes : SinkCallsDone(s, o)
    \/ \E s \in Seqs : HandlerReturns(s) \/ DoneSends(s)
    \/ reaperTickEmpty
    \/ \E r \in Forcers, s \in Seqs : releasePicks(r, s)
    \/ \E r \in Forcers : ReleaseStep(r)
    \/ controlLoopReturns
    \/ HandleStep

PathSpec == PathInit /\ [][PathNext]_pathVars

(* The reaper's ticker ticks, and an item that stays in flight is           *)
(* eventually older than the cutoff at one of its ticks; releaseStuck and   *)
(* Handle, whose waits have timeouts, go on.  Nothing is assumed about the  *)
(* sink, its workers, the data goroutines, the flush timer, the peer or new *)
(* frames: each of them may hang.                                           *)
PathFairness ==
    /\ \A s \in Seqs : SF_pathVars(releasePicks(Reaper, s))
    /\ WF_pathVars(\E s \in Seqs : releasePicks(Closer, s))
    /\ \A r \in Forcers : WF_pathVars(ReleaseStep(r))
    /\ WF_pathVars(HandleStep)

FairPathSpec == PathSpec /\ PathFairness

-----------------------------------------------------------------------------
(* The handler uses the manager the way CreditManager allows: every step of *)
(* workers, sink, reaper and wind-down is a step of CreditManager or leaves *)
(* it alone.  This is CreditManager's Spec, written so that TLC looks for a *)
(* stuttering step first.                                                   *)
ManagerContract == Init /\ [][UNCHANGED vars \/ Next]_vars

(* A batch is handed to the sink at most once in a session, whatever the    *)
(* replays, capacity rejections and reaper runs (the placeholder taken by   *)
(* Admit "makes at most one goroutine get Accept").                         *)
SinkOnce == \A s \in Seqs : calls[s] <= 1

(* No false acknowledgement.  Durable mode: a durable RESULT comes only from *)
(* the sink's own word.  accepted_only: an accepted batch was given to the   *)
(* sink, or waits in the queue of a pool that still drains it, also when     *)
(* the wind-down closes sinkDone between push and check.                     *)
NoFalseAck ==
    \A s \in Seqs :
        /\ "durable" \in sent[s] => said[s] \in {"durable", "accepted"}
        /\ mode.sink /\ "accepted" \in sent[s] =>
              \/ calls[s] = 1
              \/ /\ \E i \in DOMAIN sinkQ : sinkQ[i].seq = s
                 /\ \E k \in SinkWorkers : sinkW[k].pc # "exited"

(* When the wind-down has waited for the data goroutines, nothing is left   *)
(* in flight after releaseStuck, and no goroutine that could still read the *)
(* session keys runs once they are overwritten.                             *)
SettledAtEnd ==
    /\ phase \in {"sinkDrain", "ended"} /\ ~abandoned => seen = {}
    /\ KeysWiped => DataIdle

(* "First accepted (intermediate), after done durable (final)": in durable  *)
(* mode, when the durable RESULT of a batch is written, none of the workers *)
(* is still about to write its accepted one (Accept, makeDone).             *)
AcceptedFirst ==
    \A s \in Seqs, w \in Workers :
        /\ mode.durable /\ done[s].pc = "finished" /\ "durable" \in sent[s]
        /\ AtPc(w, "send") /\ work[w].seq = s
        => work[w].out # "accepted"

(* Every admitted batch is settled in the end, even if the sink never       *)
(* answers, a worker panics or the connection is torn down, unless a data   *)
(* goroutine outlives the drain timeout (reaper and releaseStuck).          *)
EverySeqSettled == \A s \in Seqs : s \in seen ~> (s \notin seen \/ abandoned)

(* Handle returns in the end, even if the sink never does.                  *)
HandleTerminates == phase = "dataDrain" ~> phase = "ended"
=============================================================================
