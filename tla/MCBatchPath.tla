----------------------------- MODULE MCBatchPath -----------------------------
(* Instances of BatchPath for TLC, and the balance of the sink queue's byte *)
(* counter, which sums over the tasks.                                      *)
EXTENDS BatchPath, FiniteSetsExt

(* Durable sessions with the reaper at work, accepted_only sessions that    *)
(* wind down, and one without a sink.                                       *)
MCModes ==
    {[durable |-> TRUE, sink |-> TRUE, reaps |-> TRUE, ends |-> FALSE],
     [durable |-> FALSE, sink |-> TRUE, reaps |-> FALSE, ends |-> TRUE],
     [durable |-> TRUE, sink |-> FALSE, reaps |-> FALSE, ends |-> TRUE]}

(* A durable session in which both run. *)
MCLiveModes == {[durable |-> TRUE, sink |-> TRUE, reaps |-> TRUE, ends |-> TRUE]}

TaskBytes ==
    MapThenSumSet(LAMBDA i : sinkQ[i].bytes, DOMAIN sinkQ)
  + MapThenSumSet(LAMBDA k : IF sinkW[k].pc = "run" THEN sinkW[k].bytes ELSE 0, SinkWorkers)
  + MapThenSumSet(LAMBDA w : IF AtPc(w, "push") THEN work[w].bytes ELSE 0, Procs)

(* sinkQueuedBytes is exactly the bytes reserved, queued and running: no    *)
(* path (queue full, sinkDone, deadline, panic) leaks or returns twice.     *)
QueuedBalanced == queued = TaskBytes
=============================================================================
