----------------------------- MODULE CreditFlow ------------------------------
(***************************************************************************)
(* Credit end to end: the client's ledger and its control loop              *)
(* (internal/protocol/client.go, client_control.go), the frames between the *)
(* two sides, the server's manager, its reaper and its CREDIT flush, and    *)
(* the client's drain when it closes.  Ledger and manager are the modules   *)
(* CreditLedger and CreditManager; here their inputs are the other side's   *)
(* outputs.  Frames of one direction may overtake each other: BATCH frames  *)
(* use several streams, and RESULT and CREDIT are written by whichever      *)
(* goroutine gets to the control stream first.                              *)
(***************************************************************************)
EXTENDS Integers, Sequences, FiniteSets, SequencesExt

CONSTANTS
    MaxSeq, InitialB, InitialY, FrameBytes, RingCap, Levels, None, Forcers,
    ClampB, ClampY, Deltas, MaxViolations,
    AckModes,  \* ack_modes a session may have: "durable", "accepted_only"
    Closing    \* bound: the ack_modes in which the client closes

VARIABLES
    ackMode,   \* negotiated in the handshake
    seq, consumedB, consumedY, returnedB, returnedY, slots, violations, writing, framed,
    outstandingB, outstandingY, recoveredB, recoveredY, low, accepted, seen, slotBytes,
    ringOrd, terminal, grant, force, sent,
    up,        \* bytes of each BATCH on its way to, or in the hands of, the server
    results,   \* RESULTs on their way to the client
    credits,   \* CREDITs on their way to the client
    aborted,   \* the server sent ABORT: credit exhausted
    torn,      \* the client tore the session down: invalid CREDIT
    told,      \* history: seqs whose final outcome the client's user knows
    phase,     \* client: ready, closing (CLOSE written), check, wait,
               \* drained, closed
    token,     \* drainCh holds its one token
    notifying, \* goroutines about to call notifyDrainIfEmpty
    sealing,   \* a SendBatch is between its state check and Consume
    lost,      \* history: writes that failed after their slot was reaped
    rolled     \* history: a Rollback removed a slot

Client == INSTANCE CreditLedger
Server == INSTANCE CreditManager

clientVars == <<seq, consumedB, consumedY, returnedB, returnedY, slots, violations,
                writing, framed>>
serverVars == <<outstandingB, outstandingY, recoveredB, recoveredY, low, accepted, seen,
                slotBytes, ringOrd, terminal, grant, force, sent>>
netVars == <<up, results, credits>>
drainVars == <<phase, token, notifying>>
history == <<told, lost, rolled>>
flowVars == <<ackMode, clientVars, serverVars, netVars, drainVars, sealing, aborted, torn, history>>

Init ==
    /\ ackMode \in AckModes
    /\ Client!LedgerInit
    /\ Server!Init
    /\ up = [s \in {} |-> 0] /\ results = {} /\ credits = <<>>
    /\ aborted = FALSE /\ torn = FALSE
    /\ told = {}
    /\ phase = "ready" /\ token = FALSE /\ notifying = {}
    /\ sealing = FALSE
    /\ lost = 0 /\ rolled = FALSE

Durable == ackMode = "durable"

(* The level a batch that is stored ends with. *)
Outcome == IF Durable THEN "durable" ELSE "accepted"

Alive == ~aborted /\ ~torn

-----------------------------------------------------------------------------
(* The client sends: the state check of encodeAndSeal, Consume, WriteFrame.  *)
(* sendMu lets one SendBatch at a time into the first two.  CLOSE is written *)
(* before the state leaves Ready, and leaving it does not take sendMu.       *)

encodeAndSeal ==
    /\ Alive /\ phase \in {"ready", "closing"}
    /\ ~sealing /\ seq < MaxSeq
    /\ sealing' = TRUE
    /\ UNCHANGED <<ackMode, clientVars, serverVars, netVars, drainVars, aborted, torn, history>>

SendBatch(b) ==
    /\ sealing /\ sealing' = FALSE
    /\ \/ Client!Consume(b) /\ UNCHANGED told
       \/ Client!ConsumeExhausted(b) /\ told' = told \cup {seq + 1}
    /\ UNCHANGED <<ackMode, serverVars, netVars, drainVars, aborted, torn, lost, rolled>>

WriteFrame(s) ==
    /\ Alive /\ phase # "closed"
    /\ Client!WriteDone(s)
    /\ up' = Client!With(up, s, writing[s])
    /\ UNCHANGED <<ackMode, serverVars, results, credits, drainVars, sealing, aborted, torn,
                   history>>

(* Mutant: the failed write does not give its credit back. *)
WriteFailsKeeps(s) ==
    /\ Client!WriteDone(s)
    /\ told' = told \cup {s}
    /\ UNCHANGED <<ackMode, serverVars, netVars, drainVars, sealing, aborted, torn, lost,
                   rolled>>

(* The frame never reaches the server whole, and SendBatch says so. *)
WriteFails(s) ==
    /\ Client!Rollback(s)
    /\ told' = told \cup {s}
    /\ IF s \in DOMAIN slots THEN rolled' = TRUE /\ UNCHANGED lost
       ELSE lost' = lost + 1 /\ UNCHANGED rolled
    /\ UNCHANGED <<ackMode, serverVars, netVars, drainVars, sealing, aborted, torn>>

-----------------------------------------------------------------------------
(* The client's control loop and its reaper.                                *)

IsTerminal(level) == level # "accepted" \/ ~Durable

(* Every level removes the slot; the drain is told afterwards. *)
handleResult(m) ==
    /\ Alive /\ phase # "closed" /\ "control" \notin notifying
    /\ m \in results
    /\ results' = results \ {m}
    /\ IF m.seq \in DOMAIN slots THEN Client!Terminal(m.seq) ELSE UNCHANGED clientVars
    /\ told' = IF IsTerminal(m.level) THEN told \cup {m.seq} ELSE told
    /\ notifying' = notifying \cup {"control"}
    /\ UNCHANGED <<ackMode, serverVars, up, credits, sealing, aborted, torn, phase, token,
                   lost, rolled>>

handleCredit(i) ==
    /\ Alive /\ phase # "closed" /\ "control" \notin notifying
    /\ i \in DOMAIN credits
    /\ credits' = RemoveAt(credits, i)
    /\ IF credits[i].batches = 0 \/ credits[i].bytes = 0
       THEN torn' = TRUE /\ UNCHANGED clientVars
       ELSE Client!OnCredit(credits[i].batches, credits[i].bytes) /\ UNCHANGED torn
    /\ UNCHANGED <<ackMode, serverVars, up, results, drainVars, sealing, aborted, history>>

AckReaperLoop(S) ==
    /\ Alive /\ phase # "closed" /\ "reaper" \notin notifying
    /\ Client!ReapExpired(S)
    /\ told' = told \cup S
    /\ notifying' = notifying \cup {"reaper"}
    /\ UNCHANGED <<ackMode, serverVars, netVars, sealing, aborted, torn, phase, token, lost,
                   rolled>>

(* Mutant: only the control loop wakes the drain up. *)
notifyDrainFromControl(p) ==
    /\ p \in notifying
    /\ notifying' = notifying \ {p}
    /\ token' = (token \/ (p = "control" /\ Client!Drained))
    /\ UNCHANGED <<ackMode, clientVars, serverVars, netVars, sealing, aborted, torn, phase,
                   history>>

notifyDrainIfEmpty(p) ==
    /\ p \in notifying
    /\ notifying' = notifying \ {p}
    /\ token' = (token \/ Client!Drained)
    /\ UNCHANGED <<ackMode, clientVars, serverVars, netVars, sealing, aborted, torn, phase,
                   history>>

-----------------------------------------------------------------------------
(* Close: write CLOSE, leave Ready, drain, tear down.                       *)

GoPhase(from, to) ==
    /\ phase = from
    /\ phase' = to
    /\ UNCHANGED <<ackMode, clientVars, serverVars, netVars, sealing, aborted, torn, token,
                   notifying, history>>

writeClose == ackMode \in Closing /\ Alive /\ GoPhase("ready", "closing")
leaveReady == GoPhase("closing", "check")

(* Mutant: the drain looks at the last seq only. *)
drainLast ==
    \/ GoPhase("check", IF seq \notin DOMAIN slots THEN "drained" ELSE "wait")
    \/ /\ phase = "wait" /\ token
       /\ phase' = "check" /\ token' = FALSE
       /\ UNCHANGED <<ackMode, clientVars, serverVars, netVars, sealing, aborted, torn,
                      notifying, history>>

drain ==
    \/ GoPhase("check", IF Client!Drained THEN "drained" ELSE "wait")
    \/ /\ phase = "wait" /\ token
       /\ phase' = "check" /\ token' = FALSE
       /\ UNCHANGED <<ackMode, clientVars, serverVars, netVars, sealing, aborted, torn,
                      notifying, history>>

drainTimeout == GoPhase("wait", "timedOut")

(* teardownPhase and CloseConn. *)
teardown ==
    /\ phase \in {"drained", "timedOut"}
    /\ phase' = "closed"
    /\ Client!Reset
    /\ token' = TRUE
    /\ UNCHANGED <<ackMode, serverVars, netVars, sealing, aborted, torn, notifying, history>>

-----------------------------------------------------------------------------
(* The server.  A worker takes the BATCH from the transport with Admit and  *)
(* holds it until Consume.                                                  *)

ServerRest == UNCHANGED <<ackMode, clientVars, drainVars, sealing, torn, history>>

ServerAdmits(s) ==
    /\ Alive /\ s \in DOMAIN up
    /\ Server!Admit(s)
    /\ UNCHANGED <<netVars, aborted>> /\ ServerRest

(* Once CLOSE is on its way the server may stop reading the data streams. *)
ServerDropsFrame(s) ==
    /\ Alive /\ phase # "ready"
    /\ s \in DOMAIN up /\ ~grant[s].held
    /\ up' = Client!Without(up, {s})
    /\ UNCHANGED <<serverVars, results, credits, aborted>> /\ ServerRest

ServerConsumes(s) ==
    /\ Alive /\ s \in DOMAIN up
    /\ up' = Client!Without(up, {s})
    /\ \/ Server!Consume(s, up[s]) /\ UNCHANGED aborted
       \/ Server!ConsumeExhausted(s, up[s]) /\ aborted' = TRUE
    /\ UNCHANGED <<results, credits>> /\ ServerRest

ServerAccepts(s) ==
    /\ Alive /\ Durable
    /\ Server!Live(s) /\ Server!Accept(s)
    /\ results' = results \cup {[seq |-> s, level |-> "accepted"]}
    /\ UNCHANGED <<up, credits, aborted>> /\ ServerRest

ServerSettles(s, level) ==
    /\ Alive
    /\ \/ /\ Server!Settle(s, level, 0)
          /\ results' = results \cup {[seq |-> s, level |-> level]}
       \/ Server!SettleStale(s) /\ UNCHANGED results
    /\ UNCHANGED <<up, credits, aborted>> /\ ServerRest

(* Mutant: an accepted batch is left to its sink. *)
OldEnoughUnaccepted(s) == s \in seen /\ grant[s].consumed /\ ~grant[s].accepted

(* The age limit is much longer than the way from Admit to Consume, so only *)
(* batches whose credit is taken get old enough.                            *)
OldEnough(s) == s \in seen /\ grant[s].consumed

reaper(r) ==
    /\ Alive
    /\ \/ /\ \E s \in 1..MaxSeq : OldEnough(s) /\ Server!OldestBefore(r, s)
          /\ UNCHANGED results
       \/ Server!ForceSettleLook(r) /\ UNCHANGED results
       \/ /\ Server!ForceSettleReplay(r)
          /\ results' = results \cup {[seq |-> force[r].seq, level |-> l] :
                                        l \in {terminal[force[r].seq]} \ {None}}
       \/ /\ Server!ForceSettleCommit(r, "released")
          /\ results' = results \cup {[seq |-> force[r].seq, level |-> "released"]}
       \/ Server!ForceSettleStale(r) /\ UNCHANGED results
    /\ UNCHANGED <<up, credits, aborted>> /\ ServerRest

(* Mutant: the credit granted is not added to the server's own account. *)
flushPendingUncounted ==
    /\ Alive
    /\ recoveredB + recoveredY > 0
    /\ recoveredB' = 0 /\ recoveredY' = 0
    /\ credits' = Append(credits, [batches |-> recoveredB, bytes |-> recoveredY])
    /\ UNCHANGED <<outstandingB, outstandingY, low, accepted, seen, slotBytes, ringOrd,
                   terminal, grant, force, sent, up, results, aborted>>
    /\ ServerRest

flushPending ==
    /\ Alive
    /\ Server!TakeRecovered
    /\ credits' = Append(credits, [batches |-> recoveredB, bytes |-> recoveredY])
    /\ UNCHANGED <<up, results, aborted>> /\ ServerRest

-----------------------------------------------------------------------------
ClientReads ==
    \/ \E m \in results : handleResult(m)
    \/ \E i \in DOMAIN credits : handleCredit(i)

Next ==
    \/ encodeAndSeal
    \/ \E b \in FrameBytes : SendBatch(b)
    \/ \E s \in 1..MaxSeq : WriteFrame(s) \/ WriteFails(s)
    \/ ClientReads
    \/ \E S \in SUBSET DOMAIN slots : AckReaperLoop(S)
    \/ \E p \in {"control", "reaper"} : notifyDrainIfEmpty(p)
    \/ writeClose \/ leaveReady \/ drain \/ drainTimeout \/ teardown
    \/ \E s \in 1..MaxSeq : ServerAdmits(s) \/ ServerDropsFrame(s)
    \/ \E s \in 1..MaxSeq : ServerConsumes(s) \/ ServerAccepts(s)
    \/ \E s \in 1..MaxSeq : ServerSettles(s, Outcome)
    \/ \E r \in Forcers : reaper(r)
    \/ flushPending

FlowSpec == Init /\ [][Next]_flowVars

(* Writes end one way or the other, frames arrive and are handled, timers   *)
(* fire, and what stays in flight grows old.  The sink owes nothing.        *)
FlowFairness ==
    /\ \A s \in 1..MaxSeq : WF_flowVars(WriteFrame(s) \/ WriteFails(s))
    /\ \A s \in 1..MaxSeq : WF_flowVars(ServerAdmits(s)) /\ WF_flowVars(ServerConsumes(s))
    /\ \A r \in Forcers : SF_flowVars(reaper(r))
    /\ WF_flowVars(flushPending)
    /\ WF_flowVars(ClientReads) /\ WF_flowVars(notifyDrainIfEmpty("control"))

FairFlowSpec == FlowSpec /\ FlowFairness

-----------------------------------------------------------------------------
Total(f(_), S) == FoldSet(LAMBDA s, acc : f(s) + acc, 0, S)
CreditsB == FoldSeq(LAMBDA c, acc : c.batches + acc, 0, credits)
CreditsY == FoldSeq(LAMBDA c, acc : c.bytes + acc, 0, credits)

(* Conservation across the wire, in both dimensions: what the server thinks *)
(* an open client may still spend is what the client can spend, has spent on    *)
(* frames the server has not yet charged, or is about to be told of; only a  *)
(* write that fails after the client's reaper gave its slot up loses credit. *)
WireConserved ==
    Alive /\ phase = "ready" =>
        /\ outstandingB = Client!AvailableB + Cardinality(DOMAIN writing)
                            + Cardinality(DOMAIN up) + CreditsB + lost
        /\ outstandingY >= Client!AvailableY + Total(LAMBDA s : writing[s], DOMAIN writing)
                            + Total(LAMBDA s : up[s], DOMAIN up) + CreditsY
        /\ lost = 0 => outstandingY = Client!AvailableY
                            + Total(LAMBDA s : writing[s], DOMAIN writing)
                            + Total(LAMBDA s : up[s], DOMAIN up) + CreditsY

(* An honest pair never ends the session over credit, whatever overtakes    *)
(* what: the server does not find the client overdrawn and sends no ABORT   *)
(* (Consume), and the client neither counts the server's CREDITs as         *)
(* violations nor tears down (OnCredit's clamp, handleCredit's zero check). *)
NeverAborted == ~aborted /\ violations = 0 /\ ~torn

(* The drain never sleeps through its wake-up: when the last slot is gone,  *)
(* a token waits in drainCh or is about to be put there, unless the last    *)
(* slot was given up by Rollback, which does not notify.                    *)
DrainWakes ==
    phase = "wait" /\ Client!Drained /\ Alive =>
        token \/ notifying # {} \/ rolled

(* Drain's counting predicate: when the drain succeeds, every batch that     *)
(* was written has its final outcome ("all seqs sent have reached a terminal *)
(* state", client.go drain).  It holds in accepted_only sessions; in         *)
(* durable ones an accepted RESULT already removes the slot.                 *)
DrainComplete ==
    [][phase = "check" /\ phase' = "drained" =>
         \A s \in 1..seq : s \in told \/ s \in DOMAIN writing]_flowVars

(* A client without credit gets some again, even if the sink never answers: *)
(* reaper, flush and handleCredit close the circle.                         *)
CreditReturns ==
    Client!AvailableB = 0 /\ phase = "ready" ~>
        Client!AvailableB > 0 \/ phase # "ready" \/ lost > 0
=============================================================================
