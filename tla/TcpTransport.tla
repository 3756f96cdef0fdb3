---------------------------- MODULE TcpTransport ----------------------------
(***************************************************************************)
(* The server side of the TCP binding (ntls/tcp_transport.go): one stream   *)
(* read by readLoop and fanned out to a control and a data channel, written *)
(* by any goroutine that holds the single token of writeSem, and closed by  *)
(* Close, which keeps the token.                                            *)
(***************************************************************************)
EXTENDS Integers, FiniteSets

CONSTANTS
    Writers,     \* goroutines that call SendFrame
    Cancellable, \* those whose context may be cancelled
    Closers,     \* goroutines that call Close
    Capacity,    \* capacity of each channel: [control |-> .., data |-> ..]
    MaxFrames,   \* bound: frames that arrive
    MaxWrites    \* bound: calls of SendFrame

Kinds == {"control", "data"}

VARIABLES
    writeSem,  \* tokens in the semaphore
    writer,    \* idle, waits, holds, breaking
    ctxDone,   \* writers whose context is done
    writes,
    half,      \* the stream ends in half a frame
    desync,    \* a frame was written after half a frame
    connOpen,
    closed,    \* closed, and done closed with it
    closer,    \* idle, drains, shuts, returned
    reader,    \* reads, ended, or the kind of the frame it wants to pass on
    ch,        \* frames in each channel
    arrived,   \* frames read from the connection
    received,  \* frames handed to the loops
    consumer   \* whether each loop still receives

writeVars == <<writeSem, writer, ctxDone, writes, half, desync>>
readVars == <<reader, ch, arrived, received, consumer>>
closeVars == <<closed, closer>>
tcpVars == <<writeVars, connOpen, closeVars, readVars>>

Init ==
    /\ writeSem = 1 /\ writer = [w \in Writers |-> "idle"]
    /\ ctxDone = {} /\ writes = 0
    /\ half = FALSE /\ desync = FALSE
    /\ connOpen = TRUE /\ closed = FALSE
    /\ closer = [c \in Closers |-> "idle"]
    /\ reader = "reads"
    /\ ch = [k \in Kinds |-> 0]
    /\ arrived = 0 /\ received = 0
    /\ consumer = [k \in Kinds |-> TRUE]

-----------------------------------------------------------------------------
(* SendFrame.                                                               *)

WriterRest == UNCHANGED <<closeVars, readVars>>
WriterGoes(w, pc) == writer' = [writer EXCEPT ![w] = pc]

SendFrame(w) ==
    /\ writer[w] = "idle" /\ writes < MaxWrites
    /\ writes' = writes + 1
    /\ WriterGoes(w, "waits")
    /\ UNCHANGED <<writeSem, ctxDone, half, desync, connOpen>> /\ WriterRest

(* The select on the token and the context. *)
SendAcquires(w) ==
    /\ writer[w] = "waits"
    /\ \/ writeSem = 1 /\ writeSem' = 0 /\ WriterGoes(w, "holds")
       \/ w \in ctxDone /\ WriterGoes(w, "idle") /\ UNCHANGED writeSem
    /\ UNCHANGED <<ctxDone, writes, half, desync, connOpen>> /\ WriterRest

(* The write succeeds; the deferred function returns the token. *)
SendWrites(w) ==
    /\ writer[w] = "holds" /\ connOpen
    /\ desync' = (desync \/ half)
    /\ writeSem' = writeSem + 1
    /\ WriterGoes(w, "idle")
    /\ UNCHANGED <<ctxDone, writes, half, connOpen>> /\ WriterRest

(* Mutant: the token is returned before the broken connection is closed. *)
SendFailsEarlyRelease(w) ==
    /\ writer[w] = "holds"
    /\ half' \in {half, TRUE}
    /\ writeSem' = writeSem + 1
    /\ WriterGoes(w, "breaking")
    /\ UNCHANGED <<ctxDone, writes, desync, connOpen>> /\ WriterRest

(* The write times out or the connection is gone; part of the frame may be  *)
(* on the stream.                                                           *)
SendFails(w) ==
    /\ writer[w] = "holds"
    /\ half' \in {half, connOpen \/ half}
    /\ WriterGoes(w, "breaking")
    /\ UNCHANGED <<writeSem, ctxDone, writes, desync, connOpen>> /\ WriterRest

(* The connection is closed first, the token returned last. *)
SendBreaks(w) ==
    /\ writer[w] = "breaking"
    /\ connOpen' = FALSE
    /\ writeSem' = writeSem + 1
    /\ WriterGoes(w, "idle")
    /\ UNCHANGED <<ctxDone, writes, half, desync>> /\ WriterRest

CtxEnds(w) ==
    /\ w \in Cancellable \ ctxDone
    /\ ctxDone' = ctxDone \cup {w}
    /\ UNCHANGED <<writeSem, writer, writes, half, desync, connOpen>> /\ WriterRest

-----------------------------------------------------------------------------
(* Close.  closeMu is held to the end, so a second caller waits for the     *)
(* first and then finds closed set.                                         *)

CloserGoes(c, pc) == closer' = [closer EXCEPT ![c] = pc]
CloseRest == UNCHANGED <<writer, ctxDone, writes, half, desync, readVars>>

Close(c) ==
    /\ closer[c] = "idle"
    /\ \A d \in Closers : closer[d] \notin {"drains", "shuts"}
    /\ CloserGoes(c, IF closed THEN "returned" ELSE "drains")
    /\ closed' = TRUE
    /\ UNCHANGED <<writeSem, connOpen>> /\ CloseRest

(* Take the token for good, or stop waiting after five seconds; at that     *)
(* moment a token may just have come back.                                  *)
CloseDrains(c) ==
    /\ closer[c] = "drains"
    /\ writeSem' \in {0, writeSem}
    /\ CloserGoes(c, "shuts")
    /\ UNCHANGED <<connOpen, closed>> /\ CloseRest

CloseShuts(c) ==
    /\ closer[c] = "shuts"
    /\ connOpen' = FALSE
    /\ CloserGoes(c, "returned")
    /\ UNCHANGED <<writeSem, closed>> /\ CloseRest

-----------------------------------------------------------------------------
(* readLoop, RecvControlFrame and RecvDataFrame.                            *)

ReadRest == UNCHANGED <<writeVars, connOpen, closeVars>>

ReadFrame(k) ==
    /\ reader = "reads" /\ connOpen /\ arrived < MaxFrames
    /\ arrived' = arrived + 1
    /\ reader' = k
    /\ UNCHANGED <<ch, received, consumer>> /\ ReadRest

(* A read error, a closed connection or the read deadline. *)
ReadFails ==
    /\ reader = "reads"
    /\ reader' = "ended"
    /\ UNCHANGED <<ch, arrived, received, consumer>> /\ ReadRest

(* Mutant: a full channel drops the frame. *)
DispatchDrops ==
    /\ reader \in Kinds
    /\ ch' = [ch EXCEPT ![reader] = IF @ < Capacity[reader] THEN @ + 1 ELSE @]
    /\ reader' = "reads"
    /\ UNCHANGED <<arrived, received, consumer>> /\ ReadRest

(* The select on the channel and done. *)
Dispatch ==
    /\ reader \in Kinds
    /\ \/ ch[reader] < Capacity[reader]
          /\ ch' = [ch EXCEPT ![reader] = @ + 1] /\ reader' = "reads"
       \/ closed /\ reader' = "ended" /\ UNCHANGED ch
    /\ UNCHANGED <<arrived, received, consumer>> /\ ReadRest

Recv(k) ==
    /\ consumer[k] /\ ch[k] > 0
    /\ ch' = [ch EXCEPT ![k] = @ - 1]
    /\ received' = received + 1
    /\ UNCHANGED <<reader, arrived, consumer>> /\ ReadRest

(* io.EOF from a closed and empty channel, or the context ends. *)
RecvEnds(k, eof) ==
    /\ consumer[k]
    /\ eof => reader = "ended" /\ ch[k] = 0
    /\ consumer' = [consumer EXCEPT ![k] = FALSE]
    /\ UNCHANGED <<reader, ch, arrived, received>> /\ ReadRest

-----------------------------------------------------------------------------
WriterStep(w) == SendAcquires(w) \/ SendWrites(w) \/ SendFails(w) \/ SendBreaks(w)
CloserStep(c) == CloseDrains(c) \/ CloseShuts(c)
ReaderStep == ReadFails \/ Dispatch \/ (\E k \in Kinds : ReadFrame(k))

Next ==
    \/ \E w \in Writers : SendFrame(w) \/ WriterStep(w) \/ CtxEnds(w)
    \/ \E c \in Closers : Close(c) \/ CloserStep(c)
    \/ ReaderStep
    \/ \E k \in Kinds : Recv(k) \/ RecvEnds(k, TRUE) \/ RecvEnds(k, FALSE)

TcpSpec == Init /\ [][Next]_tcpVars

(* Goroutines that can go on do: writes and reads have deadlines.  Nothing  *)
(* is assumed of callers, contexts, or the loops that receive.              *)
TcpFairness ==
    /\ \A w \in Writers : WF_tcpVars(WriterStep(w))
    /\ \A c \in Closers : WF_tcpVars(CloserStep(c))
    /\ WF_tcpVars(ReaderStep)

FairTcpSpec == TcpSpec /\ TcpFairness

-----------------------------------------------------------------------------
(* Frames of different goroutines never interleave on the stream: the token *)
(* is in the semaphore, with one writer, or kept by Close, also after a     *)
(* Close that stopped waiting while a writer was stuck.                     *)
OneWriter ==
    writeSem + Cardinality({w \in Writers : writer[w] \in {"holds", "breaking"}}) \in {0, 1}

(* No whole frame follows half a frame: a failed write closes the           *)
(* connection before the next writer can have the token.                    *)
NoDesync == ~desync

(* The stream stays in step: both of the above (SendFrame, Close).          *)
StreamIntact == OneWriter /\ NoDesync

(* Without Close no frame that was read is lost, even when both channels    *)
(* are full: the reader waits.                                              *)
NoFrameLost ==
    ~closed =>
        arrived = received + ch["control"] + ch["data"] + IF reader \in Kinds THEN 1 ELSE 0

(* Close always ends the read loop, also when it is stuck on a channel      *)
(* nobody receives from ("Close wakes a readLoop blocked on a send").       *)
CloseEndsReader == closed ~> reader = "ended"

(* A goroutine whose context ends does not stay in the wait for the token.  *)
CancelWakes == \A w \in Writers : writer[w] = "waits" /\ w \in ctxDone ~> writer[w] = "idle"

(* "The close path MUST wake the goroutines blocked on the read and on the  *)
(* write side (closing the connection and the done signal)".                *)
CloseWakes == \A w \in Writers : closed /\ writer[w] = "waits" ~> writer[w] = "idle"
=============================================================================
