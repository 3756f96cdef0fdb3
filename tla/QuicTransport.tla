---------------------------- MODULE QuicTransport ----------------------------
(***************************************************************************)
(* v1/quic_transport.go: the server side transport over one QUIC            *)
(* connection.  One goroutine accepts data streams, one goroutine per       *)
(* stream reads frames, one goroutine receives QUIC datagrams; all of them  *)
(* send into dataCh, which the handler's data loop receives from.  dataCh   *)
(* is closed by the accepting goroutine, once wg says the senders have      *)
(* gone; a send on a closed channel is a panic that ends the process.       *)
(*                                                                          *)
(* A frame is its position in its stream.  quic-go is external: a stream    *)
(* is accepted or read until the connection is dead, and closing the        *)
(* listener's UDP socket, which the watcher of ServerLifecycle does when    *)
(* the context ends, kills the connection.                                  *)
(***************************************************************************)
EXTENDS Naturals, Sequences, FiniteSets

CONSTANTS Streams,          \* the data streams the peer may open
          Datagrams,        \* SupportsDatagram: TRUE when both sides enabled it
          Capacity,         \* cap(dataCh), 64 in the code
          MaxFrames         \* bound: frames (and datagrams) per sender

Dgram == "dgram"

Senders == Streams \cup {Dgram}

VARIABLES setup,      \* newQuicTransport: "first", "spawned", "up", "failed"
          acceptor,   \* acceptDataStreams: "none", "accept", "wait", "ended"
          sender,     \* each sender: "none", "read", "send", "ended"
          wg,         \* the WaitGroup's counter
          dataCh,     \* frames in the channel, as <<sender, position>>
          chClosed,   \* close(dataCh) has run
          closed,     \* t.closed; close(t.done) happens with it
          connDead,   \* the QUIC connection is closed
          ctxDone,    \* the context of Run is cancelled
          handler,    \* "running", "drained" (data loop gone), "closed" (Close ran)
          read,       \* how many frames each sender has taken off the wire
          got,        \* how many of them the data loop has received
          panicked    \* senders whose send hit the closed channel

quicVars == <<setup, acceptor, sender, wg, dataCh, chClosed, closed, connDead,
              ctxDone, handler, read, got, panicked>>

Init ==
  /\ setup = "first" /\ acceptor = "none" /\ handler = "running"
  /\ sender = [s \in Senders |-> "none"]
  /\ wg = 0 /\ dataCh = <<>>
  /\ chClosed = FALSE /\ closed = FALSE /\ connDead = FALSE
  /\ ctxDone = FALSE /\ panicked = {}
  /\ read = [s \in Senders |-> 0]
  /\ got = [s \in Senders |-> 0]

-----------------------------------------------------------------------------
(* newQuicTransport *)

SetupRest == UNCHANGED <<dataCh, chClosed, closed, ctxDone, handler, read, got, panicked>>

(* The first stream is the control stream: the connection is fresh, so      *)
(* AcceptStream answers the control role.  Then the accepting goroutine     *)
(* starts.                                                                  *)
FirstStream ==
  /\ setup = "first" /\ ~connDead
  /\ setup' = "spawned" /\ acceptor' = "accept"
  /\ SetupRest /\ UNCHANGED <<sender, wg, connDead>>

(* The peer never opens a stream (firstStreamTimeout), the context ends or *)
(* the connection dies: the connection is closed and there is no transport.*)
FirstStreamFails ==
  /\ setup = "first"
  /\ setup' = "failed" /\ connDead' = TRUE
  /\ SetupRest /\ UNCHANGED <<acceptor, sender, wg>>

(* wg.Add(1) and the datagram goroutine, after the accepting goroutine has  *)
(* been started.                                                            *)
StartDatagrams ==
  /\ setup = "spawned"
  /\ setup' = "up"
  /\ IF Datagrams
       THEN wg' = wg + 1 /\ sender' = [sender EXCEPT ![Dgram] = "read"]
       ELSE UNCHANGED <<wg, sender>>
  /\ SetupRest /\ UNCHANGED <<acceptor, connDead>>

-----------------------------------------------------------------------------
(* acceptDataStreams *)

AcceptRest ==
  UNCHANGED <<setup, dataCh, connDead, ctxDone, handler, read, got, panicked>>

AcceptStream(s) ==
  /\ acceptor = "accept" /\ ~connDead /\ sender[s] = "none"
  /\ wg' = wg + 1
  /\ sender' = [sender EXCEPT ![s] = "read"]
  /\ AcceptRest /\ UNCHANGED <<acceptor, chClosed, closed>>

(* AcceptStream returns an error: the closing signal is given first.      *)
AcceptFails ==
  /\ acceptor = "accept" /\ (ctxDone \/ connDead)
  /\ acceptor' = "wait" /\ closed' = TRUE
  /\ AcceptRest /\ UNCHANGED <<sender, wg, chClosed>>

(* wg.Wait(), then close(dataCh).                                         *)
AcceptCloses ==
  /\ acceptor = "wait" /\ wg = 0
  /\ acceptor' = "ended" /\ chClosed' = TRUE
  /\ AcceptRest /\ UNCHANGED <<sender, wg, closed>>

-----------------------------------------------------------------------------
(* readDataStream and receiveDatagrams *)

SenderRest ==
  UNCHANGED <<setup, acceptor, chClosed, closed, connDead, ctxDone, handler, got>>

(* core.Read or ReceiveDatagram hands over a frame.                       *)
SenderReads(s) ==
  /\ sender[s] = "read" /\ ~connDead /\ read[s] < MaxFrames
  /\ read' = [read EXCEPT ![s] = @ + 1]
  /\ sender' = [sender EXCEPT ![s] = "send"]
  /\ SenderRest /\ UNCHANGED <<wg, dataCh, panicked>>

(* The read fails: the connection is dead, or the peer ended its stream.  *)
SenderReadFails(s) ==
  /\ sender[s] = "read" /\ (connDead \/ s # Dgram)
  /\ sender' = [sender EXCEPT ![s] = "ended"]
  /\ wg' = wg - 1
  /\ SenderRest /\ UNCHANGED <<dataCh, read, panicked>>

(* case t.dataCh <- f: it waits while the channel is full.                *)
SenderSends(s) ==
  /\ sender[s] = "send" /\ ~chClosed /\ Len(dataCh) < Capacity
  /\ sender' = [sender EXCEPT ![s] = "read"]
  /\ dataCh' = Append(dataCh, <<s, read[s]>>)
  /\ SenderRest /\ UNCHANGED <<wg, read, panicked>>

(* case <-t.done.                                                         *)
SenderSeesDone(s) ==
  /\ sender[s] = "send" /\ closed
  /\ sender' = [sender EXCEPT ![s] = "ended"]
  /\ wg' = wg - 1
  /\ SenderRest /\ UNCHANGED <<dataCh, read, panicked>>

(* The send case is ready on a closed channel too, and it panics: select    *)
(* may choose it although done is closed.                                   *)
SenderPanics(s) ==
  /\ sender[s] = "send" /\ chClosed
  /\ panicked' = panicked \cup {s}
  /\ SenderRest /\ UNCHANGED <<sender, wg, dataCh, read>>

-----------------------------------------------------------------------------
(* The handler: RecvDataFrame, SendFrame, Close *)

HandlerRest == UNCHANGED <<setup, acceptor, sender, wg, chClosed, ctxDone, read, panicked>>

RecvDataFrame ==
  /\ setup = "up" /\ handler = "running" /\ dataCh # <<>>
  /\ dataCh' = Tail(dataCh)
  /\ got' = [got EXCEPT ![dataCh[1][1]] = @ + 1]
  /\ HandlerRest /\ UNCHANGED <<closed, connDead, handler>>

(* The data loop ends: the channel is closed and empty, the context of      *)
(* Handle has ended, or the control loop has (Handle cancels the data       *)
(* context when the control stream ends for any reason).                    *)
DataLoopEnds ==
  /\ setup = "up" /\ handler = "running"
  /\ handler' = "drained"
  /\ HandlerRest /\ UNCHANGED <<dataCh, closed, connDead, got>>

(* A write of SendFrame fails or misses its deadline: half a frame may be   *)
(* on the control stream, so the connection is torn down.                   *)
SendFrameFails ==
  /\ setup = "up" /\ handler # "closed" /\ ~connDead
  /\ connDead' = TRUE
  /\ HandlerRest /\ UNCHANGED <<dataCh, closed, handler, got>>

(* Mutant: the connection is left to the accepting goroutine. *)
CloseOnlySignals ==
  /\ setup = "up" /\ handler = "drained"
  /\ handler' = "closed" /\ closed' = TRUE
  /\ HandlerRest /\ UNCHANGED <<dataCh, got, connDead>>

(* Close, which handleConn defers: when closed is already set it returns    *)
(* without closing the connection.                                          *)
Close ==
  /\ setup = "up" /\ handler = "drained"
  /\ handler' = "closed" /\ closed' = TRUE
  /\ connDead' = (connDead \/ ~closed)
  /\ HandlerRest /\ UNCHANGED <<dataCh, got>>

-----------------------------------------------------------------------------
(* The surroundings: Run's context, the listener's socket, the peer *)

EnvRest == UNCHANGED <<setup, acceptor, sender, wg, dataCh, chClosed, closed,
                       handler, read, got, panicked>>

CtxEnds == ~ctxDone /\ ctxDone' = TRUE /\ EnvRest /\ UNCHANGED connDead

ListenerCloses == ctxDone /\ ~connDead /\ connDead' = TRUE /\ EnvRest /\ UNCHANGED ctxDone

ConnDies == ~connDead /\ connDead' = TRUE /\ EnvRest /\ UNCHANGED ctxDone

SenderStep(s) ==
  \/ SenderReads(s) \/ SenderReadFails(s)
  \/ SenderSends(s) \/ SenderSeesDone(s) \/ SenderPanics(s)

(* A panic outside every recover ends the process: what the model does      *)
(* after panicked is of no interest, and no property looks at it.           *)
Next ==
  \/ FirstStream \/ FirstStreamFails \/ StartDatagrams
  \/ \E s \in Streams : AcceptStream(s)
  \/ AcceptFails \/ AcceptCloses
  \/ \E s \in Senders : SenderStep(s)
  \/ RecvDataFrame \/ DataLoopEnds \/ SendFrameFails \/ Close
  \/ CtxEnds \/ ListenerCloses \/ ConnDies

QuicSpec == Init /\ [][Next]_quicVars

(* Go schedules every runnable goroutine; the watcher closes the listener   *)
(* once the context has ended.  Nothing is assumed of the peer.             *)
QuicFairness ==
  /\ WF_quicVars(StartDatagrams)
  /\ WF_quicVars(AcceptFails \/ AcceptCloses)
  /\ \A s \in Senders :
       WF_quicVars((connDead /\ SenderReadFails(s)) \/ SenderSeesDone(s))
  /\ WF_quicVars(ListenerCloses)

FairQuicSpec == QuicSpec /\ QuicFairness

-----------------------------------------------------------------------------
(* No sender sends on the closed dataCh: quic_transport.go:31 and :34 say   *)
(* done and wg are there so that every sender has gone before dataCh is     *)
(* closed.                                                                  *)
NoSendOnClosed == panicked = {}

(* The goroutines of the data streams keep to it, whoever ends first: the   *)
(* accepting goroutine counts each of them before it can wait for them.     *)
NoStreamSendsOnClosed == panicked \cap Streams = {}

(* Back pressure, not loss: every frame a stream's goroutine has taken off  *)
(* the wire is received in the stream's order, and until done is closed     *)
(* none is missing: it has been received, or waits in dataCh, or is in the  *)
(* hands of its goroutine (quic_transport.go:135).                          *)
NoFrameSkipped ==
  \A s \in Senders :
    LET waiting == SelectSeq(dataCh, LAMBDA f : f[1] = s)
        held == IF sender[s] = "send" THEN 1 ELSE 0
    IN /\ \A i \in 1 .. Len(waiting) : waiting[i][2] = got[s] + i
       /\ ~closed => read[s] = got[s] + Len(waiting) + held

(* Once handleConn has called Close, every goroutine of the transport       *)
(* ends, whatever the peer does: also when Close found closed already set   *)
(* and left the connection open, because then the connection is dead or     *)
(* the listener is closing it (quic_transport.go:252-262).                  *)
CloseEndsAll ==
  (handler = "closed") ~>
     (panicked # {} \/ (acceptor = "ended" /\ \A s \in Senders : sender[s] \in {"none", "ended"}))
=============================================================================
