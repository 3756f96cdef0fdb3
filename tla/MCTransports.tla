---------------------------- MODULE MCTransports ----------------------------
(* The transports of the two bindings for TLC.  A connection has one of     *)
(* them, so a behaviour chooses the binding at the start and the other      *)
(* transport never moves.                                                   *)
EXTENDS TcpTransport

CONSTANTS Streams, Datagrams

VARIABLES
    binding,
    setup, acceptor, sender, wg, dataCh, chClosed, quicClosed, connDead, quicCtxDone,
    handler, read, got, panicked

Quic == INSTANCE QuicTransport WITH closed <- quicClosed, ctxDone <- quicCtxDone,
                                     Capacity <- Capacity["data"]

quic == <<setup, acceptor, sender, wg, dataCh, chClosed, quicClosed, connDead, quicCtxDone,
          handler, read, got, panicked>>

MCCapacity == [control |-> 1, data |-> 1]

TransportsInit == binding \in {"tcp", "quic"} /\ Init /\ Quic!Init

TcpNext == binding = "tcp" /\ Next /\ UNCHANGED <<binding, quic>>
QuicNext == binding = "quic" /\ Quic!Next /\ UNCHANGED <<binding, tcpVars>>

TransportsNext == TcpNext \/ QuicNext

TransportsSpec ==
    /\ TransportsInit /\ [][TransportsNext]_<<binding, tcpVars, quic>>
    /\ binding = "tcp" => TcpFairness
    /\ binding = "quic" => Quic!QuicFairness

-----------------------------------------------------------------------------
(* Back pressure, not loss: without Close, no frame that was read from the  *)
(* connection is lost or overtaken on its way through full channels         *)
(* (readLoop, readDataStream); and no goroutine of a QUIC data stream sends *)
(* on the closed dataCh (acceptDataStreams counts it before it can wait).   *)
FramesHandedOver == NoFrameLost /\ Quic!NoFrameSkipped /\ Quic!NoStreamSendsOnClosed

(* Close ends readLoop, also when it is stuck on a channel nobody receives  *)
(* from, and every goroutine of the QUIC transport, whatever the peer does; *)
(* a context that ends wakes a SendFrame that waits for the token.          *)
WaitsEnd == CloseEndsReader /\ CancelWakes /\ Quic!CloseEndsAll
=============================================================================
