----------------------------- MODULE FrameStream -----------------------------
(***************************************************************************)
(* core/frame.go over a byte stream: Write puts header, length and payload  *)
(* on the stream, Read takes a frame off it.  Bytes arrive in any pieces.   *)
(* The reader is the client's control loop (client_control.go): it calls    *)
(* ReadFrameCtxLimit again after a temporary error, and a read deadline     *)
(* that has passed is one.                                                  *)
(***************************************************************************)
EXTENDS Varint, FiniteSets

CONSTANTS Types,        \* frame types, a set of bytes
          Payloads,     \* payloads, sequences of bytes
          Limit,        \* FrameLimits.MaxFrameBytes of the reader
          WriteLimit,   \* MaxFrameBytes, which Write enforces
          Deadlines,    \* where a read deadline may pass, see Waiting
          MaxFrames,    \* bound: frames written
          MaxTimeouts   \* bound: deadlines that pass

VARIABLES sent,      \* frames written, the torn one included
          flight,    \* bytes written, not yet arrived
          arrived,   \* bytes that can be read
          torn,      \* a write broke off; the binding writes nothing more
          got,       \* frames Read returned
          reader,    \* "loop", or "failed" when the client tears down
          timeouts

streamVars == <<sent, flight, arrived, torn, got, reader, timeouts>>

Frame == [typ : Types, payload : Payloads]

Init ==
  /\ sent = <<>> /\ flight = <<>> /\ arrived = <<>> /\ got = <<>>
  /\ torn = FALSE /\ reader = "loop" /\ timeouts = 0

EncodeFrame(f) == <<f.typ, 0>> \o AppendVarint[Len(f.payload)] \o f.payload

-----------------------------------------------------------------------------
(* Write *)

Write(f) ==
  /\ ~torn /\ Len(sent) < MaxFrames /\ Len(f.payload) <= WriteLimit
  /\ sent' = Append(sent, f)
  /\ flight' = flight \o EncodeFrame(f)
  /\ UNCHANGED <<arrived, torn, got, reader, timeouts>>

(* A write fails or is short: n bytes of the frame are on the stream, and   *)
(* the transport is torn down.                                              *)
WriteBreaks(f, n) ==
  /\ ~torn /\ Len(sent) < MaxFrames /\ n < Len(EncodeFrame(f))
  /\ sent' = Append(sent, f)
  /\ flight' = flight \o SubSeq(EncodeFrame(f), 1, n)
  /\ torn' = TRUE
  /\ UNCHANGED <<arrived, got, reader, timeouts>>

Arrive(n) ==
  /\ n \in 1 .. Len(flight)
  /\ arrived' = arrived \o SubSeq(flight, 1, n)
  /\ flight' = SubSeq(flight, n + 1, Len(flight))
  /\ UNCHANGED <<sent, torn, got, reader, timeouts>>

-----------------------------------------------------------------------------
(* Read.  LengthEnd is the position of the last byte of the length field    *)
(* once it has arrived.                                                     *)

Rest == SubSeq(arrived, 3, Len(arrived))

LengthEnd == 2 + FieldEnd(Rest)
Length == Value(SubSeq(arrived, 3, LengthEnd))

(* A check of Read refuses the frame: the flags, the length's encoding or   *)
(* the limit, each as soon as its bytes are there, before the payload.      *)
Refused ==
  \/ Len(arrived) >= 2 /\ arrived[2] # 0
  \/ readVarint(Rest) = "error"
  \/ readVarint(Rest) = "value" /\ Length > Limit

FrameEnd == LengthEnd + Length

Complete == ~Refused /\ readVarint(Rest) = "value" /\ FrameEnd <= Len(arrived)

(* Mutant: the payload stays on the stream. *)
ReadKeepsPayload ==
  /\ reader = "loop" /\ Complete
  /\ got' = Append(got, [typ |-> arrived[1], payload |-> SubSeq(arrived, LengthEnd + 1, FrameEnd)])
  /\ arrived' = SubSeq(arrived, LengthEnd + 1, Len(arrived))
  /\ UNCHANGED <<sent, flight, torn, reader, timeouts>>

(* A whole frame has arrived.                                             *)
Read ==
  /\ reader = "loop" /\ Complete
  /\ got' = Append(got, [typ |-> arrived[1], payload |-> SubSeq(arrived, LengthEnd + 1, FrameEnd)])
  /\ arrived' = SubSeq(arrived, FrameEnd + 1, Len(arrived))
  /\ UNCHANGED <<sent, flight, torn, reader, timeouts>>

(* The frame is refused, or the stream has ended within it: not temporary,  *)
(* the client tears the connection down.                                    *)
ReadFails ==
  /\ reader = "loop"
  /\ Refused \/ (torn /\ flight = <<>> /\ ~Complete)
  /\ reader' = "failed"
  /\ UNCHANGED <<sent, flight, arrived, torn, got, timeouts>>

(* What Read waits for when the frame is not complete.                    *)
Waiting ==
  CASE arrived = <<>> -> "idle"
    [] Len(arrived) = 1 -> "header"
    [] readVarint(Rest) = "more" -> "length"
    [] OTHER -> "payload"

(* The read deadline passes while Read waits for more.  The bytes it has    *)
(* are gone; draining the rest of the payload fails at once, because the    *)
(* deadline has passed for that read too.  isTemporaryError sees the        *)
(* deadline's error through the wrapping of the header and the payload,     *)
(* and the loop reads on; readVarint hides it, and the client tears down.   *)
ReadTimesOut ==
  /\ reader = "loop" /\ ~Complete /\ ~Refused
  /\ Waiting \in Deadlines /\ timeouts < MaxTimeouts
  /\ timeouts' = timeouts + 1
  /\ arrived' = <<>>
  /\ reader' = IF Waiting = "length" THEN "failed" ELSE "loop"
  /\ UNCHANGED <<sent, flight, torn, got>>

Next ==
  \/ \E f \in Frame : Write(f)
  \/ \E f \in Frame : \E n \in 0 .. Len(EncodeFrame(f)) : WriteBreaks(f, n)
  \/ \E n \in 1 .. Len(flight) : Arrive(n)
  \/ Read \/ ReadFails \/ ReadTimesOut

StreamSpec == Init /\ [][Next]_streamVars

-----------------------------------------------------------------------------
(* The reader sees the frames that were written, in their order and         *)
(* unchanged, however the bytes were cut up: frame boundaries are kept      *)
(* (frame.go:139, and core-spec 2.2 on short reads).                        *)
BoundaryKept ==
  /\ Len(got) <= Len(sent)
  /\ \A i \in 1 .. Len(got) : got[i] = sent[i]
=============================================================================
