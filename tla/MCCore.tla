------------------------------- MODULE MCCore --------------------------------
(* The pieces of the session that share no state, for TLC: the client's     *)
(* ledger and callbacks, the CREDIT flush, the server's credit manager      *)
(* under callers that settle in any order, sessions with their commands,    *)
(* the framing of a stream, its length field, the correlation filter and    *)
(* the datagram bucket.  A behaviour chooses one piece at the start, and    *)
(* the others never move.                                                   *)
EXTENDS CreditLedger, CreditFlush, CommandChannel, ClientCallbacks, TLC

CONSTANTS
    ManagerSeqs, ManagerB, ManagerY, ManagerBytes, RingCap, Levels, Forcers,
    Group, MaxVarintLen, VarintMax,
    Types, Payloads, Limit, WriteLimit, Deadlines, MaxTimeouts,
    Deliveries, Keys, KeyOf, Empty, Cap, TTL, MaxTime,
    Rates, Second, Sizes, MaxClock, MaxCalls

VARIABLES
    piece,
    outstandingB, outstandingY, recoveredB, recoveredY,
    low, accepted, inflight, slotBytes, ringOrd, terminal, grant, force, outcomes,
    encoded,  \* the bytes readVarint is given
    sent, flight, arrived, torn, got, reader, timeouts,
    now, recent, order, handling, passed,
    rate, clock, last, avail, calls

manager == <<outstandingB, outstandingY, recoveredB, recoveredY,
             low, accepted, inflight, slotBytes, ringOrd, terminal, grant, force, outcomes>>
frames == <<sent, flight, arrived, torn, got, reader, timeouts>>
dedup == <<now, recent, order, handling, passed>>
bucket == <<rate, clock, last, avail, calls>>

Manager == INSTANCE CreditManager
    WITH MaxSeq <- ManagerSeqs, InitialB <- ManagerB, InitialY <- ManagerY,
         FrameBytes <- ManagerBytes, seen <- inflight, sent <- outcomes
Length == INSTANCE Varint
Frames == INSTANCE FrameStream
Dedup == INSTANCE CorrelationDeduper WITH seen <- recent, call <- handling
Bucket == INSTANCE DatagramBucket WITH now <- clock, MaxTime <- MaxClock

Pieces == {"ledger", "flush", "manager", "commands", "varint", "frames", "dedup", "bucket",
           "callbacks"}
Inputs == UNION {[1 .. n -> Length!Byte] : n \in 0 .. MaxVarintLen}

CoreInit ==
    /\ piece \in Pieces
    /\ encoded \in IF piece = "varint" THEN Inputs ELSE {<<>>}
    /\ LedgerInit /\ FlushInit /\ Manager!Init /\ CommandInit
    /\ Frames!Init /\ Dedup!Init /\ Bucket!Init /\ CallbackInit
    /\ piece = "bucket" \/ rate = 0

CoreNext ==
    \/ /\ piece = "ledger" /\ LedgerNext
       /\ UNCHANGED <<piece, encoded, flushVars, manager, commandVars, frames, dedup, bucket, callbackVars>>
    \/ /\ piece = "flush" /\ FlushNext
       /\ UNCHANGED <<piece, encoded, ledgerVars, manager, commandVars, frames, dedup, bucket, callbackVars>>
    \/ /\ piece = "manager" /\ Manager!Next
       /\ UNCHANGED <<piece, encoded, ledgerVars, flushVars, commandVars, frames, dedup, bucket, callbackVars>>
    \/ /\ piece = "commands" /\ CommandNext
       /\ UNCHANGED <<piece, encoded, ledgerVars, flushVars, manager, frames, dedup, bucket, callbackVars>>
    \/ /\ piece = "frames" /\ Frames!Next
       /\ UNCHANGED <<piece, encoded, ledgerVars, flushVars, manager, commandVars, dedup, bucket, callbackVars>>
    \/ /\ piece = "dedup" /\ Dedup!Next
       /\ UNCHANGED <<piece, encoded, ledgerVars, flushVars, manager, commandVars, frames, bucket, callbackVars>>
    \/ /\ piece = "bucket" /\ Bucket!Next
       /\ UNCHANGED <<piece, encoded, ledgerVars, flushVars, manager, commandVars, frames, dedup, callbackVars>>
    \/ /\ piece = "callbacks" /\ CallbackNext
       /\ UNCHANGED <<piece, encoded, ledgerVars, flushVars, manager, commandVars, frames, dedup, bucket>>

coreVars ==
    <<piece, encoded, ledgerVars, flushVars, manager, commandVars, frames, dedup, bucket, callbackVars>>

CoreSpec == CoreInit /\ [][CoreNext]_coreVars

(* CREDIT deltas: none, less than, as much as and more than one batch; the  *)
(* negative one stands for a wrapped uint64.                                *)
MCDeltas == {-1, 0, 1, 3}

(* Payloads of every length up to three: an empty one, one with a length of *)
(* one byte, and lengths that need two bytes, one at the limit and one      *)
(* beyond it.                                                               *)
MCPayloads == {<<>>, <<1>>, <<1, 0>>, <<1, 0, 1>>}

(* Key 1 is delivered up to three times, key 2 twice, key 3 and the empty   *)
(* key once.                                                                *)
MCKeyOf == [d \in Deliveries |->
              IF d <= 3 THEN 1 ELSE IF d <= 5 THEN 2 ELSE IF d = 6 THEN 3 ELSE Empty]

(* Two calls of SendCommand with the same id, over a reconnect. *)
MCIdOf == [k \in Calls |-> "a"]

(* No piece tells the calls apart, and no property looks beyond one step.   *)
MCSymmetry == Permutations(Calls)

-----------------------------------------------------------------------------
(* With a terminal ring smaller than the seqs, so that outcomes are evicted *)
(* while retries and settlements are under way: a settled seq is not        *)
(* admitted again, and as long as the ring holds every outcome credit is    *)
(* conserved and an outcome final (credit.go Admit, Settle, ForceSettle).   *)
EvictionSafe == Manager!NeverReadmitted /\ Manager!CreditConserved /\ Manager!OneOutcome

(* readVarint accepts exactly the encodings AppendVarint writes: canonical, *)
(* within the width, and each of those (frame.go readVarint).               *)
VarintExact == piece = "varint" => Length!VarintExact(encoded)

(* The reader gets the frames that were written, in order and unchanged,    *)
(* however the bytes are cut up (frame.go Write, Read).                     *)
BoundaryKept == Frames!BoundaryKept

(* The filter's list and map hold the same keys, each once, at most Cap,    *)
(* and a key passes the filter again only after its ttl or Cap other keys   *)
(* (deduper.go Dedup).                                                      *)
FilterKept == Dedup!OrderMatchesSeen /\ Dedup!WindowKept

(* No stretch of time lets more datagram bytes through than the rate and    *)
(* one full bucket (handler_batch.go dgramAllow).                           *)
RateKept == Bucket!RateKept
=============================================================================
