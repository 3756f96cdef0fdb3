---------------------------- MODULE CreditLedger -----------------------------
(***************************************************************************)
(* The client's credit account and seq counter: CreditLedger and            *)
(* SeqGenerator of core/credit.go, driven by the critical sections of       *)
(* SendBatch and SendDatagram (internal/protocol/client.go).  The CREDIT    *)
(* frames are arbitrary here: the account must stay sound whatever a server *)
(* sends.  CreditFlow connects it to the real server side.                  *)
(***************************************************************************)
EXTENDS Integers, Sequences, FiniteSets, Functions

CONSTANTS
    MaxSeq,         \* bound: seqs 1..MaxSeq are allocated
    InitialB,       \* credit in HELLO_ACK, batches
    InitialY,       \* credit in HELLO_ACK, bytes
    ClampB, ClampY, \* local limits on the credit (DefaultCreditClamp*)
    FrameBytes,     \* the sizes a sealed BATCH may have
    Deltas,         \* the values a CREDIT delta may have after the cast to int64
    MaxViolations   \* bound: CREDIT frames that count as violations

ASSUME LedgerConstantsOK ==
    /\ MaxSeq \in Nat /\ InitialB \in Nat /\ InitialY \in Nat
    /\ ClampB \in Nat \ {0} /\ ClampY \in Nat \ {0}
    /\ FrameBytes \subseteq Nat \ {0}
    /\ Deltas \subseteq Int
    /\ MaxViolations \in Nat

VARIABLES
    seq,                  \* the last seq allocated
    consumedB, consumedY, \* spent since the handshake
    returnedB, returnedY, \* given back by CREDIT or Rollback
    slots,                \* bytes of each batch awaiting its RESULT
    violations,
    writing,              \* bytes of each batch whose WriteFrame is running
    framed                \* history: the seqs put into a frame, in order

account == <<consumedB, consumedY, returnedB, returnedY, violations>>
ledgerVars == <<seq, account, slots, writing, framed>>

Least(a, b) == IF a < b THEN a ELSE b

grantedB == Least(InitialB, ClampB)
grantedY == Least(InitialY, ClampY)

LedgerInit ==
    /\ seq = 0
    /\ consumedB = 0 /\ consumedY = 0 /\ returnedB = 0 /\ returnedY = 0
    /\ violations = 0
    /\ slots = [s \in {} |-> 0] /\ writing = [s \in {} |-> 0]
    /\ framed = <<>>

AvailableB == grantedB - consumedB + returnedB
AvailableY == grantedY - consumedY + returnedY

With(f, s, b) == [t \in DOMAIN f \cup {s} |-> IF t = s THEN b ELSE f[t]]
Without(f, S) == Restrict(f, DOMAIN f \ S)

-----------------------------------------------------------------------------
(* Sending.  The seq is allocated when the batch is sealed, before the      *)
(* account is asked.                                                        *)

CanSpend(b) == AvailableB >= 1 /\ AvailableY >= b

Consume(b) ==
    /\ seq < MaxSeq
    /\ CanSpend(b)
    /\ seq' = seq + 1
    /\ consumedB' = consumedB + 1
    /\ consumedY' = consumedY + b
    /\ slots' = With(slots, seq + 1, b)
    /\ writing' = With(writing, seq + 1, b)
    /\ framed' = Append(framed, seq + 1)
    /\ UNCHANGED <<returnedB, returnedY, violations>>

ConsumeExhausted(b) ==
    /\ seq < MaxSeq
    /\ ~CanSpend(b)
    /\ seq' = seq + 1
    /\ UNCHANGED <<account, slots, writing, framed>>

(* Mutant: DGRAM does not advance the shared counter. *)
SendDatagramOwnSeq ==
    /\ seq < MaxSeq
    /\ Len(framed) < MaxSeq
    /\ framed' = Append(framed, seq + 1)
    /\ UNCHANGED <<seq, account, slots, writing>>

(* DGRAM takes a seq from the same counter and no credit. *)
SendDatagram ==
    /\ seq < MaxSeq
    /\ seq' = seq + 1
    /\ framed' = Append(framed, seq + 1)
    /\ UNCHANGED <<account, slots, writing>>

WriteDone(s) ==
    /\ s \in DOMAIN writing
    /\ writing' = Without(writing, {s})
    /\ UNCHANGED <<seq, account, slots, framed>>

(* Mutant: what CREDIT already returned is returned again. *)
RollbackUnclamped(s) ==
    /\ s \in DOMAIN writing
    /\ writing' = Without(writing, {s})
    /\ slots' = Without(slots, {s})
    /\ returnedB' = returnedB + IF s \in DOMAIN slots THEN 1 ELSE 0
    /\ returnedY' = returnedY + IF s \in DOMAIN slots THEN slots[s] ELSE 0
    /\ UNCHANGED <<seq, consumedB, consumedY, violations, framed>>

(* WriteFrame failed: give the credit back, unless the RESULT or the reaper *)
(* has already removed the slot.                                            *)
Rollback(s) ==
    /\ s \in DOMAIN writing
    /\ writing' = Without(writing, {s})
    /\ slots' = Without(slots, {s})
    /\ IF s \in DOMAIN slots
       THEN /\ returnedB' = returnedB + Least(1, consumedB - returnedB)
            /\ returnedY' = returnedY + Least(slots[s], consumedY - returnedY)
       ELSE UNCHANGED <<returnedB, returnedY>>
    /\ UNCHANGED <<seq, consumedB, consumedY, violations, framed>>

-----------------------------------------------------------------------------
(* What the control loop and the reaper do.                                 *)

OverReturn(d, open) == IF d > open THEN 1 ELSE 0

OnCredit(dB, dY) ==
    LET openB == consumedB - returnedB
        openY == consumedY - returnedY
    IN  /\ dB >= 0 /\ dY >= 0 /\ ~(dB = 0 /\ dY = 0)
        /\ violations + OverReturn(dB, openB) + OverReturn(dY, openY) <= MaxViolations
        /\ returnedB' = returnedB + Least(dB, openB)
        /\ returnedY' = returnedY + Least(dY, openY)
        /\ violations' = violations + OverReturn(dB, openB) + OverReturn(dY, openY)
        /\ UNCHANGED <<seq, consumedB, consumedY, slots, writing, framed>>

(* A negative delta (uint64 wrapped by the cast) is dropped and counted. *)
OnCreditNegative(dB, dY) ==
    /\ dB < 0 \/ dY < 0
    /\ violations < MaxViolations
    /\ violations' = violations + 1
    /\ UNCHANGED <<seq, consumedB, consumedY, returnedB, returnedY, slots, writing, framed>>

(* A RESULT for s removes its slot and leaves the account alone. *)
Terminal(s) ==
    /\ s \in DOMAIN slots
    /\ slots' = Without(slots, {s})
    /\ UNCHANGED <<seq, account, writing, framed>>

ReapExpired(S) ==
    /\ S # {} /\ S \subseteq DOMAIN slots
    /\ slots' = Without(slots, S)
    /\ UNCHANGED <<seq, account, writing, framed>>

Reset ==
    /\ slots' = Without(slots, DOMAIN slots)
    /\ UNCHANGED <<seq, account, writing, framed>>

Drained == DOMAIN slots = {}

LedgerNext ==
    \/ \E b \in FrameBytes : Consume(b)
    \/ \E b \in FrameBytes : ConsumeExhausted(b)
    \/ SendDatagram
    \/ \E s \in 1..MaxSeq : WriteDone(s)
    \/ \E s \in 1..MaxSeq : Rollback(s)
    \/ \E dB, dY \in Deltas : OnCredit(dB, dY)
    \/ \E dB, dY \in Deltas : OnCreditNegative(dB, dY)
    \/ \E s \in 1..MaxSeq : Terminal(s)
    \/ \E S \in SUBSET DOMAIN slots : ReapExpired(S)
    \/ Reset

LedgerSpec == LedgerInit /\ [][LedgerNext]_ledgerVars

-----------------------------------------------------------------------------
(* The account holds counters, and slots only for allocated seqs. *)
LedgerTypeOK ==
    /\ seq \in 0..MaxSeq
    /\ consumedB \in Nat /\ consumedY \in Nat
    /\ returnedB \in Nat /\ returnedY \in Nat
    /\ violations \in Nat
    /\ DOMAIN slots \subseteq 1..seq /\ DOMAIN writing \subseteq 1..seq
    /\ \A s \in DOMAIN slots : slots[s] \in Nat
    /\ framed \in Seq(1..seq)

(* Whatever CREDIT frames arrive, and however write failures, late RESULTs  *)
(* and reaping interleave with them, the client can never spend a negative  *)
(* amount nor have more than the handshake granted, itself limited by the   *)
(* local clamp (OnCredit's and Rollback's clamp; "the available amount must *)
(* not exceed the local clamp").                                            *)
LedgerBounded ==
    /\ 0 <= AvailableB /\ AvailableB <= grantedB /\ grantedB <= ClampB
    /\ 0 <= AvailableY /\ AvailableY <= grantedY /\ grantedY <= ClampY

(* The envelope's nonce is never reused: each frame, BATCH or DGRAM, carries *)
(* a larger seq than every frame before it, although a seq may be burnt and  *)
(* a failed write does not return it (SeqGenerator, one shared counter).     *)
NonceFresh == \A i, j \in DOMAIN framed : i < j => framed[i] < framed[j]

(* The specification of seqs: "credit is spent and the seq allocated in one *)
(* critical section (without credit no seq is used)" - every allocated seq  *)
(* was put into a frame.                                                    *)
NoSeqWithoutCredit == Len(framed) = seq
=============================================================================
