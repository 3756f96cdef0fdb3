---------------------------- MODULE CreditManager ----------------------------
(***************************************************************************)
(* The server's admission, deduplication and credit accounting for one      *)
(* connection: CreditManager and SettleGrant of core/credit.go.  Every      *)
(* action is one critical section of the manager's mutex.  A seq has at     *)
(* most one usable SettleGrant, so grants are kept per seq.                 *)
(***************************************************************************)
EXTENDS Integers, Sequences, FiniteSets

CONSTANTS
    MaxSeq,     \* bound: seqs 1..MaxSeq are used
    InitialB,   \* initial credit in batches (HELLO_ACK)
    InitialY,   \* initial credit in bytes (HELLO_ACK)
    FrameBytes, \* the sizes a BATCH frame may have
    RingCap,    \* capacity of the terminal ring
    Levels,     \* terminal RESULT levels
    None,       \* "no terminal entry"
    Forcers     \* goroutines running releaseStuck (reaper, end of Handle)

ASSUME ConstantsOK ==
    /\ MaxSeq \in Nat /\ InitialB \in Nat /\ InitialY \in Nat
    /\ RingCap \in Nat \ {0}
    /\ FrameBytes \subseteq Nat \ {0}
    /\ None \notin Levels

VARIABLES
    outstandingB, outstandingY, \* credit the client may still spend
    recoveredB, recoveredY,     \* settled, waiting for the next CREDIT
    low,        \* 1..low-1 are all settled
    accepted,   \* settled seqs at or above low
    seen,       \* seqs in flight
    slotBytes,  \* InflightSlot.Bytes; 0 for a placeholder
    ringOrd,    \* insertion order of the terminal ring
    terminal,   \* terminal[s]: stored outcome, or None
    grant,      \* the SettleGrant of each seq
    force,      \* progress of each releaseStuck loop
    sent        \* history: terminal levels ever handed to a sender, per seq

creditVars == <<outstandingB, outstandingY, recoveredB, recoveredY>>
dedupVars == <<low, accepted, seen, slotBytes, ringOrd, terminal>>
vars == <<creditVars, dedupVars, grant, force, sent>>

Seqs == 1..MaxSeq

FreshGrant == [held |-> TRUE, consumed |-> FALSE, done |-> FALSE, accepted |-> FALSE]
NoGrant == [FreshGrant EXCEPT !.held = FALSE]
Idle == [pc |-> "idle", seq |-> 0, bytes |-> 0]

Init ==
    /\ outstandingB = InitialB /\ outstandingY = InitialY
    /\ recoveredB = 0 /\ recoveredY = 0
    /\ low = 1 /\ accepted = {} /\ seen = {}
    /\ slotBytes = [s \in Seqs |-> 0]
    /\ ringOrd = <<>>
    /\ terminal = [s \in Seqs |-> None]
    /\ grant = [s \in Seqs |-> NoGrant]
    /\ force = [r \in Forcers |-> Idle]
    /\ sent = [s \in Seqs |-> {}]

(* Seqs the window treats as already settled. *)
Decided == accepted \cup 1..(low - 1)

Live(s) == grant[s].held /\ ~grant[s].done

-----------------------------------------------------------------------------
(* Admission.                                                             *)

(* Mutant: only the prefix below low counts as settled. *)
AdmitDecisionPrefixOnly(s) ==
    IF s = 0 THEN "Violation"
    ELSE IF s \in seen THEN "Duplicate"
    ELSE IF s < low THEN IF terminal[s] # None THEN "TerminalHit" ELSE "BelowUnknown"
    ELSE "Accept"

AdmitDecision(s) ==
    CASE s = 0 -> "Violation"
      [] s # 0 /\ s \in seen -> "Duplicate"
      [] s # 0 /\ s \notin seen /\ s \in Decided ->
            IF terminal[s] # None THEN "TerminalHit" ELSE "BelowUnknown"
      [] OTHER -> "Accept"

Admit(s) ==
    /\ AdmitDecision(s) = "Accept"
    /\ seen' = seen \cup {s}
    /\ slotBytes' = [slotBytes EXCEPT ![s] = 0]
    /\ grant' = [grant EXCEPT ![s] = FreshGrant]
    /\ UNCHANGED <<creditVars, low, accepted, ringOrd, terminal, force, sent>>

(* A replayed seq whose outcome is still in the ring is answered with it. *)
AdmitTerminalHit(s) ==
    /\ AdmitDecision(s) = "TerminalHit"
    /\ sent' = [sent EXCEPT ![s] = @ \cup {terminal[s]}]
    /\ UNCHANGED <<creditVars, dedupVars, grant, force>>

releaseLocked(s) ==
    /\ seen' = seen \ {s}
    /\ slotBytes' = [slotBytes EXCEPT ![s] = 0]

-----------------------------------------------------------------------------
(* The grant's operations, called the way the handler calls them: Consume   *)
(* once, right after Admit; Accept and Settle only after it; Release only   *)
(* before it (its contract).  A call on a grant that is done changes        *)
(* nothing, except that Accept sets its own flag.                           *)

CanConsume(b) == outstandingB >= 1 /\ outstandingY >= b

Consume(s, b) ==
    /\ Live(s) /\ ~grant[s].consumed
    /\ CanConsume(b)
    /\ outstandingB' = outstandingB - 1
    /\ outstandingY' = outstandingY - b
    /\ slotBytes' = IF s \in seen THEN [slotBytes EXCEPT ![s] = b] ELSE slotBytes
    /\ grant' = [grant EXCEPT ![s].consumed = TRUE]
    /\ UNCHANGED <<recoveredB, recoveredY, low, accepted, seen, ringOrd, terminal,
                   force, sent>>

ConsumeExhausted(s, b) ==
    /\ Live(s) /\ ~grant[s].consumed
    /\ ~CanConsume(b)
    /\ releaseLocked(s)
    /\ grant' = [grant EXCEPT ![s].done = TRUE]
    /\ UNCHANGED <<creditVars, low, accepted, ringOrd, terminal, force, sent>>

AcceptIsFirst(s) == ~grant[s].accepted /\ ~grant[s].done

Accept(s) ==
    /\ grant[s].consumed /\ ~grant[s].accepted
    /\ grant' = [grant EXCEPT ![s].accepted = TRUE]
    /\ UNCHANGED <<creditVars, dedupVars, force, sent>>

Release(s) ==
    /\ Live(s) /\ ~grant[s].consumed
    /\ releaseLocked(s)
    /\ grant' = [grant EXCEPT ![s].done = TRUE]
    /\ UNCHANGED <<creditVars, low, accepted, ringOrd, terminal, force, sent>>

(* Mutant: the late holder is not recognised. *)
StaleNever(s) == FALSE

(* Another grant object has settled s and the ring still shows it. *)
Stale(s) == terminal[s] # None /\ s \notin seen

RegisteredBytes(s, frameBytes) ==
    IF s \in seen /\ slotBytes[s] > 0 THEN slotBytes[s] ELSE frameBytes

(* Record the outcome; the oldest entry leaves a full ring. *)
PushTerminal(s, level) ==
    LET ring == IF terminal[s] = None THEN Append(ringOrd, s) ELSE ringOrd
        full == Len(ring) > RingCap
    IN  /\ ringOrd' = IF full THEN Tail(ring) ELSE ring
        /\ terminal' = [t \in Seqs |-> IF t = s THEN level
                                       ELSE IF full /\ t = Head(ring) THEN None
                                       ELSE terminal[t]]

(* low moves past the whole run of settled seqs. *)
advanceLowLocked(acc) ==
    \E n \in low..(MaxSeq + 1) :
        /\ \A k \in low..(n - 1) : k \in acc
        /\ n \notin acc
        /\ low' = n
        /\ accepted' = acc \ (low..(n - 1))

SettleBody(s, level, frameBytes) ==
    /\ releaseLocked(s)
    /\ PushTerminal(s, level)
    /\ advanceLowLocked(accepted \cup {s})
    /\ recoveredB' = recoveredB + 1
    /\ recoveredY' = recoveredY + RegisteredBytes(s, frameBytes)
    /\ sent' = [sent EXCEPT ![s] = @ \cup {level}]
    /\ UNCHANGED <<outstandingB, outstandingY>>

Settle(s, level, frameBytes) ==
    /\ Live(s) /\ grant[s].consumed
    /\ ~Stale(s)
    /\ grant' = [grant EXCEPT ![s].done = TRUE]
    /\ SettleBody(s, level, frameBytes)
    /\ UNCHANGED force

SettleStale(s) ==
    /\ Live(s) /\ grant[s].consumed
    /\ Stale(s)
    /\ grant' = [grant EXCEPT ![s].done = TRUE]
    /\ UNCHANGED <<creditVars, dedupVars, force, sent>>

-----------------------------------------------------------------------------
(* releaseStuck: pick an old seq, look it up, settle it with a new grant.   *)
(* Each step takes the mutex again.  Ages are abstracted: any seq in        *)
(* flight may be older than the cutoff while the smaller ones are not.      *)

OldestBefore(r, s) ==
    /\ force[r].pc = "idle"
    /\ s \in seen
    /\ force' = [force EXCEPT ![r] = [pc |-> "picked", seq |-> s, bytes |-> slotBytes[s]]]
    /\ UNCHANGED <<creditVars, dedupVars, grant, sent>>

ForceSettleLook(r) ==
    LET s == force[r].seq IN
    /\ force[r].pc = "picked"
    /\ s \in seen
    /\ force' = [force EXCEPT ![r].pc = "force",
                              ![r].bytes = RegisteredBytes(s, force[r].bytes)]
    /\ UNCHANGED <<creditVars, dedupVars, grant, sent>>

(* Settled or released meanwhile: resend the stored outcome if there is one. *)
ForceSettleReplay(r) ==
    LET s == force[r].seq IN
    /\ force[r].pc = "picked"
    /\ s \notin seen
    /\ force' = [force EXCEPT ![r] = Idle]
    /\ sent' = IF s \in Decided /\ terminal[s] # None
               THEN [sent EXCEPT ![s] = @ \cup {terminal[s]}]
               ELSE sent
    /\ UNCHANGED <<creditVars, dedupVars, grant>>

ForceSettleCommit(r, level) ==
    LET s == force[r].seq IN
    /\ force[r].pc = "force"
    /\ ~Stale(s)
    /\ force' = [force EXCEPT ![r] = Idle]
    /\ SettleBody(s, level, force[r].bytes)
    /\ UNCHANGED grant

ForceSettleStale(r) ==
    /\ force[r].pc = "force"
    /\ Stale(force[r].seq)
    /\ force' = [force EXCEPT ![r] = Idle]
    /\ UNCHANGED <<creditVars, dedupVars, grant, sent>>

TakeRecovered ==
    /\ recoveredB > 0 \/ recoveredY > 0
    /\ outstandingB' = outstandingB + recoveredB
    /\ outstandingY' = outstandingY + recoveredY
    /\ recoveredB' = 0 /\ recoveredY' = 0
    /\ UNCHANGED <<dedupVars, grant, force, sent>>

SeqStep(s) ==
    \/ Admit(s)
    \/ AdmitTerminalHit(s)
    \/ \E b \in FrameBytes : Consume(s, b)
    \/ \E b \in FrameBytes : ConsumeExhausted(s, b)
    \/ Accept(s)
    \/ Release(s)
    \/ \E l \in Levels, b \in FrameBytes \cup {0} : Settle(s, l, b)
    \/ SettleStale(s)

ForceStep(r) ==
    \/ \E s \in Seqs : OldestBefore(r, s)
    \/ ForceSettleLook(r)
    \/ ForceSettleReplay(r)
    \/ \E l \in Levels : ForceSettleCommit(r, l)
    \/ ForceSettleStale(r)

Next ==
    \/ \E s \in Seqs : SeqStep(s)
    \/ \E r \in Forcers : ForceStep(r)
    \/ TakeRecovered

Spec == Init /\ [][Next]_vars

-----------------------------------------------------------------------------
GrantType == [held : BOOLEAN, consumed : BOOLEAN, done : BOOLEAN, accepted : BOOLEAN]
ForceType == [pc : {"idle", "picked", "force"}, seq : 0..MaxSeq, bytes : Nat]

(* The state of the manager, its grants and the releaseStuck loops has the  *)
(* shape core/credit.go gives it; no balance is ever negative.              *)
TypeOK ==
    /\ outstandingB \in Nat /\ outstandingY \in Nat
    /\ recoveredB \in Nat /\ recoveredY \in Nat
    /\ low \in 1..(MaxSeq + 1)
    /\ accepted \subseteq Seqs /\ seen \subseteq Seqs
    /\ slotBytes \in [Seqs -> Nat]
    /\ ringOrd \in Seq(Seqs)
    /\ terminal \in [Seqs -> Levels \cup {None}]
    /\ grant \in [Seqs -> GrantType]
    /\ force \in [Forcers -> ForceType]
    /\ \A r \in Forcers : force[r].pc # "idle" => force[r].seq \in Seqs
    /\ sent \in [Seqs -> SUBSET Levels]

(* A settled seq is never in flight again: whatever the order of replays,   *)
(* releases, reaper runs and ring evictions, Admit hands out no grant for a *)
(* seq that already has an outcome (credit.go: seen/accepted/low).          *)
NeverReadmitted == seen \cap Decided = {}

(* Settled stays settled: low and accepted together never forget a seq.   *)
DecidedGrows == [][Decided \subseteq Decided']_vars

(* Nothing has been evicted from the ring as long as no more seqs than its  *)
(* capacity have been settled.                                              *)
RingHoldsAll == Cardinality(Decided) <= RingCap

(* In flight with the credit taken; settled before the holder's Consume.    *)
InflightConsumed == {s \in seen : grant[s].consumed}
SettledAhead == {s \in Decided : grant[s].held /\ ~grant[s].consumed}

Balanced ==
    outstandingB + recoveredB + Cardinality(InflightConsumed)
        = InitialB + Cardinality(SettledAhead)

(* Conservation of batch credit (header of credit.go): every batch is       *)
(* spendable, in flight or recovered, and is recovered exactly once, as     *)
(* long as the ring still holds every outcome.  A seq that the reaper       *)
(* settles before its holder's Consume is ahead by one until that Consume.  *)
CreditConserved == RingHoldsAll => Balanced

(* The same without the proviso, as credit.go states it: every seq has      *)
(* exactly one Settle, and a late holder is a complete no-op.               *)
CreditAlwaysConserved == Balanced

(* No seq is reported with two different outcomes while the ring holds all  *)
(* (credit.go: the terminal state is immutable).                            *)
OneOutcome == RingHoldsAll => \A s \in Seqs : Cardinality(sent[s]) <= 1

(* The ring and the terminal map agree and stay within ringCap: an entry is *)
(* in the map exactly while it is in the ring, once, and only for a settled *)
(* seq (Settle's push and eviction).                                        *)
RingConsistent ==
    /\ Len(ringOrd) <= RingCap
    /\ \A i, j \in DOMAIN ringOrd : ringOrd[i] = ringOrd[j] => i = j
    /\ \A s \in Seqs : terminal[s] # None <=> \E i \in DOMAIN ringOrd : ringOrd[i] = s
    /\ \A i \in DOMAIN ringOrd : ringOrd[i] \in Decided
=============================================================================
