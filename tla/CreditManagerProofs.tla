------------------------- MODULE CreditManagerProofs -------------------------
(***************************************************************************)
(* Proofs about CreditManager for every number of seqs, every initial       *)
(* credit, every ring capacity and every set of releaseStuck loops.         *)
(***************************************************************************)
EXTENDS CreditManager, FiniteSetTheorems, TLAPS

-----------------------------------------------------------------------------
(* What Settle and ForceSettle do to the window.                          *)

(* advanceLowLocked only moves seqs from accepted below low: the settled    *)
(* seqs are exactly the old ones and the new one.                           *)
LEMMA AdvanceLowFacts ==
    ASSUME TypeOK, NEW s \in Seqs, advanceLowLocked(accepted \cup {s})
    PROVE  /\ Decided' = Decided \cup {s}
           /\ low' \in 1..(MaxSeq + 1)
           /\ accepted' \subseteq Seqs
<1> USE ConstantsOK DEF Seqs
<1>1. PICK n \in low..(MaxSeq + 1) :
        /\ \A k \in low..(n - 1) : k \in accepted \cup {s}
        /\ n \notin accepted \cup {s}
        /\ low' = n
        /\ accepted' = (accepted \cup {s}) \ (low..(n - 1))
  BY DEF advanceLowLocked
<1>2. low \in 1..(MaxSeq + 1) /\ accepted \subseteq Seqs
  BY DEF TypeOK
<1>3. low' \in 1..(MaxSeq + 1) /\ accepted' \subseteq Seqs
  BY <1>1, <1>2
<1>4. \A k \in Decided' : k \in Decided \cup {s}
  BY <1>1, <1>2 DEF Decided
<1>5. \A k \in Decided \cup {s} : k \in Decided'
  BY <1>1, <1>2 DEF Decided
<1> QED BY <1>3, <1>4, <1>5

(* The settled seqs are a finite set of seqs. *)
LEMMA DecidedFinite ==
    ASSUME TypeOK
    PROVE  Decided \subseteq Seqs /\ IsFiniteSet(Decided) /\ Cardinality(Decided) \in Nat
<1>1. Decided \subseteq Seqs
  BY ConstantsOK DEF TypeOK, Decided, Seqs
<1>2. IsFiniteSet(Seqs)
  BY FS_Interval, ConstantsOK DEF Seqs
<1>3. IsFiniteSet(Decided)
  BY <1>1, <1>2, FS_Subset
<1> QED BY <1>1, <1>3, FS_CardinalityType

(* The ring keeps its shape when an outcome is pushed. *)
LEMMA PushTerminalFacts ==
    ASSUME TypeOK, NEW s \in Seqs, NEW level \in Levels, Len(ringOrd) <= RingCap,
           PushTerminal(s, level)
    PROVE  /\ ringOrd' \in Seq(Seqs)
           /\ terminal' \in [Seqs -> Levels \cup {None}]
           /\ Len(ringOrd') <= RingCap
           /\ Len(ringOrd') <= Len(ringOrd) + 1
           /\ terminal[s] # None => ringOrd' = ringOrd
           /\ terminal'[s] = level
           /\ Len(ringOrd) + 1 <= RingCap \/ terminal[s] # None =>
                \A t \in Seqs \ {s} : terminal'[t] = terminal[t]
           /\ \A t \in Seqs \ {s} : terminal'[t] # None => terminal'[t] = terminal[t]
<1> DEFINE ring == IF terminal[s] = None THEN Append(ringOrd, s) ELSE ringOrd
           full == Len(ring) > RingCap
<1>1. /\ ringOrd' = IF full THEN Tail(ring) ELSE ring
      /\ terminal' = [t \in Seqs |-> IF t = s THEN level
                                     ELSE IF full /\ t = Head(ring) THEN None
                                     ELSE terminal[t]]
  BY DEF PushTerminal
<1>2. ringOrd \in Seq(Seqs) /\ terminal \in [Seqs -> Levels \cup {None}]
  BY DEF TypeOK
<1>3. ring \in Seq(Seqs) /\ Len(ring) <= Len(ringOrd) + 1
      /\ (terminal[s] # None => ring = ringOrd)
      /\ (terminal[s] = None => Len(ring) = Len(ringOrd) + 1)
  BY <1>2
<1>4. RingCap \in Nat /\ RingCap > 0
  BY ConstantsOK
<1>5. full => ring # <<>> /\ Tail(ring) \in Seq(Seqs) /\ Len(Tail(ring)) = Len(ring) - 1
  BY <1>3, <1>4
<1> HIDE DEF ring
<1>6. /\ ringOrd' \in Seq(Seqs) /\ Len(ringOrd') <= RingCap
      /\ Len(ringOrd') <= Len(ringOrd) + 1
      /\ (terminal[s] # None => ringOrd' = ringOrd)
  BY <1>1, <1>2, <1>3, <1>4, <1>5
<1>7. Len(ringOrd) + 1 <= RingCap \/ terminal[s] # None => ~full
  BY <1>2, <1>3, <1>4
<1> HIDE DEF full
<1> QED BY <1>1, <1>2, <1>6, <1>7
-----------------------------------------------------------------------------
(* The inductive invariant.                                               *)

(* Who may still act on a seq: a seq in flight has a live grant, a live or  *)
(* consumed grant belongs to a known seq, and a releaseStuck loop works on  *)
(* a seq that was admitted.                                                 *)
GrantInv ==
    /\ \A s \in seen : Live(s)
    /\ \A s \in Seqs : Live(s) \/ grant[s].consumed => s \in seen \cup Decided
    /\ \A s \in Seqs : grant[s].consumed => grant[s].held
    /\ \A r \in Forcers : force[r].pc # "idle" => grant[force[r].seq].held

(* The ring never holds more outcomes than there are settled seqs, so that  *)
(* it holds all of them until its capacity is exceeded.                     *)
RingInv ==
    /\ Len(ringOrd) <= RingCap
    /\ Len(ringOrd) <= Cardinality(Decided)
    /\ RingHoldsAll => \A s \in Decided : terminal[s] # None
    /\ \A s \in Seqs : terminal[s] # None => s \in Decided

(* What has been reported of a seq is its entry in the ring. *)
SentInv ==
    /\ \A s \in Seqs \ Decided : sent[s] = {}
    /\ RingHoldsAll => \A s \in Decided : sent[s] = {terminal[s]}

IInv ==
    /\ TypeOK
    /\ NeverReadmitted
    /\ GrantInv
    /\ RingInv
    /\ SentInv
    /\ CreditConserved

(* The effect of settling s, by its holder or by releaseStuck, on everything *)
(* but the credit balance and the grants.                                    *)
LEMMA SettleBodyWindow ==
    ASSUME IInv, NEW s \in Seqs, NEW level \in Levels, NEW b \in Nat,
           ~Stale(s), SettleBody(s, level, b)
    PROVE  /\ Decided' = Decided \cup {s}
           /\ seen' = seen \ {s}
           /\ NeverReadmitted' /\ RingInv' /\ SentInv'
           /\ RingHoldsAll' => RingHoldsAll /\ s \notin Decided
<1> DEFINE C == Cardinality(Decided)
<1>1. Decided' = Decided \cup {s} /\ seen' = seen \ {s}
  BY AdvanceLowFacts DEF IInv, SettleBody, releaseLocked
<1>2. /\ IsFiniteSet(Decided) /\ C \in Nat /\ Decided \subseteq Seqs
      /\ Cardinality(Decided') = IF s \in Decided THEN C ELSE C + 1
  BY <1>1, DecidedFinite, FS_AddElement DEF IInv
<1>3. RingCap \in Nat /\ Len(ringOrd) \in Nat
  BY ConstantsOK DEF IInv, TypeOK
<1>4. terminal[s] = None
  BY DEF IInv, Stale, RingInv, NeverReadmitted
<1>5. s \in Decided => C > RingCap
  BY <1>2, <1>3, <1>4 DEF IInv, RingInv, RingHoldsAll
<1>6. RingHoldsAll' => RingHoldsAll /\ s \notin Decided /\ Len(ringOrd) + 1 <= RingCap
  BY <1>2, <1>3, <1>5 DEF RingHoldsAll, IInv, RingInv
<1>7. /\ Len(ringOrd') \in Nat
      /\ Len(ringOrd') <= RingCap
      /\ Len(ringOrd') <= Len(ringOrd) + 1
      /\ terminal'[s] = level
      /\ Len(ringOrd) + 1 <= RingCap => \A t \in Seqs \ {s} : terminal'[t] = terminal[t]
      /\ \A t \in Seqs \ {s} : terminal'[t] # None => terminal'[t] = terminal[t]
  BY PushTerminalFacts DEF IInv, RingInv, SettleBody
<1>8. NeverReadmitted'
  BY <1>1 DEF IInv, NeverReadmitted
<1>9. RingInv'
  <2>1. Len(ringOrd') <= Cardinality(Decided')
    BY <1>2, <1>3, <1>5, <1>7 DEF IInv, RingInv
  <2>2. RingHoldsAll' => \A t \in Decided' : terminal'[t] # None
    BY <1>1, <1>2, <1>6, <1>7, ConstantsOK DEF IInv, RingInv
  <2>3. \A t \in Seqs : terminal'[t] # None => t \in Decided'
    BY <1>1, <1>7 DEF IInv, RingInv
  <2> QED BY <1>7, <2>1, <2>2, <2>3 DEF RingInv
<1>10. SentInv'
  <2>1. sent' = [sent EXCEPT ![s] = @ \cup {level}] /\ sent \in [Seqs -> SUBSET Levels]
    BY DEF SettleBody, IInv, TypeOK
  <2>2. \A t \in Seqs \ Decided' : sent'[t] = {}
    BY <1>1, <2>1 DEF IInv, SentInv
  <2>3. RingHoldsAll' => \A t \in Decided' : sent'[t] = {terminal'[t]}
    BY <1>1, <1>2, <1>6, <1>7, <2>1 DEF IInv, SentInv
  <2> QED BY <2>2, <2>3 DEF SentInv
<1> QED BY <1>1, <1>6, <1>8, <1>9, <1>10
-----------------------------------------------------------------------------
(* Every action preserves the type invariant.                             *)

(* Settling keeps every component well typed. *)
LEMMA SettleBodyType ==
    ASSUME TypeOK, Len(ringOrd) <= RingCap,
           NEW s \in Seqs, NEW level \in Levels, NEW b \in Nat,
           SettleBody(s, level, b)
    PROVE  /\ outstandingB' \in Nat /\ outstandingY' \in Nat
           /\ recoveredB' \in Nat /\ recoveredY' \in Nat
           /\ low' \in 1..(MaxSeq + 1)
           /\ accepted' \subseteq Seqs /\ seen' \subseteq Seqs
           /\ slotBytes' \in [Seqs -> Nat]
           /\ ringOrd' \in Seq(Seqs)
           /\ terminal' \in [Seqs -> Levels \cup {None}]
           /\ sent' \in [Seqs -> SUBSET Levels]
<1>1. low' \in 1..(MaxSeq + 1) /\ accepted' \subseteq Seqs
  BY AdvanceLowFacts DEF SettleBody
<1>2. ringOrd' \in Seq(Seqs) /\ terminal' \in [Seqs -> Levels \cup {None}]
  BY PushTerminalFacts DEF SettleBody
<1>3. RegisteredBytes(s, b) \in Nat
  BY DEF RegisteredBytes, TypeOK
<1>4. /\ outstandingB' \in Nat /\ outstandingY' \in Nat
      /\ recoveredB' \in Nat /\ recoveredY' \in Nat
  BY <1>3 DEF SettleBody, TypeOK
<1>5. seen' \subseteq Seqs /\ slotBytes' \in [Seqs -> Nat]
  BY DEF SettleBody, releaseLocked, TypeOK
<1>6. sent' \in [Seqs -> SUBSET Levels]
  BY DEF SettleBody, TypeOK
<1> QED BY <1>1, <1>2, <1>4, <1>5, <1>6

(* Every step of the manager keeps its state well typed. *)
LEMMA TypeStep ==
    ASSUME TypeOK, Len(ringOrd) <= RingCap, [Next]_vars
    PROVE  TypeOK'
<1> USE ConstantsOK
<1>1. ASSUME NEW s \in Seqs, Admit(s) PROVE TypeOK'
  BY <1>1 DEF TypeOK, Admit, creditVars, FreshGrant, GrantType
<1>2. ASSUME NEW s \in Seqs, AdmitTerminalHit(s) PROVE TypeOK'
  <2>1. terminal[s] \in Levels
    BY <1>2 DEF AdmitTerminalHit, AdmitDecision, TypeOK
  <2> QED BY <1>2, <2>1 DEF TypeOK, AdmitTerminalHit, creditVars, dedupVars
<1>3. ASSUME NEW s \in Seqs, NEW b \in FrameBytes, Consume(s, b) PROVE TypeOK'
  <2>1. b \in Nat /\ outstandingB' \in Nat /\ outstandingY' \in Nat
    BY <1>3 DEF TypeOK, Consume, CanConsume
  <2>2. grant' \in [Seqs -> GrantType]
    BY <1>3, ZenonT(30) DEF TypeOK, Consume, GrantType
  <2> QED BY <1>3, <2>1, <2>2 DEF TypeOK, Consume
<1>4. ASSUME NEW s \in Seqs, NEW b \in FrameBytes, ConsumeExhausted(s, b) PROVE TypeOK'
  <2>1. grant' \in [Seqs -> GrantType]
    BY <1>4, ZenonT(30) DEF TypeOK, ConsumeExhausted, GrantType
  <2> QED BY <1>4, <2>1 DEF TypeOK, ConsumeExhausted, releaseLocked, creditVars
<1>5. ASSUME NEW s \in Seqs, Accept(s) PROVE TypeOK'
  <2>1. grant' \in [Seqs -> GrantType]
    BY <1>5, ZenonT(30) DEF TypeOK, Accept, GrantType
  <2> QED BY <1>5, <2>1 DEF TypeOK, Accept, creditVars, dedupVars
<1>6. ASSUME NEW s \in Seqs, Release(s) PROVE TypeOK'
  <2>1. grant' \in [Seqs -> GrantType]
    BY <1>6, ZenonT(30) DEF TypeOK, Release, GrantType
  <2> QED BY <1>6, <2>1 DEF TypeOK, Release, releaseLocked, creditVars
<1>7. ASSUME NEW s \in Seqs, NEW l \in Levels, NEW b \in FrameBytes \cup {0}, Settle(s, l, b)
      PROVE  TypeOK'
  <2>1. b \in Nat OBVIOUS
  <2>2. grant' \in [Seqs -> GrantType]
    BY <1>7, ZenonT(30) DEF TypeOK, Settle, GrantType
  <2>3. SettleBody(s, l, b) /\ UNCHANGED force
    BY <1>7 DEF Settle
  <2> QED BY <2>1, <2>2, <2>3, SettleBodyType DEF TypeOK
<1>8. ASSUME NEW s \in Seqs, SettleStale(s) PROVE TypeOK'
  <2>1. grant' \in [Seqs -> GrantType]
    BY <1>8, ZenonT(30) DEF TypeOK, SettleStale, GrantType
  <2> QED BY <1>8, <2>1 DEF TypeOK, SettleStale, creditVars, dedupVars
<1>9. ASSUME NEW r \in Forcers, NEW s \in Seqs, OldestBefore(r, s) PROVE TypeOK'
  <2>1. s \in 0..MaxSeq /\ slotBytes[s] \in Nat
    BY DEF TypeOK, Seqs
  <2>2. force' \in [Forcers -> ForceType]
        /\ \A q \in Forcers : force'[q].pc # "idle" => force'[q].seq \in Seqs
    BY <1>9, <2>1 DEF TypeOK, OldestBefore, ForceType
  <2> QED BY <1>9, <2>2 DEF TypeOK, OldestBefore, creditVars, dedupVars
<1>10. ASSUME NEW r \in Forcers, ForceSettleLook(r) PROVE TypeOK'
  <2>1. RegisteredBytes(force[r].seq, force[r].bytes) \in Nat
    BY <1>10 DEF TypeOK, ForceType, RegisteredBytes, ForceSettleLook
  <2>2. force' \in [Forcers -> ForceType]
        /\ \A q \in Forcers : force'[q].pc # "idle" => force'[q].seq \in Seqs
    BY <1>10, <2>1, ZenonT(30) DEF TypeOK, ForceSettleLook, ForceType
  <2> QED BY <1>10, <2>2 DEF TypeOK, ForceSettleLook, creditVars, dedupVars
<1>11. Idle \in ForceType
  BY DEF Idle, ForceType
<1>12. ASSUME NEW r \in Forcers, force' = [force EXCEPT ![r] = Idle]
       PROVE  /\ force' \in [Forcers -> ForceType]
              /\ \A q \in Forcers : force'[q].pc # "idle" => force'[q].seq \in Seqs
  BY <1>11, <1>12 DEF TypeOK, Idle
<1>13. ASSUME NEW r \in Forcers, ForceSettleReplay(r) PROVE TypeOK'
  <2>1. force[r].seq \in Seqs
    BY <1>13 DEF TypeOK, ForceSettleReplay
  <2>2. sent' \in [Seqs -> SUBSET Levels]
    BY <1>13, <2>1 DEF TypeOK, ForceSettleReplay
  <2> QED BY <1>12, <1>13, <2>2 DEF TypeOK, ForceSettleReplay, creditVars, dedupVars
<1>14. ASSUME NEW r \in Forcers, NEW l \in Levels, ForceSettleCommit(r, l) PROVE TypeOK'
  <2>1. force[r].seq \in Seqs /\ force[r].bytes \in Nat
    BY <1>14 DEF TypeOK, ForceSettleCommit, ForceType
  <2>2. SettleBody(force[r].seq, l, force[r].bytes) /\ UNCHANGED grant
    BY <1>14 DEF ForceSettleCommit
  <2>3. force' = [force EXCEPT ![r] = Idle]
    BY <1>14 DEF ForceSettleCommit
  <2> QED BY <1>12, <2>1, <2>2, <2>3, SettleBodyType DEF TypeOK
<1>15. ASSUME NEW r \in Forcers, ForceSettleStale(r) PROVE TypeOK'
  BY <1>12, <1>15 DEF TypeOK, ForceSettleStale, creditVars, dedupVars
<1>16. CASE TakeRecovered
  BY <1>16 DEF TypeOK, TakeRecovered, dedupVars
<1>17. CASE UNCHANGED vars
  BY <1>17 DEF TypeOK, vars, creditVars, dedupVars
<1> QED
  BY <1>1, <1>2, <1>3, <1>4, <1>5, <1>6, <1>7, <1>8, <1>9, <1>10, <1>13, <1>14, <1>15,
     <1>16, <1>17 DEF Next, SeqStep, ForceStep
-----------------------------------------------------------------------------
(* Every action preserves the inductive invariant.                        *)

(* The two sets that the balance counts are finite. *)
LEMMA CountedFinite ==
    ASSUME TypeOK
    PROVE  /\ IsFiniteSet(InflightConsumed) /\ Cardinality(InflightConsumed) \in Nat
           /\ IsFiniteSet(SettledAhead) /\ Cardinality(SettledAhead) \in Nat
<1>1. IsFiniteSet(Seqs)
  BY FS_Interval, ConstantsOK DEF Seqs
<1>2. InflightConsumed \subseteq Seqs /\ SettledAhead \subseteq Seqs
  BY DecidedFinite DEF InflightConsumed, SettledAhead, TypeOK
<1>3. IsFiniteSet(InflightConsumed) /\ IsFiniteSet(SettledAhead)
  BY <1>1, <1>2, FS_Subset
<1> QED BY <1>3, FS_CardinalityType

(* A step that leaves the window, the ring and the reports alone keeps      *)
(* their invariants.                                                        *)
LEMMA WindowUnchanged ==
    ASSUME IInv, UNCHANGED <<low, accepted, ringOrd, terminal, sent>>
    PROVE  /\ Decided' = Decided /\ (RingHoldsAll' <=> RingHoldsAll)
           /\ RingInv' /\ SentInv'
<1>1. Decided' = Decided
  BY DEF Decided
<1> QED BY <1>1 DEF IInv, RingInv, SentInv, RingHoldsAll

(* An admission takes no credit. *)
LEMMA AdmitStep ==
    ASSUME IInv, NEW s \in Seqs, Admit(s)
    PROVE  NeverReadmitted' /\ GrantInv' /\ RingInv' /\ SentInv' /\ CreditConserved'
<1>1. s \notin seen /\ s \notin Decided
  BY Zenon DEF Admit, AdmitDecision
<1>2. Decided' = Decided /\ (RingHoldsAll' <=> RingHoldsAll) /\ RingInv' /\ SentInv'
  BY WindowUnchanged DEF Admit
<1>3. seen' = seen \cup {s} /\ grant' = [grant EXCEPT ![s] = FreshGrant]
      /\ UNCHANGED <<outstandingB, recoveredB, force>>
  BY DEF Admit, creditVars
<1>4. NeverReadmitted'
  BY <1>1, <1>2, <1>3 DEF IInv, NeverReadmitted
<1>5. GrantInv'
  BY <1>2, <1>3 DEF IInv, TypeOK, GrantInv, Live, FreshGrant
<1>6. InflightConsumed' = InflightConsumed /\ SettledAhead' = SettledAhead
  BY <1>1, <1>2, <1>3, DecidedFinite
     DEF IInv, TypeOK, InflightConsumed, SettledAhead, FreshGrant
<1>7. CreditConserved'
  BY <1>2, <1>3, <1>6 DEF IInv, CreditConserved, Balanced
<1> QED BY <1>2, <1>4, <1>5, <1>7

(* Consume moves one batch from spendable to in flight, or pays the debt of *)
(* a seq that was settled ahead of it.                                      *)
LEMMA ConsumeStep ==
    ASSUME IInv, NEW s \in Seqs, NEW b \in FrameBytes, Consume(s, b)
    PROVE  NeverReadmitted' /\ GrantInv' /\ RingInv' /\ SentInv' /\ CreditConserved'
<1>1. Decided' = Decided /\ (RingHoldsAll' <=> RingHoldsAll) /\ RingInv' /\ SentInv'
  BY WindowUnchanged DEF Consume
<1>2. /\ Live(s) /\ ~grant[s].consumed /\ outstandingB >= 1
      /\ seen' = seen /\ outstandingB' = outstandingB - 1
      /\ UNCHANGED <<recoveredB, force>>
  BY DEF Consume, CanConsume
<1>3. \A t \in Seqs : /\ grant'[t].consumed <=> (t = s \/ grant[t].consumed)
                      /\ grant'[t].held = grant[t].held
                      /\ grant'[t].done = grant[t].done
  BY DEF Consume, IInv, TypeOK, GrantType
<1>4. NeverReadmitted'
  BY <1>1, <1>2 DEF IInv, NeverReadmitted
<1>5. s \in seen \cup Decided
  BY <1>2 DEF IInv, GrantInv
<1>6. GrantInv'
  BY <1>1, <1>2, <1>3, <1>5 DEF IInv, TypeOK, GrantInv, Live
<1>7. IsFiniteSet(InflightConsumed) /\ IsFiniteSet(SettledAhead)
      /\ Cardinality(InflightConsumed) \in Nat /\ Cardinality(SettledAhead) \in Nat
  BY CountedFinite DEF IInv
<1>8. CASE s \in seen
  <2>1. s \notin Decided
    BY <1>8 DEF IInv, NeverReadmitted
  <2>2. InflightConsumed' = InflightConsumed \cup {s} /\ s \notin InflightConsumed
    BY <1>2, <1>3, <1>8 DEF InflightConsumed, IInv, TypeOK
  <2>3. SettledAhead' = SettledAhead
    BY <1>1, <1>3, <2>1, DecidedFinite DEF SettledAhead, IInv
  <2>4. Cardinality(InflightConsumed') = Cardinality(InflightConsumed) + 1
    BY <1>7, <2>2, FS_AddElement
  <2>5. CreditConserved'
    BY <1>1, <1>2, <1>7, <2>3, <2>4, ConstantsOK DEF IInv, TypeOK, CreditConserved, Balanced
  <2> QED BY <1>1, <1>4, <1>6, <2>5
<1>9. CASE s \notin seen
  <2>1. s \in Decided
    BY <1>5, <1>9
  <2>2. InflightConsumed' = InflightConsumed
    BY <1>2, <1>3, <1>9 DEF InflightConsumed, IInv, TypeOK
  <2>3. SettledAhead' = SettledAhead \ {s} /\ s \in SettledAhead
    BY <1>1, <1>2, <1>3, <2>1, DecidedFinite DEF SettledAhead, IInv, Live
  <2>4. Cardinality(SettledAhead') = Cardinality(SettledAhead) - 1
    BY <1>7, <2>3, FS_RemoveElement
  <2>5. CreditConserved'
    <3>1. outstandingB \in Nat /\ recoveredB \in Nat /\ InitialB \in Nat
      BY ConstantsOK DEF IInv, TypeOK
    <3>2. RingHoldsAll => Balanced
      BY DEF IInv, CreditConserved
    <3>3. RingHoldsAll => Balanced'
      BY <1>2, <1>7, <2>2, <2>4, <3>1, <3>2 DEF Balanced
    <3> QED BY <1>1, <3>3 DEF CreditConserved
  <2> QED BY <1>1, <1>4, <1>6, <2>5
<1> QED BY <1>8, <1>9

(* Release, and a Consume that finds no credit, give the placeholder back   *)
(* without any credit having moved.                                         *)
LEMMA ReleaseStep ==
    ASSUME IInv, NEW s \in Seqs,
           Release(s) \/ \E b \in FrameBytes : ConsumeExhausted(s, b)
    PROVE  NeverReadmitted' /\ GrantInv' /\ RingInv' /\ SentInv' /\ CreditConserved'
<1>1. /\ Live(s) /\ ~grant[s].consumed
      /\ seen' = seen \ {s} /\ grant' = [grant EXCEPT ![s].done = TRUE]
      /\ UNCHANGED <<outstandingB, recoveredB, low, accepted, ringOrd, terminal, force, sent>>
  BY DEF Release, ConsumeExhausted, releaseLocked, creditVars
<1>2. Decided' = Decided /\ (RingHoldsAll' <=> RingHoldsAll) /\ RingInv' /\ SentInv'
  BY <1>1, WindowUnchanged
<1>3. \A t \in Seqs : /\ grant'[t].consumed = grant[t].consumed
                      /\ grant'[t].held = grant[t].held
                      /\ grant'[t].done = (t = s \/ grant[t].done)
  BY <1>1 DEF IInv, TypeOK, GrantType
<1>4. NeverReadmitted'
  BY <1>1, <1>2 DEF IInv, NeverReadmitted
<1>5. GrantInv'
  BY <1>1, <1>2, <1>3 DEF IInv, TypeOK, GrantInv, Live
<1>6. InflightConsumed' = InflightConsumed /\ SettledAhead' = SettledAhead
  BY <1>1, <1>2, <1>3, DecidedFinite DEF IInv, TypeOK, InflightConsumed, SettledAhead
<1>7. CreditConserved'
  BY <1>1, <1>2, <1>6 DEF IInv, CreditConserved, Balanced
<1> QED BY <1>2, <1>4, <1>5, <1>7

(* The holder settles: the batch in flight becomes recovered. *)
LEMMA SettleStep ==
    ASSUME IInv, NEW s \in Seqs, NEW l \in Levels, NEW b \in FrameBytes \cup {0},
           Settle(s, l, b)
    PROVE  NeverReadmitted' /\ GrantInv' /\ RingInv' /\ SentInv' /\ CreditConserved'
<1>1. /\ Live(s) /\ grant[s].consumed /\ ~Stale(s) /\ SettleBody(s, l, b)
      /\ b \in Nat /\ UNCHANGED force
  BY ConstantsOK DEF Settle
<1>2. /\ Decided' = Decided \cup {s} /\ seen' = seen \ {s}
      /\ NeverReadmitted' /\ RingInv' /\ SentInv'
      /\ RingHoldsAll' => RingHoldsAll /\ s \notin Decided
  BY <1>1, SettleBodyWindow
<1>3. \A t \in Seqs : /\ grant'[t].consumed = grant[t].consumed
                      /\ grant'[t].held = grant[t].held
                      /\ grant'[t].done = (t = s \/ grant[t].done)
  BY DEF Settle, IInv, TypeOK, GrantType
<1>4. GrantInv'
  BY <1>1, <1>2, <1>3 DEF IInv, TypeOK, GrantInv, Live
<1>5. ASSUME RingHoldsAll' PROVE Balanced'
  <2>1. RingHoldsAll /\ s \in seen
    BY <1>1, <1>2, <1>5 DEF IInv, GrantInv
  <2>2. InflightConsumed' = InflightConsumed \ {s} /\ s \in InflightConsumed
    BY <1>1, <1>2, <1>3, <2>1 DEF InflightConsumed, IInv, TypeOK
  <2>3. SettledAhead' = SettledAhead
    BY <1>1, <1>2, <1>3, DecidedFinite DEF SettledAhead, IInv
  <2>4. /\ Cardinality(InflightConsumed') = Cardinality(InflightConsumed) - 1
        /\ Cardinality(InflightConsumed) \in Nat /\ Cardinality(SettledAhead) \in Nat
    BY <2>2, CountedFinite, FS_RemoveElement DEF IInv
  <2>5. outstandingB' = outstandingB /\ recoveredB' = recoveredB + 1
    BY <1>1 DEF SettleBody
  <2> QED BY <2>1, <2>3, <2>4, <2>5, ConstantsOK DEF IInv, TypeOK, CreditConserved, Balanced
<1> QED BY <1>2, <1>4, <1>5 DEF CreditConserved
(* releaseStuck settles: a batch in flight becomes recovered, or the seq is *)
(* settled ahead of its Consume.                                            *)
LEMMA ForceStepCommit ==
    ASSUME IInv, NEW r \in Forcers, NEW l \in Levels, ForceSettleCommit(r, l)
    PROVE  NeverReadmitted' /\ GrantInv' /\ RingInv' /\ SentInv' /\ CreditConserved'
<1> DEFINE s == force[r].seq
<1>1. /\ s \in Seqs /\ force[r].bytes \in Nat /\ grant[s].held
      /\ ~Stale(s) /\ SettleBody(s, l, force[r].bytes)
      /\ grant' = grant /\ force' = [force EXCEPT ![r] = Idle]
  BY DEF ForceSettleCommit, IInv, TypeOK, ForceType, GrantInv
<1> HIDE DEF s
<1>2. /\ Decided' = Decided \cup {s} /\ seen' = seen \ {s}
      /\ NeverReadmitted' /\ RingInv' /\ SentInv'
      /\ RingHoldsAll' => RingHoldsAll /\ s \notin Decided
  BY <1>1, SettleBodyWindow
<1>3. GrantInv'
  BY <1>1, <1>2 DEF IInv, TypeOK, GrantInv, Live, Idle
<1>4. ASSUME RingHoldsAll' PROVE Balanced'
  <2>1. RingHoldsAll /\ s \notin Decided
    BY <1>2, <1>4
  <2>2. /\ IsFiniteSet(InflightConsumed) /\ Cardinality(InflightConsumed) \in Nat
        /\ IsFiniteSet(SettledAhead) /\ Cardinality(SettledAhead) \in Nat
    BY CountedFinite DEF IInv
  <2>3. /\ outstandingB' = outstandingB /\ recoveredB' = recoveredB + 1
        /\ outstandingB \in Nat /\ recoveredB \in Nat /\ InitialB \in Nat
    BY <1>1, ConstantsOK DEF SettleBody, IInv, TypeOK
  <2>4. Balanced
    BY <2>1 DEF IInv, CreditConserved
  <2>5. CASE grant[s].consumed
    <3>1. s \in seen
      BY <1>1, <2>1, <2>5 DEF IInv, GrantInv
    <3>2. InflightConsumed' = InflightConsumed \ {s} /\ s \in InflightConsumed
      BY <1>1, <1>2, <2>5, <3>1 DEF InflightConsumed
    <3>3. SettledAhead' = SettledAhead
      BY <1>1, <1>2, <2>5 DEF SettledAhead
    <3>4. Cardinality(InflightConsumed') = Cardinality(InflightConsumed) - 1
      BY <2>2, <3>2, FS_RemoveElement
    <3> QED BY <2>2, <2>3, <2>4, <3>3, <3>4 DEF Balanced
  <2>6. CASE ~grant[s].consumed
    <3>1. InflightConsumed' = InflightConsumed
      BY <1>1, <1>2, <2>6 DEF InflightConsumed
    <3>2. SettledAhead' = SettledAhead \cup {s} /\ s \notin SettledAhead
      BY <1>1, <1>2, <2>1, <2>6 DEF SettledAhead
    <3>3. Cardinality(SettledAhead') = Cardinality(SettledAhead) + 1
      BY <2>2, <3>2, FS_AddElement
    <3> QED BY <2>2, <2>3, <2>4, <3>1, <3>3 DEF Balanced
  <2> QED BY <2>5, <2>6
<1> QED BY <1>2, <1>3, <1>4 DEF CreditConserved

(* Steps that move no credit, settle nothing and change no grant but its    *)
(* one-shot flags: the balance and the window stay as they are.             *)
LEMMA QuietStep ==
    ASSUME IInv, UNCHANGED <<creditVars, dedupVars, sent>>,
           \A t \in Seqs : /\ grant'[t].consumed = grant[t].consumed
                           /\ grant'[t].held = grant[t].held
                           /\ grant'[t].done # grant[t].done =>
                                grant'[t].done /\ t \notin seen,
           \A q \in Forcers : force'[q].pc # "idle" =>
                force'[q].seq \in Seqs /\ grant[force'[q].seq].held
    PROVE  NeverReadmitted' /\ GrantInv' /\ RingInv' /\ SentInv' /\ CreditConserved'
<1>1. Decided' = Decided /\ (RingHoldsAll' <=> RingHoldsAll) /\ RingInv' /\ SentInv'
  BY WindowUnchanged DEF dedupVars
<1>2. UNCHANGED <<outstandingB, recoveredB, seen>>
  BY DEF creditVars, dedupVars
<1>3. NeverReadmitted'
  BY <1>1, <1>2 DEF IInv, NeverReadmitted
<1>4. GrantInv'
  BY <1>1, <1>2 DEF IInv, TypeOK, GrantInv, Live
<1>5. InflightConsumed' = InflightConsumed /\ SettledAhead' = SettledAhead
  BY <1>1, <1>2, DecidedFinite DEF IInv, TypeOK, InflightConsumed, SettledAhead
<1>6. CreditConserved'
  BY <1>1, <1>2, <1>5 DEF IInv, CreditConserved, Balanced
<1> QED BY <1>1, <1>3, <1>4, <1>6

(* Answering with the stored outcome reports nothing new. *)
LEMMA ReplayStep ==
    ASSUME IInv, NEW s \in Decided, terminal[s] # None,
           sent' = [sent EXCEPT ![s] = @ \cup {terminal[s]}],
           UNCHANGED <<creditVars, dedupVars, grant>>,
           \A q \in Forcers : force'[q] = force[q] \/ force'[q].pc = "idle"
    PROVE  NeverReadmitted' /\ GrantInv' /\ RingInv' /\ SentInv' /\ CreditConserved'
<1>1. Decided' = Decided /\ (RingHoldsAll' <=> RingHoldsAll) /\ Decided \subseteq Seqs
  BY DecidedFinite DEF IInv, dedupVars, Decided, RingHoldsAll
<1>2. UNCHANGED <<outstandingB, recoveredB, seen, ringOrd, terminal, grant>>
  BY DEF creditVars, dedupVars
<1>3. NeverReadmitted' /\ RingInv' /\ CreditConserved'
  BY <1>1, <1>2 DEF IInv, NeverReadmitted, RingInv, CreditConserved, Balanced,
                    InflightConsumed, SettledAhead
<1>4. GrantInv'
  BY <1>1, <1>2 DEF IInv, GrantInv, Live
<1>5. SentInv'
  BY <1>1, <1>2 DEF IInv, TypeOK, SentInv
<1> QED BY <1>3, <1>4, <1>5
(* The invariant is inductive. *)
LEMMA InvStep ==
    ASSUME IInv, [Next]_vars
    PROVE  IInv'
<1> DEFINE Rest == NeverReadmitted /\ GrantInv /\ RingInv /\ SentInv /\ CreditConserved
<1>0. TypeOK'
  BY TypeStep DEF IInv, RingInv
<1> SUFFICES Rest'
  BY <1>0 DEF IInv
<1>1. ASSUME NEW s \in Seqs, Admit(s) PROVE Rest'
  BY <1>1, AdmitStep
<1>2. ASSUME NEW s \in Seqs, AdmitTerminalHit(s) PROVE Rest'
  <2>1. s \in Decided /\ terminal[s] # None
    BY <1>2, Zenon DEF AdmitTerminalHit, AdmitDecision
  <2> QED BY <1>2, <2>1, ReplayStep DEF AdmitTerminalHit
<1>3. ASSUME NEW s \in Seqs, NEW b \in FrameBytes, Consume(s, b) PROVE Rest'
  BY <1>3, ConsumeStep
<1>4. ASSUME NEW s \in Seqs, NEW b \in FrameBytes, ConsumeExhausted(s, b) PROVE Rest'
  BY <1>4, ReleaseStep
<1>5. ASSUME NEW s \in Seqs, Release(s) PROVE Rest'
  BY <1>5, ReleaseStep
<1>6. ASSUME NEW s \in Seqs, NEW l \in Levels, NEW b \in FrameBytes \cup {0}, Settle(s, l, b)
      PROVE  Rest'
  BY <1>6, SettleStep
<1>7. ASSUME NEW r \in Forcers, NEW l \in Levels, ForceSettleCommit(r, l) PROVE Rest'
  BY <1>7, ForceStepCommit
<1>8. \A q \in Forcers : force[q].pc # "idle" =>
            force[q].seq \in Seqs /\ grant[force[q].seq].held
  BY DEF IInv, TypeOK, GrantInv
<1>9. ASSUME NEW s \in Seqs, Accept(s) PROVE Rest'
  <2>1. \A t \in Seqs : /\ grant'[t].consumed = grant[t].consumed
                        /\ grant'[t].held = grant[t].held
                        /\ grant'[t].done = grant[t].done
    BY <1>9 DEF Accept, IInv, TypeOK, GrantType
  <2>2. UNCHANGED <<creditVars, dedupVars, sent, force>>
    BY <1>9 DEF Accept
  <2> QED BY <1>8, <2>1, <2>2, QuietStep
<1>10. ASSUME NEW s \in Seqs, SettleStale(s) PROVE Rest'
  <2>1. \A t \in Seqs : /\ grant'[t].consumed = grant[t].consumed
                        /\ grant'[t].held = grant[t].held
                        /\ grant'[t].done # grant[t].done => grant'[t].done /\ t \notin seen
    BY <1>10 DEF SettleStale, Stale, IInv, TypeOK, GrantType
  <2>2. UNCHANGED <<creditVars, dedupVars, sent, force>>
    BY <1>10 DEF SettleStale
  <2> QED BY <1>8, <2>1, <2>2, QuietStep
<1>11. ASSUME NEW r \in Forcers, NEW s \in Seqs, OldestBefore(r, s) PROVE Rest'
  <2>1. grant[s].held
    BY <1>11 DEF OldestBefore, IInv, GrantInv, Live
  <2>2. \A q \in Forcers : force'[q].pc # "idle" =>
            force'[q].seq \in Seqs /\ grant[force'[q].seq].held
    BY <1>8, <1>11, <2>1 DEF OldestBefore, IInv, TypeOK
  <2> QED BY <1>11, <2>2, QuietStep DEF OldestBefore
<1>12. ASSUME NEW r \in Forcers, ForceSettleLook(r) PROVE Rest'
  <2>1. \A q \in Forcers : force'[q].pc # "idle" =>
            force'[q].seq \in Seqs /\ grant[force'[q].seq].held
    <3>1. \A q \in Forcers : force'[q].seq = force[q].seq
      BY <1>12 DEF ForceSettleLook, IInv, TypeOK, ForceType
    <3>2. \A q \in Forcers : force'[q].pc # "idle" => force[q].pc # "idle"
      BY <1>12 DEF ForceSettleLook, IInv, TypeOK, ForceType
    <3> QED BY <1>8, <3>1, <3>2
  <2> QED BY <1>12, <2>1, QuietStep DEF ForceSettleLook
<1>13. ASSUME NEW r \in Forcers, force' = [force EXCEPT ![r] = Idle]
       PROVE  \A q \in Forcers : force'[q] = force[q] \/ force'[q].pc = "idle"
  BY <1>13 DEF IInv, TypeOK, Idle
<1>14. ASSUME NEW r \in Forcers, ForceSettleReplay(r) PROVE Rest'
  <2>1. \A q \in Forcers : force'[q] = force[q] \/ force'[q].pc = "idle"
    BY <1>13, <1>14 DEF ForceSettleReplay
  <2>2. CASE force[r].seq \in Decided /\ terminal[force[r].seq] # None
    BY <1>14, <2>1, <2>2, ReplayStep DEF ForceSettleReplay
  <2>3. CASE ~(force[r].seq \in Decided /\ terminal[force[r].seq] # None)
    BY <1>8, <1>14, <2>1, <2>3, QuietStep DEF ForceSettleReplay
  <2> QED BY <2>2, <2>3
<1>15. ASSUME NEW r \in Forcers, ForceSettleStale(r) PROVE Rest'
  BY <1>8, <1>13, <1>15, QuietStep DEF ForceSettleStale
<1>16. CASE TakeRecovered
  <2>1. Decided' = Decided /\ (RingHoldsAll' <=> RingHoldsAll) /\ RingInv' /\ SentInv'
    BY <1>16, WindowUnchanged DEF TakeRecovered, dedupVars
  <2>2. UNCHANGED <<seen, grant, force>>
    BY <1>16 DEF TakeRecovered, dedupVars
  <2>3. NeverReadmitted' /\ GrantInv'
    BY <2>1, <2>2 DEF IInv, NeverReadmitted, GrantInv, Live
  <2>4. InflightConsumed' = InflightConsumed /\ SettledAhead' = SettledAhead
    BY <2>1, <2>2 DEF InflightConsumed, SettledAhead
  <2>5. outstandingB' + recoveredB' = outstandingB + recoveredB
    BY <1>16 DEF TakeRecovered, IInv, TypeOK
  <2>6. CreditConserved'
    BY <2>1, <2>4, <2>5 DEF IInv, CreditConserved, Balanced
  <2> QED BY <2>1, <2>3, <2>6
<1>17. CASE UNCHANGED vars
  BY <1>8, <1>17, QuietStep DEF vars
<1> QED
  BY <1>1, <1>2, <1>3, <1>4, <1>5, <1>6, <1>7, <1>9, <1>10, <1>11, <1>12, <1>14, <1>15,
     <1>16, <1>17 DEF Next, SeqStep, ForceStep

(* The invariant holds initially. *)
LEMMA InvInit == Init => IInv
<1> SUFFICES ASSUME Init PROVE IInv
  OBVIOUS
<1> USE ConstantsOK
<1>1. Decided = {}
  BY DEF Init, Decided
<1>2. TypeOK
  <2>1. NoGrant \in GrantType
    BY DEF NoGrant, FreshGrant, GrantType
  <2>2. Idle \in ForceType /\ Idle.pc = "idle"
    BY DEF Idle, ForceType
  <2>3. /\ grant \in [Seqs -> GrantType]
        /\ force \in [Forcers -> ForceType]
        /\ \A r \in Forcers : force[r].pc = "idle"
    BY <2>1, <2>2 DEF Init
  <2>4. /\ slotBytes \in [Seqs -> Nat] /\ terminal \in [Seqs -> Levels \cup {None}]
        /\ sent \in [Seqs -> SUBSET Levels] /\ ringOrd \in Seq(Seqs)
    BY DEF Init
  <2>5. /\ outstandingB \in Nat /\ outstandingY \in Nat
        /\ recoveredB \in Nat /\ recoveredY \in Nat
        /\ low \in 1..(MaxSeq + 1) /\ accepted \subseteq Seqs /\ seen \subseteq Seqs
    BY DEF Init
  <2> QED BY <2>3, <2>4, <2>5 DEF TypeOK
<1>3. Cardinality(Decided) = 0 /\ RingHoldsAll
  BY <1>1, FS_EmptySet DEF RingHoldsAll
<1>4. InflightConsumed = {} /\ SettledAhead = {}
  BY <1>1 DEF Init, InflightConsumed, SettledAhead
<1>5. CreditConserved
  BY <1>4, FS_EmptySet DEF Init, CreditConserved, Balanced
<1>6. GrantInv
  BY DEF Init, GrantInv, Live, NoGrant, FreshGrant, Idle
<1>7. NeverReadmitted /\ RingInv /\ SentInv
  BY <1>1, <1>3 DEF Init, NeverReadmitted, RingInv, SentInv
<1> QED BY <1>2, <1>5, <1>6, <1>7 DEF IInv

(* The inductive invariant holds in every reachable state of the manager. *)
THEOREM Invariance == Spec => []IInv
<1>1. IInv /\ [Next]_vars => IInv'
  BY InvStep
<1> QED BY <1>1, InvInit, PTL DEF Spec

(* Types are preserved and no balance of core/credit.go is ever negative. *)
THEOREM TypeCorrect == Spec => []TypeOK
<1>1. IInv => TypeOK
  BY DEF IInv
<1> QED BY <1>1, Invariance, PTL

(* Admit never hands out a second grant for a seq that has been settled,    *)
(* for any interleaving of holders, replays and releaseStuck loops.         *)
THEOREM AdmittedOnce == Spec => []NeverReadmitted
<1>1. IInv => NeverReadmitted
  BY DEF IInv
<1> QED BY <1>1, Invariance, PTL

(* Batch credit is conserved for every initial credit and ring capacity as  *)
(* long as no outcome has been evicted from the ring.                       *)
THEOREM Conservation == Spec => []CreditConserved
<1>1. IInv => CreditConserved
  BY DEF IInv
<1> QED BY <1>1, Invariance, PTL

(* No seq is reported with two different outcomes as long as no outcome has *)
(* been evicted from the ring.                                              *)
THEOREM OutcomeUnique == Spec => []OneOutcome
<1>1. ASSUME IInv PROVE OneOutcome
  <2> SUFFICES ASSUME RingHoldsAll, NEW s \in Seqs PROVE Cardinality(sent[s]) <= 1
    BY DEF OneOutcome
  <2>1. CASE s \in Decided
    <3>1. sent[s] = {terminal[s]}
      BY <1>1, <2>1 DEF IInv, SentInv
    <3>2. Cardinality({terminal[s]}) = 1
      BY FS_Singleton
    <3> QED BY <3>1, <3>2
  <2>2. CASE s \notin Decided
    <3>1. sent[s] = {}
      BY <1>1, <2>2 DEF IInv, SentInv
    <3> QED BY <3>1, FS_EmptySet
  <2> QED BY <2>1, <2>2
<1> QED BY <1>1, Invariance, PTL
-----------------------------------------------------------------------------
(* Steps that settle, and steps that do not.                              *)

(* A step either settles one seq through SettleBody or leaves the window    *)
(* and the ring as they are.                                                *)
LEMMA SettlesOrNot ==
    ASSUME IInv, [Next]_vars
    PROVE  \/ UNCHANGED <<low, accepted, ringOrd, terminal>>
           \/ \E s \in Seqs, l \in Levels, b \in Nat : ~Stale(s) /\ SettleBody(s, l, b)
<1>1. ASSUME NEW s \in Seqs, NEW l \in Levels, NEW b \in FrameBytes \cup {0}, Settle(s, l, b)
      PROVE  \E t \in Seqs, k \in Levels, c \in Nat : ~Stale(t) /\ SettleBody(t, k, c)
  <2>1. b \in Nat /\ ~Stale(s) /\ SettleBody(s, l, b)
    BY <1>1, ConstantsOK DEF Settle
  <2> QED BY <2>1
<1>2. ASSUME NEW r \in Forcers, NEW l \in Levels, ForceSettleCommit(r, l)
      PROVE  \E t \in Seqs, k \in Levels, c \in Nat : ~Stale(t) /\ SettleBody(t, k, c)
  <2>1. force[r].seq \in Seqs /\ force[r].bytes \in Nat
    BY <1>2 DEF IInv, TypeOK, ForceSettleCommit, ForceType
  <2>2. ~Stale(force[r].seq) /\ SettleBody(force[r].seq, l, force[r].bytes)
    BY <1>2 DEF ForceSettleCommit
  <2> QED BY <2>1, <2>2
<1>3. ASSUME NEW s \in Seqs,
             \/ Admit(s) \/ AdmitTerminalHit(s) \/ Accept(s) \/ Release(s) \/ SettleStale(s)
             \/ \E b \in FrameBytes : Consume(s, b)
             \/ \E b \in FrameBytes : ConsumeExhausted(s, b)
      PROVE  UNCHANGED <<low, accepted, ringOrd, terminal>>
  BY <1>3 DEF Admit, AdmitTerminalHit, Accept, Release, SettleStale, Consume,
              ConsumeExhausted, dedupVars
<1>4. ASSUME NEW r \in Forcers,
             \/ \E s \in Seqs : OldestBefore(r, s)
             \/ ForceSettleLook(r) \/ ForceSettleReplay(r) \/ ForceSettleStale(r)
      PROVE  UNCHANGED <<low, accepted, ringOrd, terminal>>
  BY <1>4 DEF OldestBefore, ForceSettleLook, ForceSettleReplay, ForceSettleStale, dedupVars
<1>5. CASE TakeRecovered \/ UNCHANGED vars
  BY <1>5 DEF TakeRecovered, vars, dedupVars
<1> QED BY <1>1, <1>2, <1>3, <1>4, <1>5 DEF Next, SeqStep, ForceStep

(* low and accepted together never forget a settled seq, however low moves  *)
(* (advanceLowLocked deletes from accepted only what low has passed).       *)
THEOREM SettledForever == Spec => DecidedGrows
<1>1. ASSUME IInv, [Next]_vars PROVE [Decided \subseteq Decided']_vars
  <2>1. CASE UNCHANGED <<low, accepted, ringOrd, terminal>>
    BY <2>1 DEF Decided
  <2>2. CASE \E s \in Seqs, l \in Levels, b \in Nat : ~Stale(s) /\ SettleBody(s, l, b)
    BY <1>1, <2>2, SettleBodyWindow
  <2> QED BY <1>1, <2>1, <2>2, SettlesOrNot
<1> QED BY <1>1, Invariance, PTL DEF Spec, DecidedGrows

(* The ring holds each outcome once and the map holds the same outcomes. *)
RingShape ==
    /\ \A i, j \in DOMAIN ringOrd : ringOrd[i] = ringOrd[j] => i = j
    /\ \A s \in Seqs : terminal[s] # None <=> \E i \in DOMAIN ringOrd : ringOrd[i] = s

(* Pushing a new outcome and evicting the oldest keep ring and map alike. *)
LEMMA PushKeepsShape ==
    ASSUME IInv, RingShape, NEW s \in Seqs, NEW level \in Levels,
           terminal[s] = None, PushTerminal(s, level)
    PROVE  RingShape'
<1> DEFINE ring == Append(ringOrd, s)
           n == Len(ringOrd)
<1>1. ringOrd \in Seq(Seqs) /\ n \in Nat /\ RingCap \in Nat /\ RingCap > 0
      /\ DOMAIN ringOrd = 1..n
  BY ConstantsOK DEF IInv, TypeOK
<1>2. /\ ring \in Seq(Seqs) /\ Len(ring) = n + 1 /\ DOMAIN ring = 1..(n + 1)
      /\ \A i \in 1..n : ring[i] = ringOrd[i]
      /\ ring[n + 1] = s
  BY <1>1
<1>3. \A i \in 1..n : ringOrd[i] # s
  BY <1>1 DEF RingShape
<1>4. \A i, j \in 1..(n + 1) : ring[i] = ring[j] => i = j
  BY <1>1, <1>2, <1>3 DEF RingShape
<1>5. /\ ringOrd' = IF n + 1 > RingCap THEN Tail(ring) ELSE ring
      /\ terminal' = [t \in Seqs |-> IF t = s THEN level
                                     ELSE IF n + 1 > RingCap /\ t = Head(ring) THEN None
                                     ELSE terminal[t]]
  BY <1>2 DEF PushTerminal
<1>6. level # None
  BY ConstantsOK
<1>7. \A t \in Seqs \ {s} : terminal[t] # None <=> \E i \in 1..n : ring[i] = t
  BY <1>1, <1>2 DEF RingShape
<1> HIDE DEF ring, n
<1>8. CASE n + 1 <= RingCap
  <2>1. ringOrd' = ring /\ \A t \in Seqs : terminal'[t] = IF t = s THEN level ELSE terminal[t]
    BY <1>1, <1>5, <1>8
  <2>2. \A t \in Seqs : terminal'[t] # None <=> \E i \in 1..(n + 1) : ring[i] = t
    BY <1>1, <1>2, <1>6, <1>7, <2>1
  <2> QED BY <1>2, <1>4, <2>1, <2>2, SMTT(20) DEF RingShape
<1>9. CASE n + 1 > RingCap
  <2>1. /\ ringOrd' = Tail(ring) /\ Len(Tail(ring)) = n /\ DOMAIN Tail(ring) = 1..n
        /\ \A i \in 1..n : Tail(ring)[i] = ring[i + 1]
        /\ Head(ring) = ring[1]
    BY <1>1, <1>2, <1>5, <1>9
  <2>2. \A i, j \in 1..n : Tail(ring)[i] = Tail(ring)[j] => i = j
    BY <1>1, <1>4, <2>1
  <2>3. n >= 1 /\ ring[1] # s
    BY <1>1, <1>2, <1>3, <1>9
  <2>4. \A t \in Seqs : terminal'[t] # None <=> (t = s \/ (t # ring[1] /\ terminal[t] # None))
    BY <1>5, <1>6, <1>9, <2>1
  <2>5. ASSUME NEW t \in Seqs
        PROVE  terminal'[t] # None <=> \E i \in 1..n : Tail(ring)[i] = t
    <3>1. CASE t = s
      <4>1. Tail(ring)[n] = s /\ n \in 1..n
        BY <1>1, <1>2, <2>1, <2>3
      <4> QED BY <2>4, <3>1, <4>1
    <3>2. CASE t # s /\ t = ring[1]
      <4>1. \A i \in 1..n : ring[i + 1] # ring[1]
        BY <1>1, <1>4
      <4> QED BY <2>1, <2>4, <3>2, <4>1
    <3>3. CASE t # s /\ t # ring[1]
      <4>1. ASSUME terminal[t] # None PROVE \E i \in 1..n : Tail(ring)[i] = t
        <5>1. PICK i \in 1..n : ring[i] = t
          BY <1>7, <3>3, <4>1
        <5>2. i - 1 \in 1..n /\ Tail(ring)[i - 1] = t
          BY <1>1, <2>1, <3>3, <5>1
        <5> QED BY <5>2
      <4>2. ASSUME NEW i \in 1..n, Tail(ring)[i] = t PROVE terminal[t] # None
        <5>1. ring[i + 1] = t /\ i + 1 \in 1..n
          BY <1>1, <1>2, <2>1, <3>3, <4>2
        <5> QED BY <1>7, <3>3, <5>1
      <4> QED BY <2>4, <3>3, <4>1, <4>2
    <3> QED BY <3>1, <3>2, <3>3
  <2> QED BY <2>1, <2>2, <2>5 DEF RingShape
<1> QED BY <1>1, <1>8, <1>9

(* The terminal ring and its map agree and stay within ringCap. *)
THEOREM RingCorrect == Spec => []RingConsistent
<1>1. Init => RingShape
  BY DEF Init, RingShape
<1>2. ASSUME IInv, RingShape, [Next]_vars PROVE RingShape'
  <2>1. CASE UNCHANGED <<low, accepted, ringOrd, terminal>>
    BY <1>2, <2>1 DEF RingShape
  <2>2. ASSUME NEW s \in Seqs, NEW l \in Levels, NEW b \in Nat,
               ~Stale(s), SettleBody(s, l, b)
        PROVE  RingShape'
    <3>1. terminal[s] = None
      BY <1>2, <2>2 DEF IInv, Stale, RingInv, NeverReadmitted
    <3> QED BY <1>2, <2>2, <3>1, PushKeepsShape DEF SettleBody
  <2> QED BY <1>2, <2>1, <2>2, SettlesOrNot
<1>3. IInv /\ RingShape => RingConsistent
  BY DEF IInv, TypeOK, RingInv, RingShape, RingConsistent
<1> QED BY <1>1, <1>2, <1>3, Invariance, PTL DEF Spec
=============================================================================
