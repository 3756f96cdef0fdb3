------------------------- MODULE CreditLedgerProofs --------------------------
(* Proofs about CreditLedger: the account stays within its bounds and no    *)
(* nonce is reused, for every size of the instance and every CREDIT frame.  *)
EXTENDS CreditLedger, TLAPS

(* What both dimensions of the account keep: no more is given back than was *)
(* spent, and no more is spent than was granted or given back.              *)
AccountInv ==
    /\ returnedB <= consumedB /\ consumedB - returnedB <= grantedB
    /\ returnedY <= consumedY /\ consumedY - returnedY <= grantedY

LedgerInv == LedgerTypeOK /\ AccountInv /\ NonceFresh

LEMMA GrantedType ==
    /\ grantedB \in Nat /\ grantedB <= ClampB
    /\ grantedY \in Nat /\ grantedY <= ClampY
BY LedgerConstantsOK DEF grantedB, grantedY, Least

(* Adding and removing slots keep the domain and the values. *)
LEMMA WithFacts ==
    ASSUME NEW f, NEW s, NEW b
    PROVE  /\ DOMAIN With(f, s, b) = DOMAIN f \cup {s}
           /\ With(f, s, b)[s] = b
           /\ \A t \in DOMAIN f \ {s} : With(f, s, b)[t] = f[t]
BY DEF With

LEMMA WithoutShrinks ==
    ASSUME NEW f, NEW S
    PROVE  /\ DOMAIN Without(f, S) \subseteq DOMAIN f
           /\ \A t \in DOMAIN Without(f, S) : Without(f, S)[t] = f[t]
BY DEF Without, Restrict

(* One more frame with the next seq keeps the frames increasing. *)
LEMMA FrameNext ==
    ASSUME LedgerInv, seq < MaxSeq, seq' = seq + 1, framed' = Append(framed, seq + 1)
    PROVE  seq' \in 0..MaxSeq /\ framed' \in Seq(1..seq') /\ NonceFresh'
<1>1. seq \in Nat /\ MaxSeq \in Nat /\ framed \in Seq(1..seq) /\ Len(framed) \in Nat
  BY LedgerConstantsOK DEF LedgerInv, LedgerTypeOK
<1>2. framed \in Seq(1..(seq + 1)) /\ seq + 1 \in 1..(seq + 1)
  <2>1. 1..seq \subseteq 1..(seq + 1)
    BY <1>1
  <2> QED BY <1>1, <2>1
<1>3. framed' \in Seq(1..seq')
  BY <1>2
<1>4. \A i \in DOMAIN framed : framed[i] < seq + 1
  BY <1>1
<1>5. NonceFresh'
  BY <1>1, <1>4 DEF LedgerInv, NonceFresh
<1> QED BY <1>1, <1>3, <1>5

LEMMA LedgerStep == LedgerInv /\ [LedgerNext]_ledgerVars => LedgerInv'
<1> SUFFICES ASSUME LedgerInv, [LedgerNext]_ledgerVars PROVE LedgerInv'
  OBVIOUS
<1> USE GrantedType, LedgerConstantsOK
<1>t. /\ seq \in Nat /\ consumedB \in Nat /\ consumedY \in Nat
      /\ returnedB \in Nat /\ returnedY \in Nat /\ violations \in Nat
  BY DEF LedgerInv, LedgerTypeOK
<1>1. ASSUME NEW b \in FrameBytes, Consume(b) PROVE LedgerInv'
  <2>1. seq' \in 0..MaxSeq /\ framed' \in Seq(1..seq') /\ NonceFresh' /\ seq' = seq + 1
    BY <1>1, FrameNext DEF Consume
  <2>2. b \in Nat
    OBVIOUS
  <2>3. /\ DOMAIN slots' = DOMAIN slots \cup {seq + 1}
        /\ DOMAIN writing' = DOMAIN writing \cup {seq + 1}
    BY <1>1, WithFacts DEF Consume
  <2>4. DOMAIN slots' \subseteq 1..seq' /\ DOMAIN writing' \subseteq 1..seq'
    BY <1>t, <2>1, <2>3 DEF LedgerInv, LedgerTypeOK
  <2>5. \A s \in DOMAIN slots' : slots'[s] \in Nat
    <3>1. slots' = With(slots, seq + 1, b)
      BY <1>1 DEF Consume
    <3>2. slots'[seq + 1] = b /\ \A t \in DOMAIN slots \ {seq + 1} : slots'[t] = slots[t]
      BY <3>1, <1>t DEF With
    <3> QED BY <2>2, <2>3, <3>2 DEF LedgerInv, LedgerTypeOK
  <2>6. AccountInv' /\ consumedB' \in Nat /\ consumedY' \in Nat /\ returnedB' \in Nat
        /\ returnedY' \in Nat /\ violations' \in Nat
    <3>1. /\ consumedB' = consumedB + 1 /\ consumedY' = consumedY + b
          /\ returnedB' = returnedB /\ returnedY' = returnedY /\ violations' = violations
      BY <1>1 DEF Consume
    <3>2. grantedB - consumedB + returnedB >= 1 /\ grantedY - consumedY + returnedY >= b
      BY <1>1 DEF Consume, CanSpend, AvailableB, AvailableY
    <3>3. AccountInv
      BY DEF LedgerInv
    <3>4. AccountInv'
      BY <1>t, <2>2, <3>1, <3>2, <3>3 DEF AccountInv
    <3> QED BY <1>t, <2>2, <3>1, <3>4
  <2> QED BY <2>1, <2>4, <2>5, <2>6 DEF LedgerInv, LedgerTypeOK
<1>2. ASSUME seq < MaxSeq, seq' = seq + 1, UNCHANGED <<account, slots, writing>>,
             framed' = framed \/ framed' = Append(framed, seq + 1)
      PROVE  LedgerInv'
  <2>1. seq' \in 0..MaxSeq /\ 1..seq \subseteq 1..seq'
    BY <1>2, <1>t
  <2>2. framed' \in Seq(1..seq') /\ NonceFresh'
    <3>1. CASE framed' = framed
      BY <2>1, <3>1 DEF LedgerInv, LedgerTypeOK, NonceFresh
    <3>2. CASE framed' = Append(framed, seq + 1)
      BY <1>2, <3>2, FrameNext
    <3> QED BY <1>2, <3>1, <3>2
  <2>3. AccountInv'
    BY <1>2 DEF LedgerInv, AccountInv, account, grantedB, grantedY
  <2> QED BY <1>2, <2>1, <2>2, <2>3 DEF LedgerInv, LedgerTypeOK, account
<1>3. ASSUME UNCHANGED <<seq, account, framed>>,
             DOMAIN slots' \subseteq DOMAIN slots, DOMAIN writing' \subseteq DOMAIN writing,
             \A s \in DOMAIN slots' : slots'[s] = slots[s]
      PROVE  LedgerInv'
  BY <1>3 DEF LedgerInv, LedgerTypeOK, AccountInv, NonceFresh, account, grantedB, grantedY
<1>4. ASSUME NEW s \in 1..MaxSeq, Rollback(s) PROVE LedgerInv'
  <2>1. /\ DOMAIN slots' \subseteq DOMAIN slots /\ DOMAIN writing' \subseteq DOMAIN writing
        /\ \A t \in DOMAIN slots' : slots'[t] = slots[t]
    <3>1. slots' = Without(slots, {s}) /\ writing' = Without(writing, {s})
      BY <1>4 DEF Rollback
    <3> QED BY <3>1, WithoutShrinks
  <2>2. /\ returnedB' \in Nat /\ returnedB' <= consumedB /\ returnedB <= returnedB'
        /\ returnedY' \in Nat /\ returnedY' <= consumedY /\ returnedY <= returnedY'
    <3>1. CASE s \in DOMAIN slots
      <4>1. slots[s] \in Nat
        BY <3>1 DEF LedgerInv, LedgerTypeOK
      <4> QED BY <1>4, <1>t, <3>1, <4>1 DEF Rollback, Least, LedgerInv, AccountInv
    <3>2. CASE s \notin DOMAIN slots
      BY <1>4, <1>t, <3>2 DEF Rollback, LedgerInv, AccountInv
    <3> QED BY <3>1, <3>2
  <2>3. AccountInv'
    BY <1>4, <1>t, <2>2 DEF Rollback, LedgerInv, AccountInv, grantedB, grantedY
  <2> QED BY <1>4, <2>1, <2>2, <2>3 DEF Rollback, LedgerInv, LedgerTypeOK, NonceFresh
<1>5. ASSUME NEW dB \in Deltas, NEW dY \in Deltas, OnCredit(dB, dY) PROVE LedgerInv'
  <2>1. /\ returnedB' \in Nat /\ returnedB' <= consumedB /\ returnedB <= returnedB'
        /\ returnedY' \in Nat /\ returnedY' <= consumedY /\ returnedY <= returnedY'
        /\ violations' \in Nat
    BY <1>5, <1>t DEF OnCredit, Least, OverReturn, LedgerInv, AccountInv
  <2>2. AccountInv'
    BY <1>5, <1>t, <2>1 DEF OnCredit, LedgerInv, AccountInv, grantedB, grantedY
  <2> QED BY <1>5, <2>1, <2>2 DEF OnCredit, LedgerInv, LedgerTypeOK, NonceFresh
<1>6. ASSUME NEW dB \in Deltas, NEW dY \in Deltas, OnCreditNegative(dB, dY) PROVE LedgerInv'
  BY <1>6, <1>t DEF OnCreditNegative, LedgerInv, LedgerTypeOK, AccountInv, NonceFresh,
                    grantedB, grantedY
<1>7. ASSUME NEW s \in 1..MaxSeq, WriteDone(s) \/ Terminal(s) PROVE LedgerInv'
  <2>1. CASE WriteDone(s)
    <3>1. writing' = Without(writing, {s}) /\ UNCHANGED <<seq, account, slots, framed>>
      BY <2>1 DEF WriteDone
    <3> QED BY <1>3, <3>1, WithoutShrinks
  <2>2. CASE Terminal(s)
    <3>1. slots' = Without(slots, {s}) /\ UNCHANGED <<seq, account, writing, framed>>
      BY <2>2 DEF Terminal
    <3> QED BY <1>3, <3>1, WithoutShrinks
  <2> QED BY <1>7, <2>1, <2>2
<1>8. ASSUME NEW S, ReapExpired(S) \/ Reset PROVE LedgerInv'
  <2>1. PICK T : slots' = Without(slots, T) /\ UNCHANGED <<seq, account, writing, framed>>
    BY <1>8 DEF ReapExpired, Reset
  <2> QED BY <1>3, <2>1, WithoutShrinks
<1>9. ASSUME (\E b \in FrameBytes : ConsumeExhausted(b)) \/ SendDatagram PROVE LedgerInv'
  BY <1>2, <1>9 DEF ConsumeExhausted, SendDatagram
<1>10. CASE UNCHANGED ledgerVars
  BY <1>3, <1>10 DEF ledgerVars
<1> QED BY <1>1, <1>4, <1>5, <1>6, <1>7, <1>8, <1>9, <1>10 DEF LedgerNext

LEMMA LedgerInvInit == LedgerInit => LedgerInv
<1> SUFFICES ASSUME LedgerInit PROVE LedgerInv
  OBVIOUS
<1>1. LedgerTypeOK
  BY LedgerConstantsOK DEF LedgerInit, LedgerTypeOK
<1>2. AccountInv /\ NonceFresh
  BY GrantedType DEF LedgerInit, AccountInv, NonceFresh
<1> QED BY <1>1, <1>2 DEF LedgerInv

(* The inductive invariant of the account. *)
THEOREM LedgerInvariance == LedgerSpec => []LedgerInv
BY LedgerInvInit, LedgerStep, PTL DEF LedgerSpec

(* The account has its type in every reachable state. *)
THEOREM LedgerTypeCorrect == LedgerSpec => []LedgerTypeOK
BY LedgerInvariance, PTL DEF LedgerInv

(* Whatever the server sends, the available credit stays between zero and   *)
(* the grant, and the grant within the local clamp.                         *)
THEOREM LedgerIsBounded == LedgerSpec => []LedgerBounded
<1>1. LedgerInv => LedgerBounded
  BY GrantedType DEF LedgerInv, LedgerTypeOK, AccountInv, LedgerBounded, AvailableB, AvailableY
<1> QED BY <1>1, LedgerInvariance, PTL

(* No two frames of a session carry the same seq. *)
THEOREM NonceNeverReused == LedgerSpec => []NonceFresh
BY LedgerInvariance, PTL DEF LedgerInv
=============================================================================
