-------------------------- MODULE CreditFlushProofs --------------------------
(* Proofs about CreditFlush: no recovered credit is forgotten, for any      *)
(* number of settling goroutines and of overlapping callbacks.              *)
EXTENDS CreditFlush, TLAPS

(* NeverForgotten alone is not inductive: when the CAS fails, the pending   *)
(* timer that OneTimer promises is what keeps the credit remembered.        *)
FlushInv == FlushTypeOK /\ OneTimer /\ NeverForgotten

LEMMA FlushInvInit == FlushInit => FlushInv
<1> SUFFICES ASSUME FlushInit PROVE FlushInv
  OBVIOUS
<1>1. FlushTypeOK
  BY DEF FlushInit, FlushTypeOK
<1>2. OneTimer /\ NeverForgotten
  BY DEF FlushInit, OneTimer, NeverForgotten
<1> QED BY <1>1, <1>2 DEF FlushInv

LEMMA SettleStep ==
    ASSUME FlushInv, NEW p \in Settlers, Settle(p)
    PROVE  FlushInv'
<1>1. FlushTypeOK'
  BY DEF FlushInv, FlushTypeOK, Settle
<1>2. OneTimer'
  BY DEF FlushInv, OneTimer, Settle
<1>3. settler'[p] = "settled"
  BY DEF FlushInv, FlushTypeOK, Settle
<1>4. NeverForgotten'
  BY <1>3 DEF NeverForgotten
<1> QED BY <1>1, <1>2, <1>4 DEF FlushInv

LEMMA ScheduleStep ==
    ASSUME FlushInv, NEW p \in Settlers, maybeScheduleFlush(p)
    PROVE  FlushInv'
<1>t. FlushTypeOK
  BY DEF FlushInv
<1>1. CASE armed /\ UNCHANGED flusher
  <2>1. FlushTypeOK'
    BY <1>t, <1>1 DEF FlushTypeOK, maybeScheduleFlush
  <2>2. OneTimer'
    BY <1>1 DEF FlushInv, OneTimer, maybeScheduleFlush
  <2>3. NeverForgotten'
    BY <1>1 DEF FlushInv, OneTimer, NeverForgotten, maybeScheduleFlush
  <2> QED BY <2>1, <2>2, <2>3 DEF FlushInv
<1>2. ASSUME ~armed, NEW f \in Flushers, flusher[f] = "idle",
             flusher' = [flusher EXCEPT ![f] = "timer"]
      PROVE  FlushInv'
  <2>1. FlushTypeOK'
    BY <1>t, <1>2 DEF FlushTypeOK, maybeScheduleFlush
  <2>2. flusher'[f] = "timer" /\ \A g \in Flushers \ {f} : flusher'[g] # "timer"
    BY <1>t, <1>2 DEF FlushTypeOK, FlushInv, OneTimer
  <2>3. OneTimer'
    <3>1. armed'
      BY DEF maybeScheduleFlush
    <3> QED BY <2>2, <3>1 DEF OneTimer
  <2>4. NeverForgotten'
    BY <2>2 DEF NeverForgotten
  <2> QED BY <2>1, <2>3, <2>4 DEF FlushInv
<1> QED BY <1>1, <1>2 DEF maybeScheduleFlush

LEMMA CallbackStep ==
    ASSUME FlushInv, NEW f \in Flushers, callback(f)
    PROVE  FlushInv'
<1>t. FlushTypeOK
  BY DEF FlushInv
<1>1. CASE /\ flusher[f] = "timer"
           /\ armed' = FALSE
           /\ flusher' = [flusher EXCEPT ![f] = "fired"]
           /\ UNCHANGED <<recovered, settled, granted, settler, taken>>
  <2>1. FlushTypeOK'
    BY <1>t, <1>1 DEF FlushTypeOK
  <2>2. \A g \in Flushers : flusher'[g] # "timer"
    BY <1>t, <1>1 DEF FlushTypeOK, FlushInv, OneTimer
  <2>3. OneTimer'
    BY <1>1, <2>2 DEF OneTimer
  <2>4. flusher'[f] = "fired"
    BY <1>t, <1>1 DEF FlushTypeOK
  <2>5. NeverForgotten'
    BY <2>4 DEF NeverForgotten
  <2> QED BY <2>1, <2>3, <2>5 DEF FlushInv
<1>2. CASE /\ flusher[f] = "fired"
           /\ taken' = [taken EXCEPT ![f] = recovered]
           /\ recovered' = 0
           /\ flusher' = [flusher EXCEPT ![f] = "take"]
           /\ UNCHANGED <<settled, granted, armed, settler>>
  <2>1. FlushTypeOK'
    BY <1>t, <1>2 DEF FlushTypeOK
  <2>2. \A g \in Flushers : flusher'[g] = "timer" <=> flusher[g] = "timer"
    BY <1>t, <1>2 DEF FlushTypeOK
  <2>3. OneTimer'
    BY <1>2, <2>2 DEF FlushInv, OneTimer
  <2>4. NeverForgotten'
    BY <1>2 DEF NeverForgotten
  <2> QED BY <2>1, <2>3, <2>4 DEF FlushInv
<1>3. CASE /\ flusher[f] = "take"
           /\ granted' = granted + taken[f]
           /\ taken' = [taken EXCEPT ![f] = 0]
           /\ flusher' = [flusher EXCEPT ![f] = "idle"]
           /\ UNCHANGED <<recovered, settled, armed, settler>>
  <2>0. granted' \in Nat
    <3>1. granted \in Nat /\ taken[f] \in Nat
      BY <1>t DEF FlushTypeOK
    <3> QED BY <1>3, <3>1
  <2>1. FlushTypeOK'
    BY <1>t, <1>3, <2>0 DEF FlushTypeOK
  <2>2. \A g \in Flushers : /\ flusher'[g] = "timer" <=> flusher[g] = "timer"
                            /\ flusher'[g] = "fired" <=> flusher[g] = "fired"
    BY <1>t, <1>3 DEF FlushTypeOK
  <2>3. OneTimer'
    BY <1>3, <2>2 DEF FlushInv, OneTimer
  <2>4. NeverForgotten'
    BY <1>3, <2>2 DEF FlushInv, NeverForgotten
  <2> QED BY <2>1, <2>3, <2>4 DEF FlushInv
<1> QED BY <1>1, <1>2, <1>3 DEF callback

(* The inductive invariant of the flush. *)
THEOREM FlushInvariance == FlushSpec => []FlushInv
<1>1. FlushInv /\ [FlushNext]_flushVars => FlushInv'
  <2> SUFFICES ASSUME FlushInv, [FlushNext]_flushVars PROVE FlushInv'
    OBVIOUS
  <2>1. CASE UNCHANGED flushVars
    BY <2>1 DEF flushVars, FlushInv, FlushTypeOK, OneTimer, NeverForgotten
  <2> QED BY <2>1, SettleStep, ScheduleStep, CallbackStep DEF FlushNext
<1> QED BY <1>1, FlushInvInit, PTL DEF FlushSpec

(* Recovered credit always has someone who will grant it again. *)
THEOREM FlushNeverForgotten == FlushSpec => []NeverForgotten
BY FlushInvariance, PTL DEF FlushInv

(* flushArmed is set exactly while one timer is pending. *)
THEOREM FlushOneTimer == FlushSpec => []OneTimer
BY FlushInvariance, PTL DEF FlushInv
=============================================================================
