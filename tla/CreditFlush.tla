----------------------------- MODULE CreditFlush -----------------------------
(***************************************************************************)
(* The lazily armed CREDIT flush of handler_batch.go, step by step: any     *)
(* number of goroutines settle (recovering credit) and then call            *)
(* maybeScheduleFlush; the timer's callback stores false into flushArmed    *)
(* and calls flushPending, which takes the recovered credit and writes it.  *)
(* A write can block for long, so several callbacks may be running.         *)
(***************************************************************************)
EXTENDS Integers, FiniteSets

CONSTANTS
    Settlers,     \* goroutines that settle: workers, done closures, reaper
    Flushers,     \* goroutines that run the timer's callback
    MaxRecovered  \* bound: settlements

ASSUME FlushConstantsOK == MaxRecovered \in Nat

VARIABLES
    recovered,  \* CreditManager.recoveredB
    settled,    \* history: settlements
    granted,    \* history: batches put into CREDIT frames
    armed,      \* flushArmed
    settler,    \* "idle", or "settled": about to call maybeScheduleFlush
    flusher,    \* "idle", "timer", "fired", "take": see callback
    taken       \* what a callback took and has not written yet

flushVars == <<recovered, settled, granted, armed, settler, flusher, taken>>

FlushInit ==
    /\ recovered = 0 /\ settled = 0 /\ granted = 0
    /\ armed = FALSE
    /\ settler = [p \in Settlers |-> "idle"]
    /\ flusher = [f \in Flushers |-> "idle"]
    /\ taken = [f \in Flushers |-> 0]

Settle(p) ==
    /\ settler[p] = "idle" /\ settled < MaxRecovered
    /\ recovered' = recovered + 1
    /\ settled' = settled + 1
    /\ settler' = [settler EXCEPT ![p] = "settled"]
    /\ UNCHANGED <<granted, armed, flusher, taken>>

(* The CAS fails when a timer is already pending. *)
maybeScheduleFlush(p) ==
    /\ settler[p] = "settled"
    /\ settler' = [settler EXCEPT ![p] = "idle"]
    /\ armed' = TRUE
    /\ \/ armed /\ UNCHANGED flusher
       \/ /\ ~armed
          /\ \E f \in Flushers :
                flusher[f] = "idle" /\ flusher' = [flusher EXCEPT ![f] = "timer"]
    /\ UNCHANGED <<recovered, settled, granted, taken>>

(* Mutant: flushPending first, Store(false) after it. *)
callbackTakesFirst(f) ==
    \/ /\ flusher[f] = "timer"
       /\ flusher' = [flusher EXCEPT ![f] = "fired"]
       /\ recovered' = 0 /\ granted' = granted + recovered
       /\ UNCHANGED <<settled, armed, settler, taken>>
    \/ /\ flusher[f] = "fired"
       /\ armed' = FALSE
       /\ flusher' = [flusher EXCEPT ![f] = "idle"]
       /\ UNCHANGED <<recovered, settled, granted, settler, taken>>

(* Store(false); TakeRecovered; write the CREDIT frame. *)
callback(f) ==
    \/ /\ flusher[f] = "timer"
       /\ armed' = FALSE
       /\ flusher' = [flusher EXCEPT ![f] = "fired"]
       /\ UNCHANGED <<recovered, settled, granted, settler, taken>>
    \/ /\ flusher[f] = "fired"
       /\ taken' = [taken EXCEPT ![f] = recovered]
       /\ recovered' = 0
       /\ flusher' = [flusher EXCEPT ![f] = "take"]
       /\ UNCHANGED <<settled, granted, armed, settler>>
    \/ /\ flusher[f] = "take"
       /\ granted' = granted + taken[f]
       /\ taken' = [taken EXCEPT ![f] = 0]
       /\ flusher' = [flusher EXCEPT ![f] = "idle"]
       /\ UNCHANGED <<recovered, settled, armed, settler>>

FlushNext ==
    \/ \E p \in Settlers : Settle(p) \/ maybeScheduleFlush(p)
    \/ \E f \in Flushers : callback(f)

FlushSpec == FlushInit /\ [][FlushNext]_flushVars

-----------------------------------------------------------------------------
(* The flush's state has its type. *)
FlushTypeOK ==
    /\ recovered \in Nat /\ settled \in Nat /\ granted \in Nat
    /\ armed \in BOOLEAN
    /\ settler \in [Settlers -> {"idle", "settled"}]
    /\ flusher \in [Flushers -> {"idle", "timer", "fired", "take"}]
    /\ taken \in [Flushers -> Nat]

(* Recovered credit is never forgotten: while some waits, a timer is        *)
(* pending, a callback has yet to take it, or its settler has yet to arm    *)
(* (Store(false) comes before TakeRecovered for this reason).               *)
NeverForgotten ==
    recovered > 0 =>
        \/ \E f \in Flushers : flusher[f] \in {"timer", "fired"}
        \/ \E p \in Settlers : settler[p] = "settled"

(* "The CAS guarantees at most one pending flush": flushArmed is set        *)
(* exactly while one timer is pending.                                      *)
OneTimer ==
    /\ \A f, g \in Flushers : flusher[f] = "timer" /\ flusher[g] = "timer" => f = g
    /\ armed <=> \E f \in Flushers : flusher[f] = "timer"
=============================================================================
