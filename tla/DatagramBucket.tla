---------------------------- MODULE DatagramBucket ---------------------------
(***************************************************************************)
(* The rate limit on datagrams: dgramAllow and the processDatagram around   *)
(* it (handler_batch.go).  Time is counted in clock units, Second of them   *)
(* to a second; the code's unit is the nanosecond, and int64(...) cuts off  *)
(* the part of a byte that has not been earned yet.                         *)
(***************************************************************************)
EXTENDS Integers, Sequences, FiniteSets, SequencesExt

CONSTANTS Rates,     \* configured rates, bytes per second, 0 = no limit
          Second,    \* clock units per second
          Sizes,     \* sizes of datagrams
          MaxTime,   \* bound on the clock
          MaxCalls   \* bound on the number of datagrams

VARIABLES rate,    \* dgramRate, fixed by the policy
          now,
          last,    \* dgramLast, -1 before the first datagram
          avail,   \* dgramAvail
          calls    \* history: time, size and answer of each call

bucketVars == <<rate, now, last, avail, calls>>

Init == rate \in Rates /\ now = 0 /\ last = -1 /\ avail = 0 /\ calls = <<>>

Tick ==
  /\ now < MaxTime
  /\ now' = now + 1
  /\ UNCHANGED <<rate, last, avail, calls>>

Cut(n) == IF n > rate THEN rate ELSE n

(* Mutant: the fraction of a byte is rounded up.                          *)
RefilledUp ==
  IF last = -1 THEN rate
  ELSE Cut(avail + ((now - last) * rate + Second - 1) \div Second)

(* The level when the datagram arrives: full at first, then what was left   *)
(* and what the time since the last call has earned.                        *)
Refilled ==
  IF last = -1 THEN rate
  ELSE Cut(avail + ((now - last) * rate) \div Second)

Answer(n, ok) == calls' = Append(calls, [t |-> now, n |-> n, ok |-> ok])

Unlimited(n) ==
  /\ rate = 0
  /\ Answer(n, TRUE)
  /\ UNCHANGED <<last, avail>>

Limited(n) ==
  /\ rate > 0
  /\ last' = now
  /\ IF Refilled >= n
       THEN avail' = Refilled - n /\ Answer(n, TRUE)
       ELSE avail' = Refilled /\ Answer(n, FALSE)

(* A refused datagram is dropped without an answer.                       *)
dgramAllow(n) ==
  /\ Len(calls) < MaxCalls
  /\ Unlimited(n) \/ Limited(n)
  /\ UNCHANGED <<rate, now>>

Next == Tick \/ \E n \in Sizes : dgramAllow(n)

BucketSpec == Init /\ [][Next]_bucketVars

-----------------------------------------------------------------------------
(* Bytes let through by the calls from i to j.                            *)
Passed(i, j) ==
  FoldSeq(LAMBDA c, sum : sum + (IF c.ok THEN c.n ELSE 0), 0, SubSeq(calls, i, j))

(* Over any stretch of time no more passes than the rate and one full       *)
(* bucket allow (handler_batch.go:287-297).                                 *)
RateKept ==
  rate > 0 =>
    \A i, j \in 1 .. Len(calls) :
      i <= j => Second * (Passed(i, j) - rate) <= rate * (calls[j].t - calls[i].t)

(* "The token bucket's rate in bytes per second" (policy.go:64): once a     *)
(* second has gone by, a datagram is refused only if it and what passed     *)
(* within that second exceed a second's bytes.                              *)
RateGranted ==
  \A j \in 1 .. Len(calls) :
    LET recent == {i \in 1 .. j : calls[i].t > calls[j].t - Second}
        start == CHOOSE i \in recent : \A k \in recent : i <= k
    IN ~calls[j].ok /\ calls[j].t >= calls[1].t + Second
         => Passed(start, j) + calls[j].n > rate
=============================================================================
