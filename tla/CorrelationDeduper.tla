------------------------- MODULE CorrelationDeduper --------------------------
(***************************************************************************)
(* core/deduper.go: the process wide filter of correlation keys, called by  *)
(* the sink handlers of all connections the way the file's header shows:    *)
(*                                                                          *)
(*     if d.Dedup(ev.Meta.Correlation) { process(ev) }                      *)
(*     done(Outcome{Level: OutcomeDurable})                                 *)
(*                                                                          *)
(* A delivery is one batch handed to the sink; the batches an agent sends   *)
(* again after a reconnect are other deliveries with the same key.          *)
(***************************************************************************)
EXTENDS Integers, Sequences, FiniteSets, SequencesExt

CONSTANTS Deliveries,
          Keys,
          KeyOf,     \* the correlation of each delivery
          Empty,     \* the empty correlation
          Cap,       \* capacity
          TTL,       \* ttl, 0 = entries do not expire
          MaxTime    \* bound on the clock

VARIABLES now,     \* the clock
          seen,    \* d.seen: registration time of each key held
          order,   \* d.order, oldest first
          call,    \* each delivery: pc, and the time it read before locking
          passed   \* history: deliveries let through, with key and time

dedupVars == <<now, seen, order, call, passed>>

Init ==
  /\ now = 0 /\ seen = <<>> /\ order = <<>>
  /\ call = [d \in Deliveries |-> [pc |-> "new", t |-> 0]]
  /\ passed = <<>>

Goes(d, pc) == call' = [call EXCEPT ![d].pc = pc]

Tick ==
  /\ now < MaxTime
  /\ now' = now + 1
  /\ UNCHANGED <<seen, order, call, passed>>

(* time.Now() is read before the lock is taken.                           *)
DedupBegins(d) ==
  /\ call[d].pc = "new"
  /\ call' = [call EXCEPT ![d] = [pc |-> "lock", t |-> now]]
  /\ UNCHANGED <<now, seen, order, passed>>

(* An entry within the window.                                            *)
Fresh(key, t) == key \in DOMAIN seen /\ (TTL = 0 \/ t - seen[key] < TTL)

Without(f, key) == [k \in DOMAIN f \ {key} |-> f[k]]

(* Mutant: the front is evicted one entry early.                          *)
RegisterEvictsEarly(key, t) ==
  LET newer == Append(Remove(order, key), key)
      held == [k \in DOMAIN seen \cup {key} |-> IF k = key THEN t ELSE seen[k]]
  IN IF Cardinality(DOMAIN held) >= Cap
       THEN /\ order' = Tail(newer)
            /\ seen' = Without(held, Head(newer))
       ELSE order' = newer /\ seen' = held

(* The key, taken out first if it has expired, goes to the back; beyond     *)
(* the capacity the front is evicted.  One entry is added, so the loop      *)
(* runs at most once.                                                       *)
Register(key, t) ==
  LET newer == Append(Remove(order, key), key)
      held == [k \in DOMAIN seen \cup {key} |-> IF k = key THEN t ELSE seen[k]]
  IN IF Cardinality(DOMAIN held) > Cap
       THEN /\ order' = Tail(newer)
            /\ seen' = Without(held, Head(newer))
       ELSE order' = newer /\ seen' = held

DedupEmpty(d) ==
  /\ call[d].pc = "lock" /\ KeyOf[d] = Empty
  /\ Goes(d, "first")
  /\ UNCHANGED <<now, seen, order, passed>>

DedupFirst(d) ==
  /\ call[d].pc = "lock" /\ KeyOf[d] # Empty /\ ~Fresh(KeyOf[d], call[d].t)
  /\ Register(KeyOf[d], call[d].t)
  /\ Goes(d, "first")
  /\ passed' = Append(passed, [key |-> KeyOf[d], t |-> call[d].t])
  /\ UNCHANGED now

DedupRepeat(d) ==
  /\ call[d].pc = "lock" /\ KeyOf[d] # Empty /\ Fresh(KeyOf[d], call[d].t)
  /\ Goes(d, "repeat")
  /\ UNCHANGED <<now, seen, order, passed>>

Next ==
  \/ Tick
  \/ \E d \in Deliveries :
       DedupBegins(d) \/ DedupEmpty(d) \/ DedupFirst(d) \/ DedupRepeat(d)

DedupSpec == Init /\ [][Next]_dedupVars

-----------------------------------------------------------------------------
(* The list and the map hold the same keys, each once, and no more than     *)
(* the capacity: eviction, expiry and re-registration keep them together    *)
(* (deduper.go:53-74).                                                      *)
OrderMatchesSeen ==
  /\ Range(order) = DOMAIN seen
  /\ IsInjective(order)
  /\ Len(order) <= Cap

(* The window: a key passes a second time only after its ttl, or after at   *)
(* least Cap other registrations (Dedup's "first in the window").           *)
WindowKept ==
  \A i, j \in 1 .. Len(passed) :
    i < j /\ passed[i].key = passed[j].key =>
      \/ TTL > 0 /\ passed[j].t - passed[i].t >= TTL
      \/ j - i > Cap
=============================================================================
