------------------------- MODULE TimeBasedCounterOps -------------------------
(***************************************************************************)
(* The sliding-window counter of prefetch/time_based_counter.cc as         *)
(* operators on a record: slots is the vector slots_ (indices from 0),     *)
(* count, tail and last are count_, tail_ and last_time_.  WindowSize and  *)
(* SlotDuration are slots_.size() and slot_duration_.                      *)
(***************************************************************************)
EXTENDS Integers
LOCAL INSTANCE Functions

CONSTANTS WindowSize, SlotDuration

ASSUME CounterAssumption ==
  /\ WindowSize \in Nat \ {0}
  /\ SlotDuration \in Nat \ {0}

SlotIndex == 0..WindowSize-1

\* TimeBasedCounter(window_size, duration, t), and Clear(t).
Clear(t) == [slots |-> [i \in SlotIndex |-> 0], count |-> 0, tail |-> 0, last |-> t]

\* The slots Roll empties: the n slots after tail, around the ring.
Stale(c, n) == {(c.tail + i) % WindowSize : i \in 1..n}

\* Roll(t), for t not before last_time_.
Roll(c, t) ==
  LET n == (t - c.last) \div SlotDuration
  IN  IF n >= WindowSize THEN Clear(t)
      ELSE [slots |-> [i \in SlotIndex |-> IF i \in Stale(c, n) THEN 0 ELSE c.slots[i]],
            count |-> c.count - SumFunctionOnSet(c.slots, Stale(c, n)),
            tail  |-> (c.tail + n) % WindowSize,
            last  |-> c.last + n * SlotDuration]

Inc(c, n, t) ==
  LET r == Roll(c, t)
  IN  [r EXCEPT !.slots[r.tail] = @ + n, !.count = @ + n]

\* Count(t) rolls the window and returns count_ of the result.
Count(c, t) == Roll(c, t).count
===============================================================================
