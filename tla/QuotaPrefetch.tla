----------------------------- MODULE QuotaPrefetch -----------------------------
(***************************************************************************)
(* The rate-limiting prefetch pool of prefetch/quota_prefetch.cc.          *)
(*                                                                         *)
(* Check and OnResponse hold mutex_ from their first to their last line,   *)
(* so each is one action.  The transport never answers inside Check (the   *)
(* answer needs mutex_): an issued prefetch waits in outstanding and is    *)
(* answered later, in any order, fully, partly, not at all or with the     *)
(* network-failure amount -1.  Time is in units of the smallest interval   *)
(* that matters and never runs backwards (quota_prefetch.h).               *)
(***************************************************************************)
EXTENDS Integers, Sequences, CircularQueueOps, TimeBasedCounterOps, SequencesExt

CONSTANTS
  Amounts,        \* amounts passed to Check
  MinPrefetch,    \* options_.min_prefetch_amount
  CloseWait,      \* options_.close_wait_window
  MaxExpiration,  \* kMaxExpirationInMs
  Expirations,    \* expirations the server may grant
  InitQueueSize,  \* kInitQueueSize
  MaxTime,        \* bound: the clock stops here
  MaxChecks       \* bound: number of calls of Check

ASSUME PrefetchAssumption ==
  /\ Amounts \subseteq Nat \ {0}
  /\ MinPrefetch \in Nat
  /\ {CloseWait, MaxExpiration, MaxTime, MaxChecks} \subseteq Nat
  /\ Expirations \subseteq Nat
  /\ InitQueueSize \in Nat \ {0}

VARIABLES
  queue, counter, mode, last_prefetch_time, inflight_count, next_slot_id,
  now,
  outstanding,  \* issued prefetches without an answer: [id, slot, req]
  issued,       \* history: number of prefetches issued so far
  checks,       \* history: number of Checks, and the latest one's result
  ledger        \* history: where every token of the pool came from and went

members == <<queue, counter, mode, last_prefetch_time, inflight_count, next_slot_id>>
vars == <<members, now, outstanding, issued, checks, ledger>>

NoSlot == [available |-> 0, expire |-> 0, id |-> 0]

MaxOf(a, b) == IF a >= b THEN a ELSE b
MinOf(a, b) == IF a <= b THEN a ELSE b
-------------------------------------------------------------------------------
(* Operations on the pool. *)

\* The available amount of one slot at time t.
LiveIn(slot, t) == IF t < slot.expire THEN slot.available ELSE 0

\* CountAvailable: the slots Iterate visits.
CountAvailable(q, t) ==
  FoldLeft(LAMBDA sum, i : sum + LiveIn(q.nodes[i], t), 0, Visited(q))

\* Mutant: an amount that takes the whole pool is refused.
CheckMoreAvailable(q, min, t) == CountAvailable(q, t) > min

CheckMinAvailable(q, min, t) == CountAvailable(q, t) >= min

FindSlotById(q, id) == {i \in ToSet(Visited(q)) : q.nodes[i].id = id}

Add(q, amount, expire, id) ==
  Push(q, [available |-> amount, expire |-> expire, id |-> id], NoSlot)

\* One iteration of the loop in Substract, on the head slot.  s.delta is what is
\* left to subtract, s.expired collects what expired slots still held.
SubstractHead(s, t) ==
  LET n == HeadItem(s.queue)
      d == MinOf(LiveIn(n, t), s.delta)
      m == [n EXCEPT !.available = @ - d]
  IN  IF s.delta = 0 THEN s
      ELSE IF LiveIn(m, t) > 0
           THEN [s EXCEPT !.queue = SetHead(@, m), !.delta = 0]
           ELSE [s EXCEPT !.queue = Pop(SetHead(@, m)), !.delta = @ - d,
                          !.expired = @ + m.available]

\* Mutant: the loop gives up at the first slot that does not cover the amount.
SubstractHeadOnly(q, delta, t) ==
  LET s == [queue |-> q, delta |-> delta, expired |-> 0]
  IN  IF q.count = 0 THEN s ELSE SubstractHead(s, t)

\* Substract: at most one iteration per slot.
Substract(q, delta, t) ==
  FoldLeft(LAMBDA s, n : SubstractHead(s, t),
           [queue |-> q, delta |-> delta, expired |-> 0],
           Contents(q))
-------------------------------------------------------------------------------
Init ==
  /\ queue = NewQueue(InitQueueSize, NoSlot)
  /\ counter = Clear(0)
  /\ mode = "OPEN"
  /\ last_prefetch_time = 0
  /\ inflight_count = 0
  /\ next_slot_id = 0
  /\ now = 0
  /\ outstanding = {}
  /\ issued = 0
  /\ checks = [made |-> 0, amount |-> 0, ok |-> TRUE]
  /\ ledger = [admitted |-> 0, expired |-> 0, granted |-> 0, forgiven |-> 0]

\* Mutant: the id is a position in the queue.
PositionId == queue.count + 1

\* ++next_slot_id_ in Add.
NewSlotId == next_slot_id + 1

\* The early return of AttemptPrefetch.
Closed == mode = "CLOSE" /\ (inflight_count > 0 \/ now - last_prefetch_time < CloseWait)

Desired == MaxOf(Count(counter, now), MinPrefetch)

NeedsPrefetch(amount) ==
  LET avail == CountAvailable(queue, now)
  IN  /\ ~Closed
      /\ \/ avail < Desired \div 2 /\ inflight_count = 0
         \/ avail < amount

UseNotGranted == CountAvailable(queue, now) = 0 /\ mode = "OPEN"

\* Check(amount, now): AttemptPrefetch and Prefetch, the counter, the decision.
Check(amount) ==
  LET prefetch == NeedsPrefetch(amount)
      req      == MaxOf(amount, Desired)
      slot     == IF prefetch /\ UseNotGranted THEN NewSlotId ELSE 0
      pool     == IF slot = 0 THEN queue ELSE Add(queue, req, now + MaxExpiration, slot)
      sub      == Substract(pool, amount, now)
      ok       == IF amount = 1 THEN sub.delta = 0 ELSE CheckMinAvailable(pool, amount, now)
      used     == amount = 1 \/ ok
  IN  /\ checks.made < MaxChecks
      /\ checks' = [made |-> checks.made + 1, amount |-> amount, ok |-> ok]
      /\ queue' = IF used THEN sub.queue ELSE pool
      /\ counter' = Inc(counter, amount, now)
      /\ next_slot_id' = IF slot = 0 THEN next_slot_id ELSE slot
      /\ ledger' = [ledger EXCEPT
                     !.admitted = @ + IF ok THEN amount ELSE 0,
                     !.expired  = @ + IF used THEN sub.expired ELSE 0]
      /\ IF prefetch
         THEN /\ last_prefetch_time' = now
              /\ inflight_count' = inflight_count + 1
              /\ issued' = issued + 1
              /\ outstanding' = outstanding \cup {[id |-> issued + 1, slot |-> slot, req |-> req]}
         ELSE UNCHANGED <<last_prefetch_time, inflight_count, issued, outstanding>>
      /\ UNCHANGED <<mode, now>>

\* Mutant: what the call's own slot paid back is taken from the others again.
SettleTwice(q, call, resp, expire) ==
  LET found == FindSlotById(q, call.slot)
      short == call.req - resp
      q1    == [q EXCEPT !.nodes = [i \in DOMAIN q.nodes |->
                  IF i \in found
                  THEN [q.nodes[i] EXCEPT !.available = @ - MinOf(@, short)]
                  ELSE q.nodes[i]]]
  IN  Substract(q1, short, now)

\* The adjustments of OnResponse to a slot that was added before it was granted.
Settle(q, call, resp, expire) ==
  LET found == FindSlotById(q, call.slot)
      short == call.req - resp
      own   == [i \in found |-> MinOf(q.nodes[i].available, short)]
      q1    == [q EXCEPT !.nodes = [i \in DOMAIN q.nodes |->
                  IF i \in found THEN [q.nodes[i] EXCEPT !.available = @ - own[i]]
                  ELSE q.nodes[i]]]
      rest  == IF found = {} THEN short ELSE short - own[CHOOSE i \in found : TRUE]
      sub   == Substract(q1, rest, now)
  IN  [sub EXCEPT !.queue.nodes = [i \in DOMAIN @ |->
         IF i \in found /\ @[i].available > 0 THEN [@[i] EXCEPT !.expire = expire]
         ELSE @[i]]]

\* OnResponse(slot, req, amount, expiration, now); amount -1 is a network failure
\* and counts as fully granted.
OnResponse(call, amount, expiration) ==
  LET resp   == IF amount = -1 THEN call.req ELSE amount
      expire == now + IF amount = -1 THEN MaxExpiration ELSE expiration
      sub    == Settle(queue, call, resp, expire)
  IN  /\ inflight_count' = inflight_count - 1
      /\ outstanding' = outstanding \ {call}
      /\ IF call.slot # 0
         THEN /\ queue' = sub.queue
              /\ ledger' = [ledger EXCEPT !.granted  = @ + resp,
                                          !.forgiven = @ + sub.delta,
                                          !.expired  = @ + sub.expired]
              /\ UNCHANGED next_slot_id
         ELSE /\ queue' = IF resp > 0 THEN Add(queue, resp, expire, NewSlotId) ELSE queue
              /\ next_slot_id' = IF resp > 0 THEN NewSlotId ELSE next_slot_id
              /\ ledger' = [ledger EXCEPT !.granted = @ + resp]
      /\ mode' = IF resp = call.req THEN "OPEN" ELSE "CLOSE"
      /\ UNCHANGED <<counter, last_prefetch_time, now, issued, checks>>

Tick == /\ now < MaxTime
        /\ now' = now + 1
        /\ UNCHANGED <<members, outstanding, issued, checks, ledger>>

Next ==
  \/ \E amount \in Amounts : Check(amount)
  \/ \E call \in outstanding :
       \/ \E amount \in 0..call.req, expiration \in Expirations :
            OnResponse(call, amount, expiration)
       \/ OnResponse(call, -1, 0)
  \/ Tick

Spec == Init /\ [][Next]_vars
-------------------------------------------------------------------------------
Slots == ToSet(Contents(queue))
Pool == FoldLeft(LAMBDA sum, s : sum + s.available, 0, Contents(queue))
Live == FoldLeft(LAMBDA sum, s : sum + LiveIn(s, now), 0, Contents(queue))
Speculative == FoldSet(LAMBDA c, sum : sum + IF c.slot # 0 THEN c.req ELSE 0, 0, outstanding)

TypeOK ==
  /\ \A s \in Slots : s.available \in Nat /\ s.expire \in Nat /\ s.id \in 1..next_slot_id
  /\ counter.tail \in SlotIndex /\ counter.count = SumFunction(counter.slots)
  /\ mode \in {"OPEN", "CLOSE"}
  /\ last_prefetch_time \in 0..now
  /\ inflight_count \in Nat
  /\ outstanding \subseteq [id : 1..issued, slot : 0..next_slot_id, req : Nat]

\* No token is created or lost between Check and OnResponse: what was admitted,
\* what expired and what is in the pool is what the server granted, what was
\* added ahead of a grant that is still awaited, and the shortfall of a refused
\* grant that the pool could not pay back (Substract's ignored return value).
TokensConserved ==
  Pool + ledger.admitted + ledger.expired =
    ledger.granted + Speculative + ledger.forgiven

\* The pool pays back a refused speculative grant before it forgives anything:
\* whenever a response leaves a shortfall unpaid, no live token is left.
ForgiveOnlyWhenDry ==
  [][ledger'.forgiven > ledger.forgiven => Live' = 0]_vars

\* Slot ids grow from head to tail, so that a slot id found by OnResponse is the
\* slot its own Prefetch added ("to detect if a Slot has been re-cycled").
SlotIdsIncrease ==
  /\ TypeOK
  /\ LET c == Contents(queue)
     IN  \A i, j \in DOMAIN c : i < j => c[i].id < c[j].id

\* A Check is refused only when the unexpired tokens do not cover the amount;
\* the exception is an exactly full ring, which Iterate reads as empty.
RefusedOnlyWhenShort ==
  [][checks'.made > checks.made /\ ~checks'.ok
       => Live < checks'.amount \/ IsFull(queue) \/ IsFull(queue')]_vars
================================================================================
