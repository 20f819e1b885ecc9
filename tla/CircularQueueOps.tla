--------------------------- MODULE CircularQueueOps ---------------------------
(***************************************************************************)
(* The circular FIFO queue of prefetch/circular_queue.h as operators on a  *)
(* record: nodes is the vector nodes_ (indices from 0), size its length,   *)
(* head, tail and count the three integers of the class.                   *)
(***************************************************************************)
EXTENDS Integers

\* CircularQueue(size): fill is the value-initialised element of the vector.
NewQueue(n, fill) ==
  [nodes |-> [i \in 0..n-1 |-> fill], size |-> n,
   head |-> 0, tail |-> 0, count |-> 0]

IsFull(q) == q.head = q.tail /\ q.count > 0

\* Mutant: the elements in front of the head are not copied behind the old end.
GrowWithoutCopy(q, fill) ==
  [q EXCEPT !.nodes = [i \in 0..2*q.size-1 |-> IF i < q.size THEN q.nodes[i] ELSE fill],
            !.size = 2 * q.size,
            !.tail = q.tail + q.size]

\* Mutant: the copy is off by one element.
GrowShifted(q, fill) ==
  [q EXCEPT !.nodes = [i \in 0..2*q.size-1 |->
                         IF i < q.size THEN q.nodes[i] ELSE q.nodes[(i + 1) % q.size]],
            !.size = 2 * q.size,
            !.tail = q.tail + q.size]

\* The resize inside Push: the vector doubles, the elements at 0..head are
\* copied behind the old end, and tail moves by the old size.
Grow(q, fill) ==
  [q EXCEPT
    !.nodes = [i \in 0..2*q.size-1 |->
                 IF i < q.size THEN q.nodes[i]
                 ELSE IF i - q.size <= q.head THEN q.nodes[i - q.size]
                 ELSE fill],
    !.size = 2 * q.size,
    !.tail = q.tail + q.size]

Store(q, v) ==
  [q EXCEPT !.nodes = [q.nodes EXCEPT ![q.tail] = v],
            !.tail  = (q.tail + 1) % q.size,
            !.count = q.count + 1]

Push(q, v, fill) == IF IsFull(q) THEN Store(Grow(q, fill), v) ELSE Store(q, v)

Pop(q) ==
  IF q.count = 0 THEN q
  ELSE [q EXCEPT !.head = (q.head + 1) % q.size, !.count = q.count - 1]

\* *Head(), when the queue is not empty.
HeadItem(q) == q.nodes[q.head]

\* *Head() = v: the caller writes through the returned pointer.
SetHead(q, v) == [q EXCEPT !.nodes = [q.nodes EXCEPT ![q.head] = v]]

\* The indices Iterate walks: from head, one at a time, until it meets tail.
Visited(q) ==
  IF q.count = 0 THEN <<>>
  ELSE [k \in 1..((q.tail - q.head) % q.size) |-> (q.head + k - 1) % q.size]

\* The elements the queue holds, oldest first.
Contents(q) == [k \in 1..q.count |-> q.nodes[(q.head + k - 1) % q.size]]
===============================================================================
