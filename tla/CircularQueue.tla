----------------------------- MODULE CircularQueue -----------------------------
(***************************************************************************)
(* The circular queue of prefetch/circular_queue.h as a state machine: any *)
(* sequence of Push, Pop and writes through Head().                        *)
(***************************************************************************)
EXTENDS Integers, Sequences, CircularQueueOps

CONSTANTS
  Items,     \* the element type T
  Fill,      \* the value-initialised T the vector is built from
  InitSize,  \* the constructor's size argument
  MaxItems   \* bound: no Push once the queue holds this many elements

ASSUME QueueAssumption ==
  /\ InitSize \in Nat \ {0}
  /\ MaxItems \in Nat
  /\ Fill \notin Items

VARIABLE queue

Init == queue = NewQueue(InitSize, Fill)

PushItem(v) == queue.count < MaxItems /\ queue' = Push(queue, v, Fill)

PopItem == queue' = Pop(queue)

WriteHead(v) == queue.count > 0 /\ queue' = SetHead(queue, v)

Next == \/ \E v \in Items : PushItem(v) \/ WriteHead(v)
        \/ PopItem

Spec == Init /\ [][Next]_queue
-------------------------------------------------------------------------------
\* Type invariant: the indices stay inside the vector.
TypeOK ==
  /\ DOMAIN queue = {"nodes", "size", "head", "tail", "count"}
  /\ queue.size \in Nat \ {0}
  /\ queue.nodes \in [0..queue.size-1 -> Items \cup {Fill}]
  /\ queue.head \in 0..queue.size-1
  /\ queue.tail \in 0..queue.size-1
  /\ queue.count \in 0..queue.size

\* head_, tail_ and count_ describe one segment of the ring, and every node of
\* the segment was pushed: Push's resize must copy exactly the wrapped part.
RingInv ==
  /\ TypeOK
  /\ queue.tail = (queue.head + queue.count) % queue.size
  /\ \A k \in 0..queue.count-1 : queue.nodes[(queue.head + k) % queue.size] \in Items

Abstract == INSTANCE Fifo WITH items <- Contents(queue)

\* The queue implements a FIFO through every wrap-around and resize.
ImplementsFifo == Abstract!Spec
================================================================================
