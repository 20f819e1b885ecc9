-------------------------- MODULE CircularQueueProofs --------------------------
(***************************************************************************)
(* The circular queue keeps its representation invariant and implements a  *)
(* FIFO, for every element type, initial size and length.                  *)
(***************************************************************************)
EXTENDS CircularQueue, SequenceTheorems, TLAPS

\* The inductive invariant.
Inv == TypeOK /\ RingInv

\* The index of the k-th element after the head.
At(q, k) == (q.head + k) % q.size

Typed(q) ==
  /\ DOMAIN q = {"nodes", "size", "head", "tail", "count"}
  /\ q.size \in Nat \ {0}
  /\ q.nodes \in [0..q.size-1 -> Items \cup {Fill}]
  /\ q.head \in 0..q.size-1
  /\ q.tail \in 0..q.size-1
  /\ q.count \in 0..q.size

Ring(q) ==
  /\ q.tail = At(q, q.count)
  /\ \A k \in 0..q.count-1 : q.nodes[At(q, k)] \in Items

\* The index arithmetic of the ring: % only ever wraps once, because indices
\* stay below the vector's size and lengths do not exceed it.
LEMMA WrapOnce ==
  ASSUME NEW n \in Nat \ {0}, NEW x \in 0..2*n-1
  PROVE  x % n = IF x < n THEN x ELSE x - n
<1>1. CASE x < n BY <1>1
<1>2. CASE x >= n BY <1>2
<1> QED BY <1>1, <1>2

\* Where the k-th element sits, without the modulus.
LEMMA AtIs ==
  ASSUME NEW q, Typed(q), NEW k \in 0..q.size
  PROVE  At(q, k) = IF q.head + k < q.size THEN q.head + k ELSE q.head + k - q.size
<1> DEFINE n == q.size
           x == q.head + k
<1>1. n \in Nat \ {0} /\ x \in 0..2*n-1 /\ At(q, k) = x % n
  BY DEF Typed, At
<1> HIDE DEF n, x
<1>2. x % n = IF x < n THEN x ELSE x - n
  BY <1>1, WrapOnce
<1>3. At(q, k) = IF x < n THEN x ELSE x - n
  BY <1>1, <1>2
<1> QED BY <1>3 DEF n, x, Typed

\* The test at the top of Push recognises exactly the full ring.
LEMMA FullIffCount ==
  ASSUME NEW q, Typed(q), Ring(q)
  PROVE  IsFull(q) <=> q.count = q.size
<1>1. q.tail = IF q.head + q.count < q.size THEN q.head + q.count
               ELSE q.head + q.count - q.size
  BY AtIs DEF Typed, Ring
<1> QED BY <1>1 DEF Typed, IsFull

\* Storing at tail_ when there is room keeps the representation and appends.
LEMMA StoreAppends ==
  ASSUME NEW q, NEW v \in Items, Typed(q), Ring(q), q.count < q.size
  PROVE  LET s == Store(q, v)
         IN  /\ Typed(s) /\ Ring(s)
             /\ s.count = q.count + 1
             /\ \A k \in 0..q.count :
                  s.nodes[At(s, k)] = IF k < q.count THEN q.nodes[At(q, k)] ELSE v
<1> DEFINE s == Store(q, v)
<1>1. /\ DOMAIN s = {"nodes", "size", "head", "tail", "count"}
      /\ s.size = q.size
      /\ s.head = q.head
      /\ s.count = q.count + 1
      /\ s.tail = (q.tail + 1) % q.size
      /\ s.nodes = [q.nodes EXCEPT ![q.tail] = v]
  BY DEF Store, Typed
<1>2. s.tail = IF q.tail + 1 < q.size THEN q.tail + 1 ELSE 0
  <2> DEFINE n == q.size
             x == q.tail + 1
  <2>1. n \in Nat \ {0} /\ x \in 0..2*n-1 /\ x <= n /\ s.tail = x % n
    BY <1>1 DEF Typed
  <2> HIDE DEF n, x
  <2>2. x % n = IF x < n THEN x ELSE x - n
    BY <2>1, WrapOnce
  <2>3. s.tail = IF x < n THEN x ELSE 0
    BY <2>1, <2>2
  <2> QED BY <2>3 DEF n, x
<1>3. Typed(s)
  BY <1>1, <1>2 DEF Typed
<1>4. \A k \in 0..q.size : At(s, k) = At(q, k)
  BY <1>1 DEF At
<1>5. q.tail = IF q.head + q.count < q.size THEN q.head + q.count
               ELSE q.head + q.count - q.size
  BY AtIs DEF Typed, Ring
<1>6. s.tail = At(s, s.count)
  <2>1. s.count \in 0..q.size /\ At(s, s.count) = At(q, q.count + 1)
    BY <1>1, <1>4 DEF Typed
  <2>2. At(q, q.count + 1) = IF q.head + (q.count + 1) < q.size THEN q.head + (q.count + 1)
                             ELSE q.head + (q.count + 1) - q.size
    BY <1>1, <2>1, AtIs
  <2> QED BY <1>2, <1>5, <2>1, <2>2 DEF Typed
<1>7. \A k \in 0..q.count-1 : At(q, k) \in 0..q.size-1 /\ At(q, k) # q.tail
  <2> TAKE k \in 0..q.count-1
  <2>1. k \in 0..q.size
    BY DEF Typed
  <2>2. At(q, k) = IF q.head + k < q.size THEN q.head + k ELSE q.head + k - q.size
    BY <2>1, AtIs
  <2> QED BY <1>5, <2>1, <2>2 DEF Typed
<1>8. \A k \in 0..q.count :
        s.nodes[At(s, k)] = IF k < q.count THEN q.nodes[At(q, k)] ELSE v
  <2> TAKE k \in 0..q.count
  <2>1. k \in 0..q.size /\ q.count \in Nat
    BY DEF Typed
  <2>2. CASE k < q.count
    BY <1>1, <1>4, <1>7, <2>1, <2>2 DEF Typed
  <2>3. CASE k = q.count
    BY <1>1, <1>4, <2>1, <2>3 DEF Typed, Ring
  <2> QED BY <2>1, <2>2, <2>3
<1>9. Ring(s)
  <2>1. \A k \in 0..s.count-1 : s.nodes[At(s, k)] \in Items
    <3> TAKE k \in 0..s.count-1
    <3>1. k \in 0..q.count /\ q.count \in Nat
      BY <1>1 DEF Typed
    <3> QED BY <1>8, <3>1 DEF Ring
  <2> QED BY <1>6, <2>1 DEF Ring
<1> QED BY <1>1, <1>3, <1>8, <1>9

\* The resize keeps every element at its place in the order and makes room.
LEMMA GrowKeeps ==
  ASSUME NEW q, Typed(q), Ring(q), q.count = q.size
  PROVE  LET g == Grow(q, Fill)
         IN  /\ Typed(g) /\ Ring(g)
             /\ g.count = q.count /\ g.count < g.size
             /\ \A k \in 0..q.count-1 : g.nodes[At(g, k)] = q.nodes[At(q, k)]
<1> DEFINE g == Grow(q, Fill)
<1>1. /\ DOMAIN g = {"nodes", "size", "head", "tail", "count"}
      /\ g.size = 2 * q.size
      /\ g.head = q.head
      /\ g.tail = q.tail + q.size
      /\ g.count = q.count
      /\ g.nodes = [i \in 0..2*q.size-1 |->
                      IF i < q.size THEN q.nodes[i]
                      ELSE IF i - q.size <= q.head THEN q.nodes[i - q.size]
                      ELSE Fill]
  BY DEF Grow, Typed
<1>2. \A i \in 0..2*q.size-1 : g.nodes[i] \in Items \cup {Fill}
  <2> TAKE i \in 0..2*q.size-1
  <2>1. /\ i < q.size => i \in 0..q.size-1
        /\ ~(i < q.size) /\ i - q.size <= q.head => i - q.size \in 0..q.size-1
    BY DEF Typed
  <2>2. \A j \in 0..q.size-1 : q.nodes[j] \in Items \cup {Fill}
    BY DEF Typed
  <2>3. g.nodes[i] = IF i < q.size THEN q.nodes[i]
                     ELSE IF i - q.size <= q.head THEN q.nodes[i - q.size] ELSE Fill
    BY <1>1
  <2> QED BY <2>1, <2>2, <2>3
<1>3. Typed(g)
  <2>1. g.nodes \in [0..g.size-1 -> Items \cup {Fill}]
    BY <1>1, <1>2
  <2> QED BY <1>1, <2>1 DEF Typed
<1>4. \A k \in 0..q.size : At(g, k) = q.head + k
  <2> TAKE k \in 0..q.size
  <2>1. k \in 0..g.size
    BY <1>1 DEF Typed
  <2>2. At(g, k) = IF g.head + k < g.size THEN g.head + k ELSE g.head + k - g.size
    BY <1>3, <2>1, AtIs
  <2> QED BY <1>1, <2>2 DEF Typed
<1>5. q.tail = q.head
  <2>1. q.tail = IF q.head + q.count < q.size THEN q.head + q.count
                 ELSE q.head + q.count - q.size
    BY AtIs DEF Typed, Ring
  <2> QED BY <2>1 DEF Typed
<1>6. \A k \in 0..q.count-1 : g.nodes[At(g, k)] = q.nodes[At(q, k)]
  <2> TAKE k \in 0..q.count-1
  <2>1. k \in 0..q.size /\ At(g, k) = q.head + k
    BY <1>4 DEF Typed
  <2>2. At(q, k) = IF q.head + k < q.size THEN q.head + k ELSE q.head + k - q.size
    BY <2>1, AtIs
  <2>3. g.nodes[q.head + k] = IF q.head + k < q.size THEN q.nodes[q.head + k]
                              ELSE q.nodes[q.head + k - q.size]
    BY <1>1 DEF Typed
  <2> QED BY <2>1, <2>2, <2>3
<1>7. Ring(g)
  <2>1. g.tail = At(g, g.count)
    BY <1>1, <1>4, <1>5 DEF Typed
  <2> QED BY <1>1, <1>6, <2>1 DEF Ring
<1>8. g.count < g.size
  BY <1>1 DEF Typed
<1> QED BY <1>1, <1>3, <1>6, <1>7, <1>8

\* Push appends, with or without a resize.
LEMMA PushAppends ==
  ASSUME NEW q, NEW v \in Items, Typed(q), Ring(q)
  PROVE  LET p == Push(q, v, Fill)
         IN  /\ Typed(p) /\ Ring(p)
             /\ p.count = q.count + 1
             /\ \A k \in 0..q.count :
                  p.nodes[At(p, k)] = IF k < q.count THEN q.nodes[At(q, k)] ELSE v
<1>1. CASE IsFull(q)
  <2> DEFINE g == Grow(q, Fill)
  <2>1. /\ Typed(g) /\ Ring(g)
        /\ g.count = q.count /\ g.count < g.size
        /\ \A k \in 0..q.count-1 : g.nodes[At(g, k)] = q.nodes[At(q, k)]
    BY <1>1, FullIffCount, GrowKeeps
  <2> HIDE DEF g
  <2> DEFINE s == Store(g, v)
  <2>2. /\ Typed(s) /\ Ring(s)
        /\ s.count = g.count + 1
        /\ \A k \in 0..g.count :
             s.nodes[At(s, k)] = IF k < g.count THEN g.nodes[At(g, k)] ELSE v
    BY <2>1, StoreAppends
  <2>3. Push(q, v, Fill) = s
    BY <1>1 DEF Push, g
  <2> HIDE DEF s
  <2>4. q.count \in Nat
    BY DEF Typed
  <2> QED BY <2>1, <2>2, <2>3, <2>4
<1>2. CASE ~IsFull(q)
  <2>1. q.count < q.size
    BY <1>2, FullIffCount DEF Typed
  <2> QED BY <1>2, <2>1, StoreAppends DEF Push
<1> QED BY <1>1, <1>2

\* Pop drops the oldest element.
LEMMA PopDrops ==
  ASSUME NEW q, Typed(q), Ring(q), q.count > 0
  PROVE  LET p == Pop(q)
         IN  /\ Typed(p) /\ Ring(p)
             /\ p.count = q.count - 1
             /\ \A k \in 0..p.count-1 : p.nodes[At(p, k)] = q.nodes[At(q, k + 1)]
<1> DEFINE p == Pop(q)
<1>1. /\ DOMAIN p = {"nodes", "size", "head", "tail", "count"}
      /\ p.size = q.size
      /\ p.head = (q.head + 1) % q.size
      /\ p.tail = q.tail
      /\ p.count = q.count - 1
      /\ p.nodes = q.nodes
  BY DEF Pop, Typed
<1>2. p.head = IF q.head + 1 < q.size THEN q.head + 1 ELSE q.head + 1 - q.size
  <2>1. 1 \in 0..q.size /\ p.head = At(q, 1)
    BY <1>1 DEF Typed, At
  <2> QED BY <2>1, AtIs
<1>3. Typed(p)
  BY <1>1, <1>2 DEF Typed
<1>4. \A k \in 0..q.count-1 : At(p, k) = At(q, k + 1)
  <2> TAKE k \in 0..q.count-1
  <2>1. k \in 0..p.size /\ k + 1 \in 0..q.size
    BY <1>1 DEF Typed
  <2>2. At(p, k) = IF p.head + k < p.size THEN p.head + k ELSE p.head + k - p.size
    BY <1>3, <2>1, AtIs
  <2>3. At(q, k + 1) = IF q.head + (k + 1) < q.size THEN q.head + (k + 1)
                       ELSE q.head + (k + 1) - q.size
    BY <2>1, AtIs
  <2>4. /\ q.size \in Nat \ {0} /\ q.head \in 0..q.size-1
        /\ q.count \in 0..q.size /\ p.size = q.size
    BY <1>1 DEF Typed
  <2> HIDE DEF p
  <2>5. CASE q.head + 1 < q.size
    BY <1>2, <2>2, <2>3, <2>4, <2>5
  <2>6. CASE ~(q.head + 1 < q.size)
    BY <1>2, <2>2, <2>3, <2>4, <2>6
  <2> QED BY <2>5, <2>6
<1>5. Ring(p)
  <2>1. p.tail = At(p, p.count)
    BY <1>1, <1>4 DEF Ring, Typed
  <2>2. \A k \in 0..p.count-1 : p.nodes[At(p, k)] \in Items
    <3> TAKE k \in 0..p.count-1
    <3>1. k \in 0..q.count-1 /\ k + 1 \in 0..q.count-1
      BY <1>1 DEF Typed
    <3> QED BY <1>1, <1>4, <3>1 DEF Ring
  <2> QED BY <2>1, <2>2 DEF Ring
<1>6. \A k \in 0..p.count-1 : p.nodes[At(p, k)] = q.nodes[At(q, k + 1)]
  BY <1>1, <1>4 DEF Typed
<1> QED BY <1>1, <1>3, <1>5, <1>6

\* Writing through Head() changes the oldest element and no other.
LEMMA SetHeadReplaces ==
  ASSUME NEW q, NEW v \in Items, Typed(q), Ring(q), q.count > 0
  PROVE  LET s == SetHead(q, v)
         IN  /\ Typed(s) /\ Ring(s)
             /\ s.count = q.count
             /\ \A k \in 0..q.count-1 :
                  s.nodes[At(s, k)] = IF k = 0 THEN v ELSE q.nodes[At(q, k)]
<1> DEFINE s == SetHead(q, v)
<1>1. /\ DOMAIN s = {"nodes", "size", "head", "tail", "count"}
      /\ s.size = q.size
      /\ s.head = q.head
      /\ s.tail = q.tail
      /\ s.count = q.count
      /\ s.nodes = [q.nodes EXCEPT ![q.head] = v]
  BY DEF SetHead, Typed
<1>2. Typed(s)
  BY <1>1 DEF Typed
<1>3. \A k \in 0..q.count : At(s, k) = At(q, k)
  BY <1>1 DEF At
<1>4. \A k \in 0..q.count-1 : At(q, k) \in 0..q.size-1 /\ (At(q, k) = q.head <=> k = 0)
  <2> TAKE k \in 0..q.count-1
  <2>1. k \in 0..q.size
    BY DEF Typed
  <2>2. At(q, k) = IF q.head + k < q.size THEN q.head + k ELSE q.head + k - q.size
    BY <2>1, AtIs
  <2> QED BY <2>1, <2>2 DEF Typed
<1>5. \A k \in 0..q.count-1 : s.nodes[At(s, k)] = IF k = 0 THEN v ELSE q.nodes[At(q, k)]
  <2> TAKE k \in 0..q.count-1
  <2>1. k \in 0..q.count
    BY DEF Typed
  <2> QED BY <1>1, <1>3, <1>4, <2>1 DEF Typed
<1>6. Ring(s)
  <2>1. s.tail = At(s, s.count)
    BY <1>1, <1>3 DEF Ring, Typed
  <2> QED BY <1>1, <1>5, <2>1 DEF Ring
<1> QED BY <1>1, <1>2, <1>5, <1>6

\* The elements of a well-formed queue, as a sequence.
LEMMA ContentsIs ==
  ASSUME NEW q, Typed(q), Ring(q)
  PROVE  /\ Contents(q) \in Seq(Items)
         /\ Len(Contents(q)) = q.count
         /\ \A k \in 1..q.count : Contents(q)[k] = q.nodes[At(q, k - 1)]
<1>1. q.count \in Nat
  BY DEF Typed
<1>2. \A k \in 1..q.count : k - 1 \in 0..q.count-1 /\ q.head + k - 1 = q.head + (k - 1)
  BY <1>1 DEF Typed
<1>3. \A k \in 1..q.count : Contents(q)[k] = q.nodes[At(q, k - 1)]
  BY <1>2 DEF Contents, At
<1>4. \A k \in 1..q.count : q.nodes[At(q, k - 1)] \in Items
  BY <1>2 DEF Ring
<1>5. DOMAIN Contents(q) = 1..q.count /\ Contents(q) = [k \in 1..q.count |-> Contents(q)[k]]
  BY DEF Contents
<1>6. Contents(q) \in [1..q.count -> Items]
  BY <1>3, <1>4, <1>5
<1>7. Contents(q) \in Seq(Items)
  BY <1>1, <1>6, SeqDef
<1>8. Len(Contents(q)) = q.count
  BY <1>1, <1>5, <1>7, LenProperties
<1> QED BY <1>3, <1>7, <1>8

LEMMA InvIs == Inv <=> Typed(queue) /\ Ring(queue)
BY DEF Inv, TypeOK, RingInv, Typed, Ring, At

LEMMA InvIsPrimed == Inv' <=> Typed(queue') /\ Ring(queue')
BY DEF Inv, TypeOK, RingInv, Typed, Ring, At

\* Each operation of the queue is the FIFO operation on its contents.
LEMMA PushStep ==
  ASSUME Inv, NEW v \in Items, PushItem(v)
  PROVE  Inv' /\ Contents(queue)' = Append(Contents(queue), v)
<1>1. /\ Typed(queue') /\ Ring(queue')
      /\ queue'.count = queue.count + 1
      /\ \A k \in 0..queue.count :
           queue'.nodes[At(queue', k)] =
             IF k < queue.count THEN queue.nodes[At(queue, k)] ELSE v
  BY InvIs, PushAppends DEF PushItem
<1> DEFINE c == Contents(queue)
           d == Contents(queue')
<1>2. /\ c \in Seq(Items) /\ Len(c) = queue.count
      /\ \A k \in 1..queue.count : c[k] = queue.nodes[At(queue, k - 1)]
  BY InvIs, ContentsIs
<1>3. /\ d \in Seq(Items) /\ Len(d) = queue.count + 1
      /\ \A k \in 1..queue.count+1 : d[k] = queue'.nodes[At(queue', k - 1)]
  BY <1>1, ContentsIs
<1>4. queue.count \in Nat
  BY InvIs DEF Typed
<1>5. \A k \in 1..queue.count+1 : d[k] = IF k = queue.count + 1 THEN v ELSE c[k]
  <2> TAKE k \in 1..queue.count+1
  <2>1. k - 1 \in 0..queue.count /\ (k - 1 < queue.count <=> k # queue.count + 1)
    BY <1>4
  <2>2. k # queue.count + 1 => k \in 1..queue.count
    BY <1>4
  <2> QED BY <1>1, <1>2, <1>3, <2>1, <2>2
<1> HIDE DEF c, d
<1>6. d = Append(c, v)
  <2>1. /\ Append(c, v) \in Seq(Items)
        /\ Len(Append(c, v)) = queue.count + 1
        /\ \A k \in 1..queue.count+1 :
             Append(c, v)[k] = IF k = queue.count + 1 THEN v ELSE c[k]
    BY <1>2, <1>4
  <2> QED BY <1>3, <1>5, <2>1, SeqEqual
<1> QED BY <1>1, <1>6, InvIsPrimed DEF c, d

LEMMA PopStep ==
  ASSUME Inv, PopItem
  PROVE  Inv' /\ \/ Contents(queue)' = Contents(queue)
                 \/ /\ Contents(queue) # <<>>
                    /\ Contents(queue)' = Tail(Contents(queue))
<1>1. CASE queue.count = 0
  BY <1>1, InvIs, InvIsPrimed DEF PopItem, Pop
<1>2. CASE queue.count > 0
  <2>1. /\ Typed(queue') /\ Ring(queue')
        /\ queue'.count = queue.count - 1
        /\ \A k \in 0..queue'.count-1 :
             queue'.nodes[At(queue', k)] = queue.nodes[At(queue, k + 1)]
    BY <1>2, InvIs, PopDrops DEF PopItem
  <2> DEFINE c == Contents(queue)
             d == Contents(queue')
  <2>2. /\ c \in Seq(Items) /\ Len(c) = queue.count
        /\ \A k \in 1..queue.count : c[k] = queue.nodes[At(queue, k - 1)]
    BY InvIs, ContentsIs
  <2>3. /\ d \in Seq(Items) /\ Len(d) = queue.count - 1
        /\ \A k \in 1..queue.count-1 : d[k] = queue'.nodes[At(queue', k - 1)]
    BY <2>1, ContentsIs
  <2>4. queue.count \in Nat
    BY InvIs DEF Typed
  <2>5. \A k \in 1..queue.count-1 : d[k] = c[k + 1]
    <3> TAKE k \in 1..queue.count-1
    <3>1. k - 1 \in 0..queue.count-2 /\ (k - 1) + 1 = (k + 1) - 1 /\ k + 1 \in 1..queue.count
      BY <2>4
    <3>2. k - 1 \in 0..queue'.count-1
      BY <2>1, <2>4, <3>1
    <3> QED BY <2>1, <2>2, <2>3, <3>1, <3>2
  <2> HIDE DEF c, d
  <2>6. c # <<>>
    BY <1>2, <2>2, <2>4, EmptySeq
  <2>7. d = Tail(c)
    <3>1. /\ Tail(c) \in Seq(Items)
          /\ Len(Tail(c)) = queue.count - 1
          /\ \A k \in 1..queue.count-1 : Tail(c)[k] = c[k + 1]
      BY <2>2, <2>6, HeadTailProperties
    <3> QED BY <2>3, <2>5, <3>1, SeqEqual
  <2> QED BY <2>1, <2>6, <2>7, InvIsPrimed DEF c, d
<1>3. queue.count \in Nat
  BY InvIs DEF Typed
<1> QED BY <1>1, <1>2, <1>3

LEMMA WriteHeadStep ==
  ASSUME Inv, NEW v \in Items, WriteHead(v)
  PROVE  Inv' /\ /\ Contents(queue) # <<>>
                 /\ Contents(queue)' = <<v>> \o Tail(Contents(queue))
<1>1. /\ Typed(queue') /\ Ring(queue')
      /\ queue'.count = queue.count
      /\ \A k \in 0..queue.count-1 :
           queue'.nodes[At(queue', k)] = IF k = 0 THEN v ELSE queue.nodes[At(queue, k)]
  BY InvIs, SetHeadReplaces DEF WriteHead
<1> DEFINE c == Contents(queue)
           d == Contents(queue')
<1>2. /\ c \in Seq(Items) /\ Len(c) = queue.count
      /\ \A k \in 1..queue.count : c[k] = queue.nodes[At(queue, k - 1)]
  BY InvIs, ContentsIs
<1>3. /\ d \in Seq(Items) /\ Len(d) = queue.count
      /\ \A k \in 1..queue.count : d[k] = queue'.nodes[At(queue', k - 1)]
  BY <1>1, ContentsIs
<1>4. queue.count \in Nat /\ queue.count > 0
  BY InvIs DEF Typed, WriteHead
<1>5. \A k \in 1..queue.count : d[k] = IF k = 1 THEN v ELSE c[k]
  <2> TAKE k \in 1..queue.count
  <2>1. k - 1 \in 0..queue.count-1 /\ (k - 1 = 0 <=> k = 1)
    BY <1>4
  <2> QED BY <1>1, <1>2, <1>3, <2>1
<1> HIDE DEF c, d
<1>6. c # <<>>
  BY <1>2, <1>4, EmptySeq
<1>7. /\ Tail(c) \in Seq(Items)
      /\ Len(Tail(c)) = queue.count - 1
      /\ \A k \in 1..queue.count-1 : Tail(c)[k] = c[k + 1]
  BY <1>2, <1>6, HeadTailProperties
<1>8. /\ <<v>> \o Tail(c) \in Seq(Items)
      /\ Len(<<v>> \o Tail(c)) = queue.count
      /\ \A k \in 1..queue.count :
           (<<v>> \o Tail(c))[k] = IF k = 1 THEN v ELSE c[k]
  <2>1. <<v>> \in Seq(Items) /\ Len(<<v>>) = 1 /\ <<v>>[1] = v
    OBVIOUS
  <2>2. /\ <<v>> \o Tail(c) \in Seq(Items)
        /\ Len(<<v>> \o Tail(c)) = 1 + (queue.count - 1)
        /\ \A k \in 1..1 + (queue.count - 1) : (<<v>> \o Tail(c))[k] =
             IF k <= 1 THEN <<v>>[k] ELSE Tail(c)[k - 1]
    BY <1>7, <2>1, ConcatProperties
  <2>3. \A k \in 2..queue.count : k - 1 \in 1..queue.count-1 /\ (k - 1) + 1 = k
    BY <1>4
  <2> QED BY <1>4, <1>7, <2>1, <2>2, <2>3
<1>9. d = <<v>> \o Tail(c)
  BY <1>3, <1>5, <1>8, SeqEqual
<1> QED BY <1>1, <1>6, <1>9, InvIsPrimed DEF c, d

\* The constructor builds an empty, well-formed queue.
LEMMA InitStep == Init => Inv /\ Contents(queue) = <<>>
<1> SUFFICES ASSUME Init PROVE Inv /\ Contents(queue) = <<>>
  OBVIOUS
<1>1. /\ queue = [nodes |-> [i \in 0..InitSize-1 |-> Fill], size |-> InitSize,
                  head |-> 0, tail |-> 0, count |-> 0]
  BY DEF Init, NewQueue
<1>2. Typed(queue)
  BY <1>1, QueueAssumption DEF Typed
<1>3. Ring(queue)
  <2>1. 0 \in 0..queue.size /\ At(queue, 0) = 0
    BY <1>1, <1>2, AtIs, QueueAssumption
  <2> QED BY <1>1, <2>1 DEF Ring
<1>4. Contents(queue) \in Seq(Items) /\ Len(Contents(queue)) = 0
  BY <1>1, <1>2, <1>3, ContentsIs
<1>5. Contents(queue) = <<>>
  BY <1>4, EmptySeq
<1> QED BY <1>2, <1>3, <1>5, InvIs

LEMMA InvStep == Inv /\ [Next]_queue => Inv'
<1> SUFFICES ASSUME Inv, [Next]_queue PROVE Inv'
  OBVIOUS
<1>1. CASE \E v \in Items : PushItem(v)
  BY <1>1, PushStep
<1>2. CASE \E v \in Items : WriteHead(v)
  BY <1>2, WriteHeadStep
<1>3. CASE PopItem
  BY <1>3, PopStep
<1>4. CASE UNCHANGED queue
  BY <1>4 DEF Inv, TypeOK, RingInv
<1> QED BY <1>1, <1>2, <1>3, <1>4 DEF Next

\* The representation invariant of the class holds after every sequence of
\* Push, Pop and writes through Head(): head_, tail_ and count_ stay in range
\* and describe one segment of pushed elements, through every resize.
THEOREM RepresentationInvariant == Spec => [](TypeOK /\ RingInv)
<1>1. Init => Inv
  BY InitStep
<1>2. Inv /\ [Next]_queue => Inv'
  BY InvStep
<1>3. Inv => TypeOK /\ RingInv
  BY DEF Inv
<1> QED BY <1>1, <1>2, <1>3, PTL DEF Spec

\* The circular queue of circular_queue.h implements a FIFO queue: wrap-around
\* and doubling are invisible to a caller of Push, Pop and Head.
THEOREM ImplementsFifoTheorem == Spec => ImplementsFifo
<1>1. Init => Abstract!Init
  BY InitStep DEF Abstract!Init
<1>2. Inv /\ [Next]_queue => [Abstract!Next]_(Contents(queue))
  <2> SUFFICES ASSUME Inv, [Next]_queue
               PROVE  [Abstract!Next]_(Contents(queue))
    OBVIOUS
  <2>1. CASE \E v \in Items : PushItem(v)
    BY <2>1, PushStep DEF Abstract!Next, Abstract!Push
  <2>2. CASE \E v \in Items : WriteHead(v)
    BY <2>2, WriteHeadStep DEF Abstract!Next, Abstract!SetHead
  <2>3. CASE PopItem
    BY <2>3, PopStep DEF Abstract!Next, Abstract!Pop
  <2>4. CASE UNCHANGED queue
    BY <2>4 DEF Contents
  <2> QED BY <2>1, <2>2, <2>3, <2>4 DEF Next
<1>3. Spec => []Inv
  BY InitStep, InvStep, PTL DEF Spec
<1> QED BY <1>1, <1>2, <1>3, PTL DEF Spec, ImplementsFifo, Abstract!Spec
================================================================================
