--------------------------- MODULE SimpleLRUCacheOps ---------------------------
(***************************************************************************)
(* The LRU cache of utils/simple_lru_cache_inl.h as operators on a record. *)
(* An Elem is an id; el maps the live ids to their fields, next and prev   *)
(* pointers included, and Dummy to the dummy element head_.  table and      *)
(* defer map each key to an Elem or Nil.  A value is the id of the Elem it *)
(* was inserted with (an inserted object is owned by one Elem), or Nil for *)
(* a null pointer.  opt is update_eviction_order; t is the clock.          *)
(***************************************************************************)
EXTENDS Integers, FiniteSets, Sequences, FiniteSetsExt, SequencesExt

CONSTANTS Keys, Ids

ASSUME CacheAssumption == Ids \subseteq Nat \ {0} /\ IsFiniteSet(Ids)

Dummy == 0
Nil == -1

\* SimpleLRUCacheBase(total_units), and the mode and timeout set by SetTimeout.
NewCache(maxUnits, maxIdle, lru) ==
  [el |-> [i \in {Dummy} |-> [pin |-> 0, units |-> 0, next |-> Dummy, prev |-> Dummy]],
   table |-> [k \in Keys |-> Nil], defer |-> [k \in Keys |-> Nil],
   units |-> 0, pinned |-> 0,
   maxUnits |-> maxUnits, maxIdle |-> maxIdle, lru |-> lru]

Live(c) == DOMAIN c.el \ {Dummy}
FreeIds(c) == Ids \ DOMAIN c.el
NewId(c) == CHOOSE i \in FreeIds(c) : \A j \in FreeIds(c) : i <= j

IsOverfull(c) == c.units > c.maxUnits
-------------------------------------------------------------------------------
(* The lists. *)

IsLinked(c, e) == c.el[e].next # Nil

Unlink(c, e) ==
  LET p == c.el[e].prev
      n == c.el[e].next
  IN  IF ~IsLinked(c, e) THEN c
      ELSE [c EXCEPT !.el[p].next = n, !.el[n].prev = p,
                     !.el[e].prev = Nil, !.el[e].next = Nil]

Link(c, e, head) ==
  LET n == c.el[head].next
  IN  [c EXCEPT !.el[e].next = n, !.el[e].prev = head,
                !.el[n].prev = e, !.el[head].next = e]

\* The elements met from h along prev until h comes round again, h excluded.
Before(c, h) ==
  LET from[e \in DOMAIN c.el] == IF e = h THEN <<>> ELSE <<e>> \o from[c.el[e].prev]
  IN  from[c.el[h].prev]

\* The LRU list, least recently used first: the order of GarbageCollect.
Oldest(c) == Before(c, Dummy)

\* The deferred elements of k, in the order Release searches them.
Deferred(c, k) ==
  IF c.defer[k] = Nil THEN <<>> ELSE Append(Before(c, c.defer[k]), c.defer[k])
-------------------------------------------------------------------------------
(* Removal. *)

Discard(c, e) ==
  [c EXCEPT !.units = @ - c.el[e].units,
            !.el = [i \in DOMAIN c.el \ {e} |-> c.el[i]]]

\* Mutant: a pinned element is discarded with the others.
RemoveElemNow(c, e) == Discard(Unlink(c, e), e)

\* Remove(Elem*).
RemoveElem(c, e) ==
  LET u == Unlink(c, e)
      k == c.el[e].key
      h == c.defer[k]
      p == [u EXCEPT !.pinned = @ - c.el[e].units]
  IN  IF c.el[e].pin = 0 THEN Discard(u, e)
      ELSE IF h = Nil
           THEN [p EXCEPT !.defer[k] = e, !.el[e].next = e, !.el[e].prev = e]
           ELSE Link(p, e, h)

\* Remove(const Key&).
RemoveKey(c, k) ==
  IF c.table[k] = Nil THEN c
  ELSE RemoveElem([c EXCEPT !.table[k] = Nil], c.table[k])

\* Mutant: eviction goes by the table and forgets the order of use.
GarbageCollectAny(c) ==
  FoldLeft(LAMBDA d, e : IF IsOverfull(d) /\ d.el[e].pin = 0 THEN RemoveKey(d, d.el[e].key) ELSE d,
           c, Reverse(Oldest(c)))

GarbageCollect(c) ==
  FoldLeft(LAMBDA d, e : IF IsOverfull(d) /\ d.el[e].pin = 0 THEN RemoveKey(d, d.el[e].key) ELSE d,
           c, Oldest(c))

\* The loop of DiscardIdle: it stops at the first element that is not idle.
DiscardIdle(c, t) ==
  LET old  == Oldest(c)
      Idle(n) == \A i \in 1..n : c.el[old[i]].last < t - c.maxIdle
      stop == CHOOSE n \in 0..Len(old) : Idle(n) /\ (n = Len(old) \/ ~Idle(n + 1))
  IN  FoldLeft(LAMBDA d, e : RemoveKey(d, d.el[e].key), c, SubSeq(old, 1, stop))

RemoveExpiredEntries(c, t) == IF c.maxIdle >= 0 THEN DiscardIdle(c, t) ELSE c

RemoveAll(c) == FoldSet(LAMBDA k, d : RemoveKey(d, k), c, Keys)

RemoveUnpinned(c) ==
  FoldLeft(LAMBDA d, e : IF d.el[e].pin = 0 THEN RemoveKey(d, d.el[e].key) ELSE d,
           c, Reverse(Oldest(c)))

\* Clear, whose caller holds no pin.
Clear(c) == NewCache(c.maxUnits, c.maxIdle, c.lru)
-------------------------------------------------------------------------------
(* Pinning. *)

\* LookupWithOptions returns Found(c, k, t).
Found(c, k, t) ==
  LET e == RemoveExpiredEntries(c, t).table[k]
  IN  IF e = Nil THEN Nil ELSE c.el[e].value

\* Mutant: a pinned element is taken off the list in age-based mode and stays
\* on it in LRU mode.
LookupSwapped(c, k, opt, t) ==
  LET d == RemoveExpiredEntries(c, t)
      e == d.table[k]
      u == IF d.lru THEN d ELSE Unlink(d, e)
      p == [u EXCEPT !.pinned = @ + d.el[e].units]
  IN  IF e = Nil THEN d
      ELSE IF d.el[e].pin = 0 THEN [p EXCEPT !.el[e].pin = 1]
      ELSE [d EXCEPT !.el[e].pin = @ + 1]

Lookup(c, k, opt, t) ==
  LET d == RemoveExpiredEntries(c, t)
      e == d.table[k]
      u == IF d.lru /\ opt THEN Unlink(d, e) ELSE d
      p == [u EXCEPT !.pinned = @ + d.el[e].units]
  IN  IF e = Nil THEN d
      ELSE IF d.el[e].pin = 0 THEN [p EXCEPT !.el[e].pin = 1]
      ELSE [d EXCEPT !.el[e].pin = @ + 1]

\* Release of a deferred element: the last pin discards it; when it heads the
\* deferred list of its key, the next one takes its place.
ReleaseDeferred(c, e) ==
  LET k == c.el[e].key
      p == c.el[e].prev
      d == IF c.defer[k] # e THEN c
           ELSE [c EXCEPT !.defer[k] = IF p # e THEN p ELSE Nil]
  IN  IF c.el[e].pin > 1 THEN [c EXCEPT !.el[e].pin = @ - 1]
      ELSE Discard(Unlink(d, e), e)

\* Mutant: the released element is kept although the cache is overfull.
ReleaseKept(c, k, opt, t) ==
  LET e == c.table[k]
      b == IF c.lru /\ opt THEN [c EXCEPT !.el[e].last = t] ELSE c
      d == [b EXCEPT !.el[e].pin = @ - 1]
      l == IF c.lru /\ opt THEN Link(d, e, Dummy) ELSE d
  IN  IF d.el[e].pin > 0 THEN d ELSE [l EXCEPT !.pinned = @ - c.el[e].units]

\* Release of an element of the table.
ReleaseTable(c, k, opt, t) ==
  LET e == c.table[k]
      b == IF c.lru /\ opt THEN [c EXCEPT !.el[e].last = t] ELSE c
      d == [b EXCEPT !.el[e].pin = @ - 1]
      l == IF c.lru /\ opt THEN Link(d, e, Dummy) ELSE d
      p == [l EXCEPT !.pinned = @ - c.el[e].units]
  IN  IF d.el[e].pin > 0 THEN d ELSE IF IsOverfull(p) THEN RemoveKey(p, k) ELSE p

\* ReleaseWithOptions(k, value): a deferred element with this value comes first.
Release(c, k, v, opt, t) ==
  LET match == SelectSeq(Deferred(c, k), LAMBDA e : c.el[e].value = v)
  IN  IF match # <<>> THEN ReleaseDeferred(c, match[1]) ELSE ReleaseTable(c, k, opt, t)
-------------------------------------------------------------------------------
(* Insertion. *)

InsertPinned(c, k, null, units, t) ==
  LET d == RemoveKey(c, k)
      i == NewId(d)
      f == [key |-> k, value |-> IF null THEN Nil ELSE i, pin |-> 1, units |-> units,
            last |-> t, next |-> Nil, prev |-> Nil]
      n == [d EXCEPT !.el = [j \in DOMAIN d.el \cup {i} |-> IF j = i THEN f ELSE d.el[j]],
                     !.table[k] = i, !.units = @ + units, !.pinned = @ + units]
  IN  GarbageCollect(IF c.lru THEN n ELSE Link(n, i, Dummy))

Insert(c, k, null, units, t) ==
  LET d == InsertPinned(c, k, null, units, t)
  IN  Release(d, k, d.el[d.table[k]].value, TRUE, t)

\* UpdateSize(k, value, units); v = Nil stands for value == nullptr.
UpdateSize(c, k, v, units) ==
  LET e    == c.table[k]
      hit  == e # Nil /\ (v = Nil \/ c.el[e].value = v)
      ids  == IF hit THEN {e} ELSE {i \in ToSet(Deferred(c, k)) : v = Nil \/ c.el[i].value = v}
      grow == [i \in ids |-> units - c.el[i].units]
      more == FoldFunction(LAMBDA x, y : x + y, 0, grow)
  IN  GarbageCollect(
        [c EXCEPT !.el = [i \in DOMAIN c.el |->
                            IF i \in ids THEN [c.el[i] EXCEPT !.units = units] ELSE c.el[i]],
                  !.units = @ + more,
                  !.pinned = @ + IF hit /\ c.el[e].pin > 0 THEN more ELSE 0])

SetMaxSize(c, n) == GarbageCollect([c EXCEPT !.maxUnits = n])
================================================================================
