----------------------------- MODULE SimpleLRUCache -----------------------------
(***************************************************************************)
(* The LRU cache of utils/simple_lru_cache_inl.h as a state machine: any   *)
(* sequence of its public operations by callers that release each pin they *)
(* took, with the options they took it with, exactly once, at              *)
(* non-decreasing times.                                                   *)
(***************************************************************************)
EXTENDS SimpleLRUCacheOps, FiniteSetsExt

CONSTANTS
  Modes,     \* values of lru_: TRUE for LRU mode, FALSE for age-based mode
  Options,   \* values of update_eviction_order the callers use
  MaxIdle,   \* max_idle_, -1 for none
  Sizes,     \* units of an element
  MaxSizes,  \* arguments of SetMaxSize, and of the constructor
  MaxPins,   \* bound: pins outstanding at a time
  MaxTime    \* bound: the clock stops here

ASSUME LruAssumption ==
  /\ Modes \subseteq BOOLEAN /\ Options \subseteq BOOLEAN
  /\ MaxIdle \in Nat \cup {-1}
  /\ Sizes \subseteq Nat /\ MaxSizes \subseteq Nat
  /\ MaxPins \in Nat /\ MaxTime \in Nat

VARIABLES
  cache,
  held,  \* history: number of pins the callers hold, per element and option
  now

vars == <<cache, held, now>>

Pins(e) == held[e][TRUE] + held[e][FALSE]
AllPins == MapThenSumSet(Pins, Ids)

\* The cache becomes c; elements that are gone are held by nobody.
Becomes(c) == cache' = c /\ UNCHANGED <<held, now>>
-------------------------------------------------------------------------------
Init == /\ cache \in {NewCache(m, MaxIdle, lru) : m \in MaxSizes, lru \in Modes}
        /\ held = [e \in Ids |-> [o \in BOOLEAN |-> 0]]
        /\ now = 0

CanInsert == FreeIds(cache) # {}

DoInsert(k, u) == CanInsert /\ Becomes(Insert(cache, k, FALSE, u, now))

DoInsertPinned(k, u) ==
  LET c == InsertPinned(cache, k, FALSE, u, now)
  IN  /\ CanInsert /\ AllPins < MaxPins
      /\ cache' = c
      /\ held' = [held EXCEPT ![c.table[k]][TRUE] = @ + 1]
      /\ UNCHANGED now

DoLookup(k, opt) ==
  LET v == Found(cache, k, now)
  IN  /\ AllPins < MaxPins
      /\ cache' = Lookup(cache, k, opt, now)
      /\ held' = IF v = Nil THEN held ELSE [held EXCEPT ![v][opt] = @ + 1]
      /\ UNCHANGED now

DoRelease(e, opt) ==
  /\ held[e][opt] > 0
  /\ cache' = Release(cache, cache.el[e].key, e, opt, now)
  /\ held' = [held EXCEPT ![e][opt] = @ - 1]
  /\ UNCHANGED now

DoRemove(k) == Becomes(RemoveKey(cache, k))

DoRemoveAll == Becomes(RemoveAll(cache))

DoRemoveUnpinned == Becomes(RemoveUnpinned(cache))

\* "It is an error to call this operation if any entry is currently pinned."
DoClear == AllPins = 0 /\ Becomes(Clear(cache))

DoRemoveExpired == Becomes(RemoveExpiredEntries(cache, now))

DoUpdateSize(k, v, u) == Becomes(UpdateSize(cache, k, v, u))

DoSetMaxSize(n) == Becomes(SetMaxSize(cache, n))

Tick == now < MaxTime /\ now' = now + 1 /\ UNCHANGED <<cache, held>>

Next ==
  \/ \E k \in Keys, u \in Sizes : DoInsert(k, u) \/ DoInsertPinned(k, u)
  \/ \E k \in Keys, opt \in Options : DoLookup(k, opt)
  \/ \E e \in Ids, opt \in BOOLEAN : DoRelease(e, opt)
  \/ \E k \in Keys : DoRemove(k)
  \/ \E k \in Keys, v \in Live(cache) \cup {Nil}, u \in Sizes : DoUpdateSize(k, v, u)
  \/ \E n \in MaxSizes : DoSetMaxSize(n)
  \/ DoRemoveAll \/ DoRemoveUnpinned \/ DoClear \/ DoRemoveExpired \/ Tick

Spec == Init /\ [][Next]_vars
-------------------------------------------------------------------------------
\* Keys are interchangeable.
KeySymmetry == Permutations(Keys)

InTable == {cache.table[k] : k \in Keys} \ {Nil}
InDefer == UNION {ToSet(Deferred(cache, k)) : k \in Keys}
Pinned(e) == cache.el[e].pin > 0
UnitsOf(S) == MapThenSumSet(LAMBDA e : cache.el[e].units, S)

TypeOK ==
  /\ Live(cache) \subseteq Ids
  /\ cache.table \in [Keys -> Live(cache) \cup {Nil}]
  /\ cache.defer \in [Keys -> Live(cache) \cup {Nil}]
  /\ \A e \in Live(cache) :
       /\ cache.el[e].pin \in Nat /\ cache.el[e].units \in Sizes
       /\ cache.el[e].last \in 0..now
       /\ {cache.el[e].next, cache.el[e].prev} \subseteq Live(cache) \cup {Dummy, Nil}
  /\ cache.units \in Nat /\ cache.pinned \in Nat

\* Every pointer of the doubly-linked lists is met by its inverse.
ListsAreRings ==
  \A e \in DOMAIN cache.el :
    IsLinked(cache, e) => /\ {cache.el[e].next, cache.el[e].prev} \subseteq DOMAIN cache.el
                          /\ cache.el[cache.el[e].next].prev = e
                          /\ cache.el[cache.el[e].prev].next = e

\* units_ and pinned_units_ are kept up to date by every operation.
UnitsAccounted ==
  /\ cache.units = UnitsOf(Live(cache))
  /\ cache.pinned = UnitsOf({e \in InTable : Pinned(e)})

\* The sanity check in DiscardIdle: the list is ordered by last use, so that its
\* loop may stop at the first element that is not idle.
ListOrderedByUse ==
  LET old == Oldest(cache)
  IN  \A i, j \in DOMAIN old : i < j => cache.el[old[i]].last <= cache.el[old[j]].last

\* The representation invariants of the header: every live element is either in
\* table_ or in defer_ under its own key, the ones in defer_ are pinned, and the
\* LRU list holds exactly the elements of table_ that may be removed to free
\* space (in age-based mode, all of table_), oldest first; the lists are rings and
\* the units are counted.
Representation ==
  /\ TypeOK /\ ListsAreRings /\ UnitsAccounted /\ ListOrderedByUse
  /\ InTable \cap InDefer = {}
  /\ InTable \cup InDefer = Live(cache)
  /\ \A k \in Keys : cache.table[k] # Nil => cache.el[cache.table[k]].key = k
  /\ \A k \in Keys : \A e \in ToSet(Deferred(cache, k)) : cache.el[e].key = k /\ Pinned(e)
  /\ ToSet(Oldest(cache)) = {e \in InTable : cache.lru => ~Pinned(e)}

\* A value that was looked up and not yet released is not deleted, whatever is
\* removed, replaced or evicted meanwhile: the pin count is the number of
\* outstanding releases.
HeldIsAlive ==
  \A e \in Ids : IF e \in Live(cache) THEN cache.el[e].pin = Pins(e) ELSE Pins(e) = 0

\* The cache exceeds its maximum size only by elements that are pinned.
OverfullOnlyByPinned == IsOverfull(cache) => \A e \in InTable : Pinned(e)

\* Eviction to make room takes the least recently used first: when an insertion
\* for a new key pushes out the unpinned element of another key, no unpinned
\* element that stays was used before it.
EvictsOldestFirst ==
  [][\A k, gone, stays \in Keys :
       /\ cache.table[k] = Nil /\ cache'.table[k] # Nil
       /\ cache.table[gone] # Nil /\ cache'.table[gone] = Nil
       /\ cache.table[stays] # Nil /\ cache'.table[stays] = cache.table[stays]
       /\ ~Pinned(cache.table[stays])
       => cache.el[cache.table[gone]].last <= cache.el[cache.table[stays]].last]_vars
================================================================================
