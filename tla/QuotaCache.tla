------------------------------- MODULE QuotaCache -------------------------------
(***************************************************************************)
(* The quota cache, mixerclient/src/quota_cache.cc, on top of the LRU      *)
(* cache and the referenced attributes: for each quota name a pending item *)
(* that serves every request that misses, and that the first answer moves  *)
(* into the cache.  This is the case in which the check came from the      *)
(* check cache; otherwise the quota cache is not used (MixerClientOps).    *)
(*                                                                         *)
(* A CacheElem is [name, n]; what its prefetch grants is the matter of     *)
(* QuotaPrefetch, here it only may or may not ask for more.  Every         *)
(* operation runs under cache_mutex_.                                      *)
(***************************************************************************)
EXTENDS SimpleLRUCacheOps, ReferencedOps

CONSTANTS
  Names,       \* the quotas: words
  Requests,    \* the attributes of the requests that are made
  Matches,     \* the Mixer: Requests -> referenced attributes of its answer
  NumEntries,  \* values of QuotaOptions.num_entries
  MaxIdle,     \* QuotaOptions.expiration_ms
  MaxCalls,    \* bound: remote calls in flight
  MaxPins,     \* bound: pins of an entry
  MaxTime      \* bound: the clock stops here

ASSUME QuotaAssumption ==
  /\ Empty \notin Names
  /\ NumEntries \subseteq Nat \ {0} /\ MaxIdle \in Nat
  /\ MaxCalls \in Nat /\ MaxPins \in Nat /\ MaxTime \in Nat

VARIABLES
  cache,    \* cache_
  item,     \* per element of the cache: its CacheElem, and the request that was
            \* answered when it was inserted
  pending,  \* pending_item of each quota
  refs,     \* referenced_map of each quota
  calls,    \* requests that missed and are not yet answered: (name, attributes) -> number
  now

vars == <<cache, item, pending, refs, calls, now>>

\* The references that answers fill, and the signatures under them.
RefOf == [a \in Requests |-> Fill(a, Matches[a])]
Refs  == {RefOf[a] : a \in Requests}
SigOf == [r \in Refs, a \in Requests, q \in Names |-> Signature(r, a, q)]

NoElem == [name |-> Empty, n |-> 0]
NoItem == [elem |-> NoElem, request |-> <<>>]

Owned == {item[i].elem : i \in Live(cache)} \cup {pending[q] : q \in Names}

\* new CacheElem(name).
NewElem(q) ==
  LET free == {n \in 1..Cardinality(Ids) + 1 : [name |-> q, n |-> n] \notin Owned}
  IN  [name |-> q, n |-> CHOOSE n \in free : \A m \in free : n <= m]

Init == /\ cache \in {NewCache(n, MaxIdle, TRUE) : n \in NumEntries}
        /\ item = [i \in Ids |-> NoItem]
        /\ pending = [q \in Names |-> NoElem]
        /\ refs = [q \in Names |-> {}]
        /\ calls = [c \in Names \X Requests |-> 0]
        /\ now = 0

\* The cache becomes c; a CacheElem is deleted with its element.
Becomes(c, items) ==
  /\ \A i \in Live(c) : c.el[i].pin <= MaxPins
  /\ cache' = c
  /\ item' = [i \in Ids |-> IF i \in Live(c) THEN items[i] ELSE NoItem]
-------------------------------------------------------------------------------
(* Looking up. *)

\* A ScopedLookup of sig: the cache after it, and what it found.  A null pointer
\* in the cache counts as not found, and its pin is not released.
Scoped(c, sig) ==
  LET v == Found(c, sig, now)
      d == Lookup(c, sig, TRUE, now)
  IN  [found |-> v, cache |-> IF v = Nil THEN d ELSE Release(d, sig, v, TRUE, now)]

\* The loop over the references, in the order of the hash map.
Search(order, a, q) ==
  FoldLeft(LAMBDA s, sig : IF s.found # Nil \/ sig = None THEN s ELSE Scoped(s.cache, sig),
           [found |-> Nil, cache |-> cache], [i \in DOMAIN order |-> SigOf[order[i], a, q]])

PendingOf(q) == IF pending[q] = NoElem THEN NewElem(q) ELSE pending[q]

InFlight == FoldFunction(LAMBDA x, y : x + y, 0, calls)

\* CheckCache finds an item and charges it; its prefetch may make a call, whose
\* answer does not come back to the cache.
CheckHit(q, a) ==
  \E order \in SetToSeqs(refs[q]) :
    LET s == Search(order, a, q)
    IN  /\ s.found # Nil
        /\ Becomes(s.cache, item)
        /\ UNCHANGED <<pending, refs, calls, now>>

\* CheckCache finds none: the pending item is charged, and the answer of the
\* Mixer will be given to SetResponse.
CheckMiss(q, a) ==
  \E order \in SetToSeqs(refs[q]) :
    LET s == Search(order, a, q)
    IN  /\ InFlight < MaxCalls
        /\ s.found = Nil
        /\ Becomes(s.cache, item)
        /\ pending' = [pending EXCEPT ![q] = PendingOf(q)]
        /\ calls' = [calls EXCEPT ![q, a] = @ + 1]
        /\ UNCHANGED <<refs, now>>
-------------------------------------------------------------------------------
(* Answers. *)

\* Mutant: a new reference takes the place of the ones before.
NewRefsReplace(q, ref) == {ref}

NewRefs(q, ref) ==
  IF \E r \in refs[q] : Hash(r) = Hash(ref) THEN refs[q] ELSE refs[q] \cup {ref}

\* Mutant: the pending item is inserted and not released.
PendingKept(q) == pending

\* pending_item.release().
PendingReleased(q) == [pending EXCEPT ![q] = NoElem]

\* The pending item goes in, or a null pointer when an earlier answer took it.
Inserted(c, q, sig) == Insert(c, sig, pending[q] = NoElem, 1, now)

\* Mutant: the answer takes no notice of an entry.
IsCachedNever(s) == FALSE

\* "Not to override the existing cache entry."
IsCached(s) == s.found # Nil

\* SetResponse with a result.
Answer(q, a) ==
  \E sig \in {SigOf[RefOf[a], a, q]} :
  LET s == Scoped(cache, sig)
      c == Inserted(s.cache, q, sig)
  IN  /\ calls[q, a] > 0
      /\ calls' = [calls EXCEPT ![q, a] = @ - 1]
      /\ IF ~Fills(a, Matches[a]) \/ sig = None THEN UNCHANGED <<cache, item, pending, refs>>
         ELSE IF IsCached(s) THEN Becomes(s.cache, item) /\ UNCHANGED <<pending, refs>>
         ELSE /\ FreeIds(s.cache) # {}
              /\ refs' = [refs EXCEPT ![q] = NewRefs(q, RefOf[a])]
              /\ pending' = PendingReleased(q)
              /\ Becomes(c, [i \in Ids |-> IF i = c.table[sig] THEN [elem |-> pending[q], request |-> a]
                                           ELSE item[i]])
      /\ UNCHANGED now

\* SetResponse without one: a transport error, or no result for this quota.
NoAnswer(q, a) ==
  /\ calls[q, a] > 0
  /\ calls' = [calls EXCEPT ![q, a] = @ - 1]
  /\ UNCHANGED <<cache, item, pending, refs, now>>

Tick == now < MaxTime /\ now' = now + 1 /\ UNCHANGED <<cache, item, pending, refs, calls>>

Next ==
  \/ \E q \in Names, a \in Requests :
       CheckHit(q, a) \/ CheckMiss(q, a) \/ Answer(q, a) \/ NoAnswer(q, a)
  \/ Tick

Spec == Init /\ [][Next]_vars
-------------------------------------------------------------------------------
(* Properties. *)

Filled == {k \in DOMAIN cache.table : cache.table[k] # Nil /\ item[cache.table[k]].elem # NoElem}
ElemAt(k) == item[cache.table[k]].elem

TypeOK ==
  /\ \A k \in DOMAIN cache.table : cache.table[k] \in Live(cache) \cup {Nil}
  /\ \A i \in Live(cache) : cache.el[i].value = Nil <=> item[i].elem = NoElem
  /\ calls \in [Names \X Requests -> 0..MaxCalls]
  /\ \A q \in Names : refs[q] \subseteq Refs

\* A CacheElem is owned once, by the pending_item of a quota or by one entry of
\* the cache, so that it is deleted once, and serves the quota it was made for: the
\* name is part of the signature under which the item is kept.
OneOwner ==
  /\ TypeOK
  /\ \A q \in Names, i \in Live(cache) : pending[q] # NoElem => item[i].elem # pending[q]
  /\ \A i, j \in Live(cache) : i # j /\ item[i].elem # NoElem => item[i].elem # item[j].elem
  /\ \A p, q \in Names : p # q /\ pending[p] # NoElem => pending[p] # pending[q]
  /\ \A q \in Names : pending[q] = NoElem \/ pending[q].name = q
  /\ \A k \in Filled : ElemAt(k).name = k[Len(k)]

\* What is cached can be found: for every item the referenced map of its quota
\* holds a reference under which the request that was answered has its signature.
EntryFindable ==
  \A k \in Filled :
    \E r \in refs[k[Len(k)]] : SigOf[r, item[cache.table[k]].request, k[Len(k)]] = k

\* The prefetched amount of an item is not thrown away by an answer that comes
\* late: an entry leaves the cache by eviction, or when it was idle for too long,
\* and is not replaced before that.
NotReplaced ==
  [][\A k \in Filled : \/ cache'.table[k] = Nil
                      \/ ElemAt(k)' = ElemAt(k)
                      \/ now - cache.el[cache.table[k]].last > MaxIdle]_vars
================================================================================
