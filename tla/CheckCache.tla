------------------------------- MODULE CheckCache -------------------------------
(***************************************************************************)
(* The check cache, mixerclient/src/check_cache.cc, on top of the LRU      *)
(* cache and the referenced attributes, with the callers its header        *)
(* describes: a caller that misses asks the Mixer and hands the answer to  *)
(* the cache.                                                              *)
(*                                                                         *)
(* The loop of Check visits the referenced attributes in any order, and    *)
(* takes the lock for one visit at a time.  Values in the LRU cache are    *)
(* ids; elem holds their CacheElem.                                        *)
(***************************************************************************)
EXTENDS SimpleLRUCacheOps, ReferencedOps

CONSTANTS
  Threads,
  Requests,    \* the attributes of the requests that are made
  Policy,      \* the Mixer: Requests -> [status, matches]
  Lifetimes,   \* [duration, uses] the Mixer gives an answer
  FailOpen,    \* CheckOptions.network_fail_open
  MaxSent,     \* per value of CheckOptions.num_entries, bound: remote calls in flight
  MaxTime      \* bound: the clock stops here

Forever == -1  \* a duration that is not set; an expiry that never comes

\* The requests a and b agree on what m is about.
Agree(a, b, m) ==
  /\ Present(a, m) = Present(b, m)
  /\ Present(a, m) => IF m.name \in MapNames THEN a[m.name][m.key] = b[m.name][m.key]
                      ELSE a[m.name] = b[m.name]

\* The Mixer answers alike whatever it did not look at.
ASSUME PolicyAssumption ==
  \A a, b \in Requests :
    (\A m \in Policy[a].matches : Agree(a, b, m)) => Policy[a].status = Policy[b].status

\* The references that answers fill, and the signatures under them.
RefOf == [a \in Requests |-> Fill(a, Policy[a].matches)]
SigOf == [r \in {RefOf[a] : a \in Requests}, a \in Requests |-> Signature(r, a, Empty)]

ASSUME CheckAssumption ==
  /\ \A n \in DOMAIN MaxSent : n \in Nat /\ Cardinality(Ids) > n /\ MaxSent[n] \in Nat
  /\ FailOpen \in BOOLEAN /\ MaxTime \in Nat

VARIABLES
  cache,   \* cache_
  elem,    \* the CacheElem of each id, with the lifetime and request it was last
           \* set for, when, and how often it was used since if that is limited
  refs,    \* referenced_map_
  call,    \* what each thread does
  sent,    \* requests sent to the Mixer and not yet answered
  result,  \* history: what each thread was last given, if it was a hit
  now

vars == <<cache, elem, refs, call, sent, result, now>>

Enabled == cache.maxUnits > 0
Idle == [pc |-> "idle"]

ConvertRpcStatus(status) == IF status = "INTERNAL" /\ FailOpen THEN "OK" ELSE status

IsCacheHit(status) == status \notin {"NOT_FOUND", "UNAVAILABLE"}
-------------------------------------------------------------------------------
(* CacheElem. *)


SetResponse(e, a, life) ==
  [status |-> ConvertRpcStatus(Policy[a].status),
   expire |-> IF life.duration = Forever THEN Forever ELSE now + life.duration,
   uses |-> life.uses,
   life |-> life, request |-> a, set |-> now, used |-> 0]

\* IsExpired; Use is what it does to a CacheElem that is not expired.
IsExpired(e, t) == (e.expire # Forever /\ t > e.expire) \/ e.uses = 0

Use(e) == [e EXCEPT !.uses = IF @ > 0 THEN @ - 1 ELSE @, 
                    !.used = IF e.life.uses >= 0 THEN @ + 1 ELSE @]

NoElem == [status |-> "NONE", used |-> 0, uses |-> 0]
-------------------------------------------------------------------------------
Init == /\ cache \in {NewCache(n, -1, TRUE) : n \in DOMAIN MaxSent}
        /\ elem = [i \in Ids |-> NoElem]
        /\ refs = {}
        /\ call = [th \in Threads |-> Idle]
        /\ sent = [a \in Requests |-> 0]
        /\ result = [th \in Threads |-> Idle]
        /\ now = 0

\* elem becomes e; a CacheElem is deleted with its Elem.
Elems(e) == elem' = [i \in Ids |-> IF i \in Live(cache') THEN e[i] ELSE NoElem]

InFlight == FoldFunction(LAMBDA x, y : x + y, 0, sent)

StartCheck(th, a) ==
  /\ call[th] = Idle
  /\ InFlight + Cardinality({x \in Threads : call[x] # Idle}) < MaxSent[cache.maxUnits]
  /\ call' = [call EXCEPT ![th] = [pc |-> "visit", attrs |-> a, at |-> now,
                                   todo |-> IF Enabled THEN refs ELSE {}]]
  /\ result' = [result EXCEPT ![th] = Idle]
  /\ UNCHANGED <<cache, elem, refs, sent, now>>

\* Check returns status, found in e through the reference via: a miss makes the
\* caller ask the Mixer.
Return(th, status, e, via) ==
  LET a == call[th].attrs
  IN  /\ call' = [call EXCEPT ![th] = Idle]
      /\ result' = [result EXCEPT ![th] =
           IF IsCacheHit(status)
           THEN [pc |-> "hit", attrs |-> a, status |-> status, at |-> call[th].at, by |-> e, via |-> via]
           ELSE Idle]
      /\ sent' = IF IsCacheHit(status) THEN sent ELSE [sent EXCEPT ![a] = @ + 1]

\* Mutant: the scope does not release an element that was removed inside it.
LeaveRemoved(c, sig, i) == IF c.table[sig] = Nil THEN c ELSE Release(c, sig, i, TRUE, now)

\* ~ScopedLookup.
Leave(c, sig, i) == Release(c, sig, i, TRUE, now)

\* One round of the loop, for the reference r.
Visit(th, r) ==
  LET sig == SigOf[r, call[th].attrs]
      i   == Found(cache, sig, now)
      c   == Lookup(cache, sig, TRUE, now)
      Skip == /\ call' = [call EXCEPT ![th].todo = @ \ {r}]
              /\ UNCHANGED <<cache, elem, sent, result>>
  IN  /\ call[th] # Idle /\ r \in call[th].todo
      /\ \/ sig = None /\ Skip
         \/ sig # None /\ i = Nil /\ Skip
         \/ /\ sig # None /\ i # Nil /\ IsExpired(elem[i], call[th].at)
            /\ cache' = Leave(RemoveKey(c, sig), sig, i)
            /\ Return(th, "NOT_FOUND", elem[i], r)
            /\ Elems(elem)
         \/ /\ sig # None /\ i # Nil /\ ~IsExpired(elem[i], call[th].at)
            /\ elem' = [elem EXCEPT ![i] = Use(@)]
            /\ cache' = Leave(c, sig, i)
            /\ Return(th, elem[i].status, elem'[i], r)
      /\ UNCHANGED <<refs, now>>

NotFound(th) ==
  /\ call[th] # Idle /\ call[th].todo = {}
  /\ Return(th, "NOT_FOUND", NoElem, None)
  /\ UNCHANGED <<cache, elem, refs, now>>
-------------------------------------------------------------------------------
\* Mutant: a new reference takes the place of the ones before.
NewRefsReplace(ref) == {ref}

NewRefs(ref) == IF \E r \in refs : Hash(r) = Hash(ref) THEN refs ELSE refs \cup {ref}

\* CacheResponse under the lock.
Store(a, ref, sig, life) ==
  LET i == Found(cache, sig, now)
      c == Insert(cache, sig, FALSE, 1, now)
  IN  /\ refs' = NewRefs(ref)
      /\ IF i # Nil
         THEN /\ cache' = Leave(Lookup(cache, sig, TRUE, now), sig, i)
              /\ Elems([elem EXCEPT ![i] = SetResponse(@, a, life)])
         ELSE /\ cache' = c
              /\ Elems([elem EXCEPT ![c.table[sig]] = SetResponse(NoElem, a, life)])

\* The answer to a request comes in: on_response_ and CacheResponse.
Answer(th, a, life) ==
  LET ref == RefOf[a]
      sig == SigOf[ref, a]
  IN  /\ call[th] = Idle /\ sent[a] > 0
      /\ sent' = [sent EXCEPT ![a] = @ - 1]
      /\ IF Enabled /\ Fills(a, Policy[a].matches) /\ sig # None
         THEN Store(a, ref, sig, life)
         ELSE UNCHANGED <<cache, elem, refs>>
      /\ result' = [result EXCEPT ![th] = Idle]
      /\ UNCHANGED <<call, now>>

\* A transport error, or an answer without precondition: nothing is cached.
NoAnswer(th, a) ==
  /\ call[th] = Idle /\ sent[a] > 0
  /\ sent' = [sent EXCEPT ![a] = @ - 1]
  /\ result' = [result EXCEPT ![th] = Idle]
  /\ UNCHANGED <<cache, elem, refs, call, now>>

Tick == now < MaxTime /\ now' = now + 1 /\ UNCHANGED <<cache, elem, refs, call, sent, result>>

Next ==
  \/ \E th \in Threads :
       \/ \E a \in Requests : \/ StartCheck(th, a) \/ NoAnswer(th, a)
                              \/ \E life \in Lifetimes : Answer(th, a, life)
       \/ \E r \in refs : Visit(th, r)
       \/ NotFound(th)
  \/ Tick

Spec == Init /\ [][Next]_vars
-------------------------------------------------------------------------------
TypeOK ==
  /\ \A k \in DOMAIN cache.table : cache.table[k] \in Live(cache) \cup {Nil}
  /\ \A i \in Live(cache) : elem[i].uses \in Nat \cup {-1} /\ elem[i].expire \in Nat \cup {Forever}
  /\ sent \in [Requests -> 0..MaxSent[cache.maxUnits]]
  /\ \A th \in Threads : call[th] # Idle => call[th].todo \subseteq refs

\* The answer for b depends on the absence of something that a has.
NotAbsent(a, b) == \E m \in Policy[b].matches : m.cond = "ABSENCE" /\ Present(a, m)

\* The reference of the answer for b does not name a key it needs absent.
KeyLost(b) == \E m \in Policy[b].matches : m.name \in MapNames \ DOMAIN b

\* A hit agrees with the request its answer was given for on all that the answer
\* found present, and its status is the one the Mixer would give now.  The status
\* may be another only if the request has something that must be absent, and the
\* code did not see it: the entry is found through a reference with the same exact
\* and other absent keys (only exact keys enter a signature), or the absent key
\* was lost with its map (AbsenceDetected).
HitIsPolicy ==
  \A th \in Threads : result[th].pc = "hit" =>
    LET a == result[th].attrs
        b == result[th].by.request
    IN  /\ \A m \in Policy[b].matches : m.cond = "EXACT" => Agree(a, b, m)
        /\ \/ result[th].status = (IF Policy[a].status = "INTERNAL" /\ FailOpen
                                   THEN "OK" ELSE Policy[a].status)
           \/ NotAbsent(a, b) /\ (result[th].via # RefOf[b] \/ KeyLost(b))


\* What is cached can be found: for every entry, the referenced map still holds a
\* reference under which the request it answers has this signature.
EntryFindable ==
  \A k \in DOMAIN cache.table : cache.table[k] # Nil =>
    \E r \in refs : SigOf[r, elem[cache.table[k]].request] = k

\* The scoped lookups leave no pin behind, also when the element found is removed
\* inside the scope: nothing is pinned or awaits its release between the calls.
ScopesBalanced ==
  /\ TypeOK
  /\ cache.pinned = 0
  /\ Live(cache) = {cache.table[k] : k \in DOMAIN cache.table} \ {Nil}
================================================================================
