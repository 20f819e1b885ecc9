------------------------------- MODULE Referenced -------------------------------
(***************************************************************************)
(* The signatures of mixerclient/src/referenced.cc against their purpose:  *)
(* two requests have the same signature for a response exactly when they   *)
(* agree on every attribute the response depends on.                       *)
(*                                                                         *)
(* One request, answered, is answered; matches is what its response says   *)
(* it depends on.  later is any other request, reached from the first by   *)
(* changing one attribute at a time.                                       *)
(***************************************************************************)
EXTENDS ReferencedOps

CONSTANTS
  ScalarNames,  \* the other attributes
  MapKeys,      \* the keys of the string maps
  Values        \* the values of both

ASSUME ScopeAssumption ==
  /\ ScalarNames \cup Values \subseteq Nat \ {0} /\ MapKeys \subseteq Int \ {Empty}
  /\ ScalarNames \cap MapNames = {} /\ Unknown \notin ScalarNames \cup MapNames

VARIABLES answered, matches, later

vars == <<answered, matches, later>>

Partial(S, T) == UNION {[D -> T] : D \in SUBSET S}

Requests ==
  {[n \in DOMAIN s \cup DOMAIN p |-> IF n \in MapNames THEN p[n] ELSE s[n]] :
     s \in Partial(ScalarNames, Values), p \in Partial(MapNames, Partial(MapKeys, Values))}

Places == {[name |-> n, key |-> Empty] : n \in ScalarNames}
          \cup {[name |-> n, key |-> k] : n \in MapNames, k \in MapKeys}

\* The Mixer reports what it found: the places it looked at, each with the
\* condition that holds in the request.
Matches(attrs, places) ==
  {[name |-> p.name, key |-> p.key,
    cond |-> IF Present(attrs, p) THEN "EXACT" ELSE "ABSENCE"] : p \in places}

Init == /\ answered \in Requests
        /\ matches \in {Matches(answered, P) : P \in SUBSET Places}
        /\ later = answered

\* The value of attrs at place r becomes v.
Put(attrs, r, v) ==
  [n \in DOMAIN attrs \cup {r.name} |->
     IF n # r.name THEN attrs[n]
     ELSE IF n \notin MapNames THEN v
     ELSE LET old == IF n \in DOMAIN attrs THEN attrs[n] ELSE <<>>
          IN  [k \in DOMAIN old \cup {r.key} |-> IF k = r.key THEN v ELSE old[k]]]

Cut(attrs, n) == [x \in DOMAIN attrs \ {n} |-> attrs[x]]

Next == /\ \/ \E r \in Places, v \in Values : later' = Put(later, r, v)
           \/ \E n \in DOMAIN later : later' = Cut(later, n)
        /\ UNCHANGED <<answered, matches>>

Spec == Init /\ [][Next]_vars
-------------------------------------------------------------------------------
Ref == Fill(answered, matches)

ValueAt(attrs, r) == IF r.name \in MapNames THEN attrs[r.name][r.key] ELSE attrs[r.name]

\* later and answered agree on m.
Agrees(m) ==
  /\ Present(answered, m) = Present(later, m)
  /\ Present(later, m) => ValueAt(later, m) = ValueAt(answered, m)

\* An answer can be stored: the references made from a request match that
\* request, whatever it holds.
AnswerIsCacheable == Fills(answered, matches) /\ Signature(Ref, answered, Empty) # None

\* Signature is the cache key it should be: a later request has the signature of
\* the answered one exactly when it agrees with it on all the response depends
\* on, if no map key was left out for want of the map; the answered one has one.
SignatureDecides ==
  /\ AnswerIsCacheable
  /\ (\A m \in matches : m.name \in MapNames => m.name \in DOMAIN answered)
     => (Signature(Ref, later, Empty) = Signature(Ref, answered, Empty)
         <=> \A m \in matches : Agrees(m))

\* Hash tells apart the references of any two answers to requests that have the
\* same string maps, so that a new one is not taken for one already in the
\* referenced map: also if a key of a map is the name of an attribute, with or
\* without a ':' in front, which the text of the hash does not mark.  With
\* different maps it does not: {m, ""}, {n, ""} and {m, "n"} are one text.
HashIdentifies ==
  DOMAIN later \cap MapNames = DOMAIN answered \cap MapNames =>
    \A P \in SUBSET Places :
      LET other == Fill(later, Matches(later, P))
      IN  Hash(other) = Hash(Ref) => other = Ref

\* referenced.h:39, "Return false if attributes are mismatched, such as
\* "absence" attributes present".
AbsenceDetected ==
  (\E m \in matches : m.cond = "ABSENCE" /\ Present(later, m))
  => Signature(Ref, later, Empty) = None
================================================================================
