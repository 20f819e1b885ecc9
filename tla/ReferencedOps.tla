----------------------------- MODULE ReferencedOps -----------------------------
(***************************************************************************)
(* mixerclient/src/referenced.cc: which attributes an answer of the Mixer  *)
(* depends on, and the cache key made of them.                             *)
(*                                                                         *)
(* Words (attribute names, keys of string maps, values) are integers;      *)
(* Empty is the empty string, and -w is the word w with a ':' in front     *)
(* (HTTP header names such as ":path").  Attributes are a function from    *)
(* the names that are present to a value or, for the names in MapNames, to *)
(* a function from keys to values.  An attribute match of a response is    *)
(* [name, key, cond].  The MD5 of a text is the text, a sequence of words  *)
(* that are not empty and of the two delimiters.                           *)
(***************************************************************************)
EXTENDS Integers, FiniteSets, Sequences, SequencesExt

CONSTANTS
  MapNames,   \* the attributes whose value is a string map
  FirstWord,  \* the word with index 0 in the global dictionary
  Unknown     \* a word index that no dictionary holds

ASSUME WordsAssumption == MapNames \subseteq Nat \ {0} /\ FirstWord \in Nat \ {0}

Empty == 0

kDelimiter == 0
kWordDelimiter == -1
None == <<-2>>  \* Signature returned false

Text(w) == IF w < 0 THEN <<kWordDelimiter, -w>> ELSE IF w = Empty THEN <<>> ELSE <<w>>

\* Update with a word and with the delimiter.
Line(w) == Text(w) \o <<kDelimiter>>

Decodes(w) == w # Unknown

\* The index of a key that the response leaves out is 0.
DecodedKey(m) == IF m.key = Empty THEN FirstWord ELSE m.key

\* A map key is decoded only when the request has the map.
HasMap(attrs, m) == m.name \in MapNames /\ m.name \in DOMAIN attrs

AttributeRef(attrs, m) ==
  [name |-> m.name, key |-> IF HasMap(attrs, m) THEN DecodedKey(m) ELSE Empty]

\* Fill(attributes, reference) returns Fills; reference is the set matches.
Fills(attrs, matches) ==
  \A m \in matches : /\ Decodes(m.name)
                     /\ HasMap(attrs, m) => Decodes(DecodedKey(m))
                     /\ m.cond # "REGEX"

\* operator< of AttributeRef.
RefLess(r, s) == r.name < s.name \/ (r.name = s.name /\ r.key < s.key)

\* The keys of one condition, sorted; the same key may come twice, for two keys
\* of a map that the request does not have.
KeysOf(attrs, matches, cond) ==
  LET these == SetToSeq({m \in matches : m.cond = cond})
  IN  SortSeq([i \in DOMAIN these |-> AttributeRef(attrs, these[i])], RefLess)

Fill(attrs, matches) ==
  [absence |-> KeysOf(attrs, matches, "ABSENCE"), exact |-> KeysOf(attrs, matches, "EXACT")]
-------------------------------------------------------------------------------
Present(attrs, r) ==
  /\ r.name \in DOMAIN attrs
  /\ r.name \in MapNames => r.key \in DOMAIN attrs[r.name]

\* Mutant: the name of the next key is not looked at.
LastOfAll(keys, i) == Len(keys)

\* The do-while of both loops of Signature: where it leaves the index i of the
\* loop around it, with the keys of one map consumed.
LastOf(keys, i) ==
  LET last[j \in 1..Len(keys)] ==
        IF j = Len(keys) \/ keys[j + 1].name # keys[i].name THEN j ELSE last[j + 1]
  IN  last[i]

\* Mutant: an attribute that is not a map may be present.
AbsenceMatchesMaps(keys, attrs) ==
  \A i \in DOMAIN keys :
    keys[i].name \in MapNames \cap DOMAIN attrs => keys[i].key \notin DOMAIN attrs[keys[i].name]

\* The loop over absence_keys_, from its i-th key on.
AbsenceMatches(keys, attrs) ==
  LET from[i \in 1..Len(keys) + 1] ==
        IF i > Len(keys) THEN TRUE
        ELSE IF keys[i].name \notin DOMAIN attrs THEN from[i + 1]
        ELSE /\ keys[i].name \in MapNames
             /\ \A j \in i..LastOf(keys, i) : keys[j].key \notin DOMAIN attrs[keys[i].name]
             /\ from[LastOf(keys, i) + 1]
  IN  from[1]

\* What the do-while hashes of the string map smap, for its keys in the sequence keys.
MapText(keys, smap) ==
  FlattenSeq([j \in DOMAIN keys |-> Line(keys[j].key) \o Line(smap[keys[j].key])])

\* The loop over exact_keys_, from its i-th key on: what it hashes, or None.
ExactText(keys, attrs) ==
  LET Then(text, rest) == IF rest = None THEN None ELSE text \o rest
      from[i \in 1..Len(keys) + 1] ==
        IF i > Len(keys) THEN <<>>
        ELSE IF keys[i].name \notin DOMAIN attrs THEN None
        ELSE LET name  == keys[i].name
                 value == attrs[name]
                 these == SubSeq(keys, i, LastOf(keys, i))
             IN  IF name \notin MapNames THEN Then(Line(name) \o Line(value), from[i + 1])
                 ELSE IF \E j \in DOMAIN these : these[j].key \notin DOMAIN value THEN None
                 ELSE Then(Line(name) \o MapText(these, value) \o <<kDelimiter>>,
                           from[LastOf(keys, i) + 1])
  IN  from[1]

\* Signature(attributes, extra_key).
Signature(ref, attrs, extra) ==
  LET text == ExactText(ref.exact, attrs)
  IN  IF AbsenceMatches(ref.absence, attrs) /\ text # None
      THEN text \o (IF extra = Empty THEN <<>> ELSE <<extra>>) ELSE None
-------------------------------------------------------------------------------
UpdateHash(keys) ==
  FlattenSeq([i \in DOMAIN keys |->
    Line(keys[i].name) \o IF keys[i].key = Empty THEN <<>> ELSE Line(keys[i].key)])

\* Mutant: nothing stands between the keys that must be absent and the others.
HashJoined(ref) == UpdateHash(ref.absence) \o UpdateHash(ref.exact)

Hash(ref) == UpdateHash(ref.absence) \o <<kWordDelimiter>> \o UpdateHash(ref.exact)
================================================================================
