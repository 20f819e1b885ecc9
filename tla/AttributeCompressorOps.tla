------------------------- MODULE AttributeCompressorOps -------------------------
(***************************************************************************)
(* mixerclient/src/attribute_compressor.cc and delta_update.cc: attributes *)
(* encoded with word indices and, in a batch, as differences.              *)
(*                                                                         *)
(* Words are naturals: the word at index i of the global dictionary is i.  *)
(* top is the size of the dictionary in use (top_index_).  Attributes are  *)
(* a function from names (words) to values <<value_case, v>>: v is a word  *)
(* in the case "string", a function from words to words in the case "map", *)
(* and anything that is copied as it is in the case "int64", which stands  *)
(* for the others.  Encoded attributes are a function from indices to      *)
(* values in which indices replace the words.                              *)
(***************************************************************************)
EXTENDS Integers, FiniteSets, Sequences, SequencesExt

CONSTANT BaseWords  \* kGlobalDictionaryBaseSize

ASSUME CompressorAssumption == BaseWords \in Nat

Put(f, k, v) == [x \in DOMAIN f \cup {k} |-> IF x = k THEN v ELSE f[x]]
Ascending(S) == SetToSortSeq(S, <)
-------------------------------------------------------------------------------
(* MessageDictionary: GetIndex returns Index after it made WithWord. *)

WithWord(top, words, w) ==
  IF w < top \/ w \in ToSet(words) THEN words ELSE Append(words, w)

\* Mutant: the per-message index is not kept apart from the global ones by its sign.
IndexPositive(top, words, w) == IF w < top THEN w ELSE CHOOSE i \in DOMAIN words : words[i] = w

Index(top, words, w) ==
  IF w < top THEN w ELSE -(CHOOSE i \in DOMAIN words : words[i] = w)

ShrinkToBase(top) == IF top > BaseWords THEN BaseWords ELSE top
-------------------------------------------------------------------------------
(* CompressByDict. *)

\* The words that a value adds to the message dictionary, in the order they are met.
ValueWords(value) ==
  LET v == value[2]
  IN  CASE value[1] = "int64"  -> <<>>
        [] value[1] = "string" -> <<v>>
        [] value[1] = "map"    -> FlattenSeq([i \in DOMAIN Ascending(DOMAIN v) |->
                                    LET k == Ascending(DOMAIN v)[i] IN <<v[k], k>>])

WithWords(top, words, ws) == FoldLeft(LAMBDA acc, w : WithWord(top, acc, w), words, ws)

\* value with its words w replaced by F(w).
Recoded(value, F(_)) ==
  LET v == value[2]
  IN  CASE value[1] = "int64"  -> value
        [] value[1] = "string" -> <<"string", F(v)>>
        [] value[1] = "map"    -> <<"map", [i \in {F(k) : k \in DOMAIN v} |->
                                              F(v[CHOOSE k \in DOMAIN v : F(k) = i])]>>

\* d is the state of the loop: the message words, prev_map_ and prev_set_ of the
\* delta update, and the encoded attributes so far.
CompressOne(top, d, name, value) ==
  LET named == WithWord(top, d.words, name)
      i     == Index(top, named, name)
      same  == d.delta /\ i \in DOMAIN d.prev /\ d.prev[i] = value
      words == IF same THEN named ELSE WithWords(top, named, ValueWords(value))
  IN  [d EXCEPT !.words = words,
                !.prev = IF d.delta THEN Put(@, i, value) ELSE @,
                !.left = @ \ {i},
                !.out = IF same THEN @ ELSE Put(@, i, Recoded(value, LAMBDA w : Index(top, words, w)))]

\* CompressByDict(attributes): it returns false when left is not empty.
CompressByDict(top, d, attrs) ==
  FoldLeft(LAMBDA acc, n : CompressOne(top, acc, n, attrs[n]),
           [d EXCEPT !.left = DOMAIN d.prev, !.out = <<>>],
           Ascending(DOMAIN attrs))

Fresh(delta) == [delta |-> delta, words |-> <<>>, prev |-> <<>>, left |-> {}, out |-> <<>>]

\* Compress, with the global_word_count the client sets beside it.
Compress(top, attrs) ==
  LET d == CompressByDict(top, Fresh(FALSE), attrs)
  IN  [count |-> top, words |-> d.words, attributes |-> <<d.out>>]
-------------------------------------------------------------------------------
(* BatchCompressorImpl: the request so far, and the state of the loop. *)

\* Mutant: the count declared is that of the base dictionary.
NewBatchBase(top) == [count |-> BaseWords, loop |-> Fresh(TRUE), attributes |-> <<>>]

NewBatch(top) == [count |-> top, loop |-> Fresh(TRUE), attributes |-> <<>>]

\* Mutant: attributes that are missing from the new report are not noticed.
AddDeleted(top, b, attrs) ==
  LET d == CompressByDict(top, b.loop, attrs)
  IN  [ok |-> TRUE,
       batch |-> [b EXCEPT !.loop = d, !.attributes = Append(@, d.out)]]

\* Add returns ok and leaves batch.
Add(top, b, attrs) ==
  LET d == CompressByDict(top, b.loop, attrs)
  IN  [ok |-> d.left = {},
       batch |-> [b EXCEPT !.loop = d,
                           !.attributes = IF d.left = {} THEN Append(@, d.out) ELSE @]]

Finish(b) == [count |-> b.count, words |-> b.loop.words, attributes |-> b.attributes]
-------------------------------------------------------------------------------
(* The Mixer's side. *)

DecodeWord(r, i) == IF i >= 0 THEN i ELSE r.words[-i]

DecodeOne(r, out) ==
  LET At(i) == DecodeWord(r, i)
  IN  [n \in {At(i) : i \in DOMAIN out} |-> Recoded(out[CHOOSE i \in DOMAIN out : At(i) = n], At)]

\* The attributes of a request: each one overrides the ones before it.
Decode(r) ==
  LET full[n \in 0..Len(r.attributes)] ==
        IF n = 0 THEN <<>>
        ELSE LET d == DecodeOne(r, r.attributes[n])
             IN  [x \in DOMAIN d \cup DOMAIN full[n-1] |-> IF x \in DOMAIN d THEN d[x] ELSE full[n-1][x]]
  IN  [n \in DOMAIN r.attributes |-> full[n]]

\* Every index that a request holds.
Indices(r) ==
  UNION {DOMAIN out \cup UNION {ToSet(ValueWords(out[i])) : i \in DOMAIN out} :
           out \in ToSet(r.attributes)}
================================================================================
