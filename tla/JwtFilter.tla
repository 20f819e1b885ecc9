------------------------------- MODULE JwtFilter -------------------------------
(***************************************************************************)
(* The HTTP filter of proxy/src/envoy/auth (JwtVerificationFilter): the    *)
(* streams of one worker thread, which share the issuers and their public  *)
(* keys, fetch the keys that are not loaded yet, and verify the token of a *)
(* request when all their fetches are answered.                            *)
(*                                                                         *)
(* A handler runs to its end before the next one of the same worker, so    *)
(* each is one action. Of jwt.cc the choice among the keys of an issuer is *)
(* kept; a text is well formed or not, and a token has the signature of    *)
(* one key.                                                                *)
(***************************************************************************)
EXTENDS FiniteSets, TLC

CONSTANTS
  Streams,
  Issuers,  \* the names of the configured issuers
  KeySets,  \* what Pubkeys::CreateFrom makes of the texts the issuers give: sets of keys
  Tokens    \* the well-formed tokens of requests

VARIABLES
  issuer,  \* the IssuerInfo objects, by name
  served,  \* history: the keys each issuer has given
  inst     \* the JwtVerificationFilter and the request of each stream

vars == <<issuer, served, inst>>

States == {"Init", "Calling", "Responded", "Complete"}
Fetches == {"none", "live", "done", "cancelled", "misused"}

\* has_pkey tells whether pkey_ is set; pkey is then its keys_, whose status is
\* OK if there are any.
NotLoaded == [failed |-> FALSE, loaded |-> FALSE, has_pkey |-> FALSE, pkey |-> {}]
BadConfig == [NotLoaded EXCEPT !.failed = TRUE]
Loaded(keys) == [failed |-> FALSE, loaded |-> TRUE, has_pkey |-> TRUE, pkey |-> keys]

\* What the constructor of IssuerInfo leaves: a bad entry, a key in the
\* configuration or in a file, or a key to be fetched.
IssuerInfos == {BadConfig, NotLoaded} \union {Loaded(keys) : keys \in KeySets}

\* The Authorization header of a request.
NoHeader == [form |-> "absent"]
Malformed == [form |-> "malformed"]
Live(token) == token.form = "jwt" /\ token.live

NewInst ==
  [state |-> "Init",
   stopped |-> FALSE,
   calling |-> {},                            \* the keys of calling_issuers_
   fetch |-> [i \in Issuers |-> "none"],      \* the request of AsyncClientCallbacks
   token |-> NoHeader,
   headers |-> "none",                        \* "none", "held" or "upstream"
   body |-> "none",                           \* the same, for data and trailers
   replied |-> FALSE,                         \* a 401 was sent
   nullKey |-> FALSE,                         \* a null pkey_ was dereferenced
   destroyed |-> FALSE]

\* Every operation of a stream works on the filter and the shared issuers.
Pair(s) == [inst |-> inst[s], issuer |-> issuer]
-------------------------------------------------------------------------------
(* Verification. *)

\* Verifier::Verify: a key id in the token selects the keys that are tried, and
\* the algorithm of a key, if given, must be that of the token.
VerifierVerify(token, keys) ==
  \E key \in keys : token.kid \in {"", key.kid} /\ key.alg \in {"", token.alg} /\ key.key = token.signer

\* Mutant: an issuer is not asked for its name.
VerifyAnyIssuer(p) ==
  LET token == p.inst.token
  IN  Live(token) /\ \E i \in Issuers : ~p.issuer[i].failed /\ token.aud /\ VerifierVerify(token, p.issuer[i].pkey)

\* Verify returns "OK".
Verify(p) ==
  LET token == p.inst.token
  IN  /\ Live(token)
      /\ \E i \in Issuers :
           /\ ~p.issuer[i].failed /\ p.issuer[i].pkey # {}
           /\ token.iss = i
           /\ token.aud
           /\ VerifierVerify(token, p.issuer[i].pkey)

\* Its loop asks the issuers that have not failed for the status of their keys.
AsksNullKey(p) == Live(p.inst.token) /\ \E i \in Issuers : ~p.issuer[i].failed /\ ~p.issuer[i].has_pkey

Cancel(fetch) == IF fetch = "live" THEN "cancelled" ELSE "misused"


OnDestroy(p) ==
  [p EXCEPT !.inst.state = "Responded",
            !.inst.fetch = [i \in Issuers |-> IF i \in p.inst.calling THEN Cancel(@[i]) ELSE @[i]],
            !.inst.destroyed = TRUE]

\* The pairs CompleteVerification may leave: the connection manager may destroy
\* the stream within sendLocalReply and within continueDecoding.
CompleteVerification(p) ==
  LET asked == [p EXCEPT !.inst.nullKey = @ \/ AsksNullKey(p)]
      replied == [asked EXCEPT !.inst.replied = TRUE]
      complete == [asked EXCEPT !.inst.state = "Complete"]
      passed(b) == IF b = "held" THEN "upstream" ELSE b
      continued == [complete EXCEPT !.inst.headers = "upstream", !.inst.body = passed(@)]
  IN  IF p.inst.state = "Responded" THEN {p}
      ELSE IF ~Verify(p) THEN {replied, OnDestroy(replied)}
      ELSE IF p.inst.stopped THEN {continued, OnDestroy(continued)}
      ELSE {complete}

\* The issuer after the answer to a fetch of its keys.
Answered(info, succeed, keys) ==
  IF succeed THEN Loaded(keys) ELSE [info EXCEPT !.failed = TRUE, !.loaded = TRUE]


ReceivePubkey(p, i, succeed, keys) ==
  LET received == [p EXCEPT !.issuer[i] = Answered(@, succeed, keys), !.inst.calling = @ \ {i}]
  IN  IF received.inst.calling = {} THEN CompleteVerification(received) ELSE {received}
-------------------------------------------------------------------------------
(* The actions. *)

Init ==
  /\ issuer \in [Issuers -> IssuerInfos]
  /\ served = [i \in Issuers |-> issuer[i].pkey]
  /\ inst = [s \in Streams |-> NewInst]

Becomes(s, p) == inst' = [inst EXCEPT ![s] = p.inst] /\ issuer' = p.issuer

\* The issuers whose key should be fetched.
ToFetch(issuers) == {i \in Issuers : ~issuers[i].failed /\ ~issuers[i].loaded}

DecodeHeadersWithout(s) ==
  /\ inst[s].headers = "none" /\ ~inst[s].destroyed
  /\ inst' = [inst EXCEPT ![s].headers = "upstream"]
  /\ UNCHANGED <<issuer, served>>

\* Call of one issuer after the other: a send that fails at once calls
\* onFailure before it returns. CompleteVerification then follows the last.
Called(p, failing) ==
  LET unloaded == ToFetch(p.issuer)
      sent == [p EXCEPT !.inst.fetch =
                          [i \in Issuers |-> IF i \notin unloaded THEN @[i] ELSE IF i \in failing THEN "done" ELSE "live"],
                        !.inst.calling = @ \ failing,
                        !.issuer = [i \in Issuers |-> IF i \in failing THEN Answered(@[i], FALSE, {}) ELSE @[i]]]
  IN  IF sent.inst.calling = {} THEN CompleteVerification(sent) ELSE {sent}

\* decodeHeaders returns: Continue, or the headers are held.
Return(p) ==
  IF p.inst.state = "Complete"
  THEN [p EXCEPT !.inst.headers = "upstream"]
  ELSE [p EXCEPT !.inst.stopped = TRUE, !.inst.headers = "held"]

DecodeHeaders(s) ==
  /\ inst[s].headers = "none" /\ ~inst[s].destroyed
  /\ \E token \in Tokens \union {Malformed}, failing \in SUBSET ToFetch(issuer) :
       \E p \in Called([Pair(s) EXCEPT !.inst.state = "Calling", !.inst.token = token,
                                       !.inst.calling = ToFetch(issuer)], failing) :
         Becomes(s, Return(p))
  /\ UNCHANGED served

\* decodeData and decodeTrailers.
DecodeData(s) ==
  /\ inst[s].headers # "none" /\ inst[s].body = "none" /\ ~inst[s].destroyed
  /\ inst' = [inst EXCEPT ![s].body = IF inst[s].state = "Calling" THEN "held" ELSE "upstream"]
  /\ UNCHANGED <<issuer, served>>

\* onSuccess with status 200, with another status, and onFailure.
OnSuccess(s, i, keys) ==
  /\ inst[s].fetch[i] = "live"
  /\ \E p \in ReceivePubkey([Pair(s) EXCEPT !.inst.fetch[i] = "done"], i, TRUE, keys) : Becomes(s, p)
  /\ served' = [served EXCEPT ![i] = @ \union keys]

OnFailure(s, i) ==
  /\ inst[s].fetch[i] = "live"
  /\ \E p \in ReceivePubkey([Pair(s) EXCEPT !.inst.fetch[i] = "done"], i, FALSE, {}) : Becomes(s, p)
  /\ UNCHANGED served

\* The stream ends: it is reset, or its response is complete.
Destroy(s) ==
  /\ ~inst[s].destroyed
  /\ Becomes(s, OnDestroy(Pair(s)))
  /\ UNCHANGED served

\* The token expires while its request waits; afterwards nothing asks.
Expire(s) ==
  /\ inst[s].state = "Calling" /\ Live(inst[s].token)
  /\ inst' = [inst EXCEPT ![s].token.live = FALSE]
  /\ UNCHANGED <<issuer, served>>

Next ==
  \E s \in Streams :
    \/ DecodeHeadersWithout(s) \/ DecodeHeaders(s) \/ DecodeData(s)
    \/ \E i \in Issuers : OnFailure(s, i) \/ \E keys \in KeySets : OnSuccess(s, i, keys)
    \/ Destroy(s)
    \/ Expire(s)

Spec == Init /\ [][Next]_vars

Symmetry == Permutations(Streams) \union Permutations(Issuers)
-------------------------------------------------------------------------------
(* Properties. *)

TypeOK ==
  /\ issuer \in [Issuers -> [failed : BOOLEAN, loaded : BOOLEAN, has_pkey : BOOLEAN, pkey : KeySets \union {{}}]]
  /\ \A s \in Streams :
       /\ DOMAIN inst[s] = DOMAIN NewInst
       /\ inst[s].state \in States /\ inst[s].fetch \in [Issuers -> Fetches]
       /\ inst[s].headers \in {"none", "held", "upstream"}

\* A request goes upstream only without an Authorization header, or with a token
\* of a configured issuer and an allowed audience that had not expired and is
\* signed by a key the issuer has given, and never after a 401; its data follow
\* the headers.
UpstreamOnlyIfVerified ==
  \A s \in Streams :
    LET token == inst[s].token
    IN  /\ inst[s].headers = "upstream" =>
             /\ ~inst[s].replied
             /\ token.form = "absent"
                \/ /\ Live(token) /\ token.aud /\ token.iss \in Issuers
                   /\ VerifierVerify(token, served[token.iss])
        /\ inst[s].body = "upstream" => inst[s].headers = "upstream"


================================================================================
