----------------------------- MODULE MixerClientOps -----------------------------
(***************************************************************************)
(* MixerClientImpl::Check of mixerclient/src/client_impl.cc with           *)
(* QuotaCache::CheckResult of quota_cache.cc, and the GrpcTransport of     *)
(* proxy/src/envoy/mixer/grpc_transport.cc: when the caller is told, what  *)
(* goes to the Mixer, and the life of the transport object.                *)
(*                                                                         *)
(* The check cache says "OK", "DENIED" or "MISS".  A quota is              *)
(* [result, call]: call is TRUE when it has a response_func, that is when  *)
(* it wants a remote call.                                                 *)
(***************************************************************************)
EXTENDS Integers, FiniteSets, Sequences, SequencesExt

CheckStates == {"OK", "DENIED", "MISS"}
Undecided == "UNAVAILABLE"  \* the status of a CheckResult that has none yet
Statuses == {"OK", "DENIED", "EXHAUSTED", "NETWORK", Undecided}

\* CheckOptions.network_fail_open, and whether QuotaOptions.num_entries > 0.
Options == [failOpen : BOOLEAN, quotaCached : BOOLEAN]

Hit(status) == status # Undecided
-------------------------------------------------------------------------------
(* Quotas. *)

\* What QuotaCache::CheckCache may find for one quota: an amount that is not
\* taken from the cache is asked of the Mixer; one that is may come with a prefetch.
QuotaStates(cached) ==
  IF cached THEN [result : {"Passed", "Rejected"}, call : BOOLEAN]
            ELSE {[result |-> "Pending", call |-> TRUE]}

\* BuildRequest: the status, and whether a remote quota call is required.
BuildStatus(quotas) ==
  IF \E q \in ToSet(quotas) : q.result = "Rejected" THEN "EXHAUSTED"
  ELSE IF \A q \in ToSet(quotas) : q.result # "Pending" THEN "OK"
  ELSE Undecided

QuotaCall(quotas) == \E q \in ToSet(quotas) : q.call

\* CheckResult::SetResponse: refused holds the quotas the Mixer answered with
\* nothing; a prefetch, an error and a missing answer reject nothing.
QuotaStatus(quotas, ok, refused) ==
  IF ok /\ \E i \in refused : quotas[i].result = "Pending" THEN "EXHAUSTED" ELSE "OK"
-------------------------------------------------------------------------------
(* Check. *)

CheckHit(check) == check # "MISS"

\* A denial in the check cache ends the call before the quotas are looked at.
Denied(check) == check = "DENIED"

\* Mutant: the quota cache is used whatever the check cache says.
UsesQuotaCacheAlways(opt, check) == opt.quotaCached

UsesQuotaCache(opt, check) == opt.quotaCached /\ CheckHit(check)

\* The quotas of a check with up to n requirements.
QuotaLists(opt, check, n) ==
  IF Denied(check) THEN {<<>>}
  ELSE UNION {[1 .. k -> QuotaStates(UsesQuotaCache(opt, check))] : k \in 0 .. n}

\* on_done is called before anything is sent.
Told(check, quotas) == Denied(check) \/ (CheckHit(check) /\ Hit(BuildStatus(quotas)))

ToldStatus(check, quotas) == IF Denied(check) THEN "DENIED" ELSE BuildStatus(quotas)

Remote(check, quotas) == ~Denied(check) /\ (~Told(check, quotas) \/ QuotaCall(quotas))

\* The request holds back its caller: on_done is still to be called.
Blocking(check, quotas) == Remote(check, quotas) /\ ~Told(check, quotas)

\* What the transport callback tells a caller that was held back: ok is the
\* transport status, mixer the Mixer's verdict when ok.
AnswerStatus(opt, quotas, ok, mixer, refused) ==
  LET check == IF ok THEN mixer ELSE IF opt.failOpen THEN "OK" ELSE "NETWORK"
  IN  IF check # "OK" THEN check ELSE QuotaStatus(quotas, ok, refused)
-------------------------------------------------------------------------------
(* Statistics. *)

NoStat == [check |-> 0, remote |-> 0, blocking |-> 0, quota |-> 0, remoteQuota |-> 0, blockingQuota |-> 0]

Count(b) == IF b THEN 1 ELSE 0

\* Mutant: a remote call whose caller was told is counted as a blocking one.
CountCallRemote(stat, check, quotas) ==
  LET q == quotas # <<>>  r == Remote(check, quotas)
  IN  [check |-> stat.check + 1,
       remote |-> stat.remote + Count(r),
       blocking |-> stat.blocking + Count(r),
       quota |-> stat.quota + Count(q),
       remoteQuota |-> stat.remoteQuota + Count(q /\ r),
       blockingQuota |-> stat.blockingQuota + Count(q /\ r)]

CountCall(stat, check, quotas) ==
  LET q == quotas # <<>>
  IN  [check |-> stat.check + 1,
       remote |-> stat.remote + Count(Remote(check, quotas)),
       blocking |-> stat.blocking + Count(Blocking(check, quotas)),
       quota |-> stat.quota + Count(q),
       remoteQuota |-> stat.remoteQuota + Count(q /\ Remote(check, quotas)),
       blockingQuota |-> stat.blockingQuota + Count(q /\ Blocking(check, quotas))]
-------------------------------------------------------------------------------
(* The transport of a call: "none" if there is none, "live" until it is    *)
(* answered or cancelled, "answering" within its callback.  "misused": it  *)
(* was cancelled when it was no longer, or not yet, to be deleted.         *)

Transports == {"none", "live", "answering", "done", "cancelled", "misused"}

NoCall == [transport |-> "none", quotas |-> <<>>, blocking |-> FALSE]

\* The transport function: a send that fails at once has called onFailure,
\* and deleted the transport, before the cancel function is returned.
Place(check, quotas, fails) ==
  [transport |-> IF ~Remote(check, quotas) THEN "none" ELSE IF fails THEN "done" ELSE "live",
   quotas |-> quotas, blocking |-> Blocking(check, quotas)]

\* Cancel: the transport deletes itself, and on_done is never called.
Cancel(call) == [call EXCEPT !.transport = IF @ = "live" THEN "cancelled" ELSE "misused"]
================================================================================
