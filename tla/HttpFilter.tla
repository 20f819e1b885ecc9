------------------------------- MODULE HttpFilter -------------------------------
(***************************************************************************)
(* The HTTP filter of proxy/src/envoy/mixer/http_filter.cc (Instance), with *)
(* the request handler and the client context of mixerclient/control that  *)
(* it calls: the check of a request, its answer, and the end of the        *)
(* stream, in every order the connection manager allows.                   *)
(*                                                                         *)
(* A callback of the filter may end the stream before it returns: a local  *)
(* reply to an unfinished request resets the stream, and the connection    *)
(* manager calls onDestroy from within.  The streams of a worker share one *)
(* MixerClient and thus its statistics.                                    *)
(***************************************************************************)
EXTENDS MixerClientOps

CONSTANTS
  Stream,     \* the streams of a worker
  Flag,       \* the opaque route configurations: [control, check, report]
  MaxQuotas   \* quota requirements of a request

ASSUME HttpAssumption ==
  /\ IsFiniteSet(Stream)
  /\ Flag \subseteq [{"control", "check", "report"} -> {"on", "off", "absent"}]
  /\ MaxQuotas \in Nat

VARIABLES
  opt,    \* the options of the client
  inst,   \* per stream the Instance, with what the connection manager did
  stat    \* the statistics of the client

vars == <<opt, inst, stat>>

States == {"NotStarted", "Calling", "Complete", "Responded"}

NewInst ==
  [state |-> "NotStarted",
   flag |-> [f \in {"control", "check", "report"} |-> "absent"],
   cancel |-> FALSE,       \* cancel_check_ holds the cancel function of the call
   call |-> NoCall,
   status |-> "OK",        \* check_status of the RequestContext
   decided |-> <<>>,       \* the statuses completeCheck was called with
   byAnswer |-> FALSE,     \* the last of them came from the transport
   headers |-> "none",     \* "none", "held" in the filter, or gone "upstream"
   body |-> "none",        \* the same for data and trailers
   replied |-> FALSE,      \* a local reply was sent
   destroyed |-> FALSE,    \* onDestroy was called
   deleted |-> FALSE,      \* log was called and the Instance is gone
   report |-> "none"]      \* the check status that was reported
-------------------------------------------------------------------------------
(* The route. *)

\* check_mixer_route_flags: "on" anywhere turns a call on.
CheckDisabled(flag) == "on" \notin {flag["control"], flag["check"]}
ReportDisabled(flag) == "on" \notin {flag["control"], flag["report"]}
-------------------------------------------------------------------------------
(* Callbacks of the Instance, on its record. *)

\* Mutant: onDestroy cancels whatever the state.
OnDestroyAlways(i) ==
  [i EXCEPT !.state = "Responded", !.cancel = FALSE, !.destroyed = TRUE,
            !.call = IF i.cancel THEN Cancel(@) ELSE @]

OnDestroy(i) ==
  [i EXCEPT !.state = "Responded", !.cancel = FALSE, !.destroyed = TRUE,
            !.call = IF i.state = "Calling" /\ i.cancel THEN Cancel(@) ELSE @]

\* Mutant: an answer that comes within the call is not taken.
CompleteCheckLater(i, status, initiating) ==
  IF i.state = "Responded" \/ initiating THEN {i}
  ELSE LET j == [i EXCEPT !.decided = Append(@, status)]
       IN  IF status # "OK" THEN {[j EXCEPT !.state = "Responded", !.replied = TRUE]}
           ELSE {[j EXCEPT !.state = "Complete", !.headers = "upstream"]}

\* The instances completeCheck may leave: sendLocalReply and
\* continueDecoding may both end the stream before they return.
CompleteCheck(i, status, initiating) ==
  LET j == [i EXCEPT !.decided = Append(@, status)]
      replied == [j EXCEPT !.state = "Responded", !.replied = TRUE]
      continued == [j EXCEPT !.state = "Complete", !.headers = "upstream",
                             !.body = IF @ = "held" THEN "upstream" ELSE @]
  IN  IF i.state = "Responded" THEN {j}
      ELSE IF status # "OK" THEN {replied, OnDestroy(replied)}
      ELSE IF initiating THEN {[j EXCEPT !.state = "Complete"]}
      ELSE {continued, OnDestroy(continued)}

\* Mutant: the status is not saved in the request context.
LocalOnDoneUnsaved(i, status, initiating) == CompleteCheck(i, status, initiating)

\* The on_done of SendCheck: the status is saved, then the filter is called.
LocalOnDone(i, status, initiating) ==
  CompleteCheck([i EXCEPT !.status = status], status, initiating)
-------------------------------------------------------------------------------
(* The actions. *)

Init ==
  /\ opt \in Options
  /\ inst = [s \in Stream |-> NewInst]
  /\ stat = NoStat

\* What handler_->Check leaves of the instance, before its result is stored in
\* cancel_check_: on_done from the cache, then the transport that may fail at once.
Checked(i, check, quotas, fails) ==
  LET told == IF Told(check, quotas) THEN LocalOnDone(i, ToldStatus(check, quotas), TRUE) ELSE {i}
      placed == {[j EXCEPT !.call = Place(check, quotas, fails)] : j \in told}
  IN  IF fails /\ Blocking(check, quotas)
      THEN UNION {LocalOnDone([j EXCEPT !.byAnswer = TRUE], AnswerStatus(opt, quotas, FALSE, "OK", {}), TRUE) : j \in placed}
      ELSE placed

\* decodeHeaders returns: the cancel function is stored, and the headers go
\* on if the check is complete.
Return(i, remote) ==
  [i EXCEPT !.cancel = remote, !.headers = IF i.state = "Complete" THEN "upstream" ELSE "held"]

DecodeHeadersUnchecked(s, flag) ==
  /\ inst[s].headers = "none" /\ ~inst[s].destroyed
  /\ CheckDisabled(flag)
  /\ \E j \in CompleteCheck([inst[s] EXCEPT !.state = "Calling", !.flag = flag], "OK", TRUE) :
       inst' = [inst EXCEPT ![s] = Return(j, FALSE)]
  /\ UNCHANGED <<opt, stat>>

DecodeHeaders(s, flag) ==
  /\ inst[s].headers = "none" /\ ~inst[s].destroyed
  /\ ~CheckDisabled(flag)
  /\ \E check \in CheckStates :
       \E quotas \in QuotaLists(opt, check, MaxQuotas), fails \in BOOLEAN :
         /\ fails => Remote(check, quotas)
         /\ \E j \in Checked([inst[s] EXCEPT !.state = "Calling", !.flag = flag], check, quotas, fails) :
              inst' = [inst EXCEPT ![s] = Return(j, Remote(check, quotas))]
         /\ stat' = CountCall(stat, check, quotas)
  /\ UNCHANGED opt

\* Mutant: data is passed on whatever the state.
DecodedFreely(i) == "upstream"

\* decodeData and decodeTrailers: held back while the check is pending.
Decoded(i) == IF i.state = "Calling" THEN "held" ELSE "upstream"

\* The connection manager drops what comes after a local reply.
DecodeData(s) ==
  /\ inst[s].headers # "none" /\ ~inst[s].replied /\ ~inst[s].destroyed
  /\ inst' = [inst EXCEPT ![s].body = Decoded(inst[s])]
  /\ UNCHANGED <<opt, stat>>

\* onSuccess or onFailure of the transport: the callback of Check, which
\* calls on_done if the caller is held back, then the transport is deleted.
Answer(s, ok) ==
  LET i == [inst[s] EXCEPT !.call.transport = "answering"]
      finished(j) == [j EXCEPT !.call.transport = IF @ = "answering" THEN "done" ELSE @]
  IN  /\ inst[s].call.transport = "live"
      /\ \E mixer \in {"OK", "DENIED"}, refused \in SUBSET DOMAIN i.call.quotas :
           \E j \in IF i.call.blocking
                    THEN LocalOnDone([i EXCEPT !.byAnswer = TRUE],
                                     AnswerStatus(opt, i.call.quotas, ok, mixer, refused), FALSE)
                    ELSE {i} :
             inst' = [inst EXCEPT ![s] = finished(j)]
      /\ UNCHANGED <<opt, stat>>

\* The connection manager ends the stream: a reset, a time-out or its end.
Destroy(s) ==
  /\ ~inst[s].destroyed
  /\ inst' = [inst EXCEPT ![s] = OnDestroy(@)]
  /\ UNCHANGED <<opt, stat>>

\* The stream is deleted: log reports, with a handler of the default route if
\* the filter saw no headers, unless there were none at all.
Log(s) ==
  /\ inst[s].destroyed /\ ~inst[s].deleted
  /\ \E enabled \in IF inst[s].headers = "none" THEN BOOLEAN ELSE {~ReportDisabled(inst[s].flag)} :
       inst' = [inst EXCEPT ![s].deleted = TRUE,
                            ![s].report = IF enabled THEN inst[s].status ELSE "none"]
  /\ UNCHANGED <<opt, stat>>

Next ==
  \E s \in Stream :
    \/ \E flag \in Flag : DecodeHeadersUnchecked(s, flag) \/ DecodeHeaders(s, flag)
    \/ DecodeData(s)
    \/ \E ok \in BOOLEAN : Answer(s, ok)
    \/ Destroy(s)
    \/ Log(s)

\* The request to the Mixer has a time-out (kGrpcRequestTimeoutMs): the
\* transport is answered some time unless it is cancelled.
Fairness == \A s \in Stream : WF_vars(\E ok \in BOOLEAN : Answer(s, ok))

Spec == Init /\ [][Next]_vars /\ Fairness
-------------------------------------------------------------------------------
(* Properties. *)

TypeOK ==
  /\ opt \in Options
  /\ stat \in [DOMAIN NoStat -> 0 .. Cardinality(Stream)]
  /\ \A s \in Stream :
       LET i == inst[s]
       IN  /\ DOMAIN i = DOMAIN NewInst
           /\ i.state \in States
           /\ i.call.transport \in Transports \ {"answering"}
           /\ i.status \in Statuses \ {Undecided}
           /\ ToSet(i.decided) \subseteq Statuses \ {Undecided}
           /\ i.headers \in {"none", "held", "upstream"} /\ i.body \in {"none", "held", "upstream"}
           /\ i.report \in (Statuses \ {Undecided}) \union {"none"}

\* A request is decided once, and only what was decided OK goes upstream: its
\* headers and its body, whether the decision comes within decodeHeaders or
\* later (completeCheck, decodeData and decodeTrailers).
UpstreamOnlyIfAllowed ==
  \A s \in Stream :
    LET i == inst[s]
    IN  /\ Len(i.decided) <= 1
        /\ "upstream" \in {i.headers, i.body} => i.decided = <<"OK">> /\ ~i.replied
        /\ i.body = "upstream" => i.headers = "upstream"

\* A transport is cancelled exactly if its stream ends while it is waited for: no
\* transport is left that would call back a destroyed filter, the cancel function
\* is not used on one that is answered or in the middle of its answer, and a call
\* made only to prefetch quota is never cancelled (onDestroy).
CancelledIfPending ==
  \A s \in Stream :
    /\ inst[s].call.transport = "live" /\ inst[s].call.blocking => ~inst[s].destroyed
    /\ inst[s].call.transport # "misused"
    /\ inst[s].call.transport = "cancelled" => inst[s].call.blocking /\ inst[s].decided = <<>>

\* If the Mixer or the check cache rejects a request, the request took nothing
\* from the quota cache: the reason Check gives for not using that cache then.
RejectedTakesNoQuota ==
  \A s \in Stream :
    \A k \in DOMAIN inst[s].call.quotas :
      inst[s].call.quotas[k].result = "Passed" => inst[s].decided \notin {<<"DENIED">>, <<"NETWORK">>}

\* The report tells what was done with the request: the status of the local
\* reply, or OK for a request that went upstream or whose check was cancelled.
ReportTellsDecision ==
  \A s \in Stream :
    LET i == inst[s]
    IN  i.report # "none" => i.report = IF i.replied THEN i.decided[1] ELSE "OK"

\* The statistics add up: a check is counted for each request whose route has
\* it on, a remote one for each transport, and a blocking one for each transport
\* that its caller waited for.
StatisticsAddUp ==
  LET calls == {s \in Stream : inst[s].call.transport # "none"}
  IN  /\ TypeOK
      /\ stat.remote = Cardinality(calls)
      /\ stat.blocking = Cardinality({s \in calls : inst[s].decided = <<>> \/ inst[s].byAnswer})
      /\ stat.check = Cardinality({s \in Stream : inst[s].headers # "none" /\ ~CheckDisabled(inst[s].flag)})

\* A request that waits for its check does not wait for ever: it goes
\* upstream, is replied to, or its stream ends.
EventuallyDecided ==
  \A s \in Stream : inst[s].headers = "held" ~>
    inst[s].headers = "upstream" \/ inst[s].replied \/ inst[s].destroyed
================================================================================
