------------------------------- MODULE TcpFilter -------------------------------
(***************************************************************************)
(* The network filter of proxy/src/envoy/mixer/tcp_filter.cc (TcpInstance), *)
(* with the request handler of mixerclient/control/src/tcp: the check of a *)
(* new connection, which is not read meanwhile, and the report at its end. *)
(*                                                                         *)
(* The filter manager runs the filters in order: onNewConnection of the    *)
(* next filter follows when this one returns Continue, calls              *)
(* continueReading, or is given data to read.                              *)
(***************************************************************************)
EXTENDS MixerClientOps

CONSTANT MaxQuotas   \* quota requirements of a connection

ASSUME TcpAssumption == MaxQuotas \in Nat

VARIABLES
  opt,     \* the options of the client
  enable,  \* enable_mixer_check and enable_mixer_report of the client context
  inst,    \* the TcpInstance
  conn     \* the connection

vars == <<opt, enable, inst, conn>>

States == {"NotStarted", "Calling", "Completed", "Closed"}

NewInst ==
  [state |-> "NotStarted",
   handler |-> FALSE,      \* handler_ is set
   cancel |-> FALSE,       \* cancel_check_ holds the cancel function of the call
   call |-> NoCall,
   status |-> "OK",        \* check_status of the RequestContext
   decided |-> <<>>,       \* the statuses completeCheck was called with
   reports |-> <<>>,       \* the check statuses that were reported
   deleted |-> FALSE]

\* disabled counts readDisable of this filter; next tells whether the next
\* filter was given the connection, and in which state.
NewConn == [open |-> TRUE, disabled |-> 0, next |-> "none"]

\* Every operation works on the pair of both.
Pair == [inst |-> inst, conn |-> conn]
-------------------------------------------------------------------------------
(* Operations. *)

\* The next filter is given the connection, once.
Continued(p) ==
  [p EXCEPT !.conn.next = IF @ # "none" THEN @ ELSE IF p.conn.open THEN "open" ELSE "closed"]

\* Mutant: a check that is already answered is cancelled too.
CancelCheckAlways(p) ==
  [p EXCEPT !.inst.state = "Closed", !.inst.cancel = FALSE,
            !.inst.call = IF p.inst.cancel THEN Cancel(@) ELSE @]

CancelCheck(p) ==
  [p EXCEPT !.inst.state = "Closed", !.inst.cancel = FALSE,
            !.inst.call = IF p.inst.state = "Calling" /\ p.inst.cancel THEN Cancel(@) ELSE @]

\* The connection is closed, by either side: onEvent.
Closed(p) ==
  LET reported == p.inst.state # "Closed" /\ p.inst.handler /\ enable.report
  IN  CancelCheck([p EXCEPT !.conn.open = FALSE,
                            !.inst.reports = IF reported THEN Append(@, p.inst.status) ELSE @])

\* Mutant: only a connection that continues is read again.
CompleteCheckUnread(p, status, calling) ==
  LET done == [p EXCEPT !.inst.cancel = FALSE, !.inst.decided = Append(@, status), !.inst.state = "Completed"]
  IN  IF p.inst.state = "Closed" THEN {p}
      ELSE IF status # "OK" THEN {Closed(done)}
      ELSE IF calling THEN {done}
      ELSE {Continued([done EXCEPT !.conn.disabled = @ - 1])}

\* Mutant: an answer that comes within onNewConnection is left to its return.
CompleteCheckLater(p, status, calling) ==
  LET done == [p EXCEPT !.inst.cancel = FALSE, !.inst.decided = Append(@, status), !.inst.state = "Completed", !.conn.disabled = @ - 1]
  IN  IF p.inst.state = "Closed" \/ calling THEN {p}
      ELSE IF status # "OK" THEN {Closed(done)}
      ELSE {Continued(done)}

\* The pairs completeCheck may leave: close raises onEvent before it returns,
\* and the next filters may close the connection within continueReading.
CompleteCheck(p, status, calling) ==
  LET told == [p EXCEPT !.inst.cancel = FALSE, !.inst.decided = Append(@, status)]
      done == [told EXCEPT !.inst.state = "Completed", !.conn.disabled = @ - 1]
  IN  IF p.inst.state = "Closed" THEN {told}
      ELSE IF status # "OK" THEN {Closed(done)}
      ELSE IF calling THEN {done}
      ELSE {Continued(done), Closed(Continued(done))}

\* Mutant: the filter is called before the status is saved.
LocalOnDoneLate(p, status, calling) ==
  {[q EXCEPT !.inst.status = status] : q \in CompleteCheck(p, status, calling)}

\* The on_done of SendCheck: the status is saved, then the filter is called.
LocalOnDone(p, status, calling) ==
  CompleteCheck([p EXCEPT !.inst.status = status], status, calling)

\* What handler_->Check leaves, before its result is stored in cancel_check_.
Checked(p, check, quotas, fails) ==
  LET told == IF Told(check, quotas) THEN LocalOnDone(p, ToldStatus(check, quotas), TRUE) ELSE {p}
      placed == {[q EXCEPT !.inst.call = Place(check, quotas, fails)] : q \in told}
  IN  IF fails /\ Blocking(check, quotas)
      THEN UNION {LocalOnDone(q, AnswerStatus(opt, quotas, FALSE, "OK", {}), TRUE) : q \in placed}
      ELSE placed
-------------------------------------------------------------------------------
(* The actions. *)

Init ==
  /\ opt \in Options
  /\ enable \in [check : BOOLEAN, report : BOOLEAN]
  /\ inst = NewInst
  /\ conn = NewConn

\* onNewConnection returns: the result of Check is stored; StopIteration while
\* the check is pending, otherwise the filter manager goes on.
Return(p, remote) ==
  LET q == [p EXCEPT !.inst.cancel = remote]
  IN  IF q.inst.state = "Calling" THEN q ELSE Continued(q)

Becomes(p) == inst' = p.inst /\ conn' = p.conn

\* Mutant: the connection is read while the check is pending.
CallingReading == [Pair EXCEPT !.inst.handler = TRUE, !.inst.state = "Calling"]

Calling == [Pair EXCEPT !.inst.handler = TRUE, !.inst.state = "Calling", !.conn.disabled = @ + 1]

OnNewConnectionUnchecked ==
  /\ inst.state = "NotStarted" /\ ~enable.check
  /\ \E p \in CompleteCheck(Calling, "OK", TRUE) : Becomes(Return(p, FALSE))
  /\ UNCHANGED <<opt, enable>>

OnNewConnection ==
  /\ inst.state = "NotStarted" /\ enable.check
  /\ \E check \in CheckStates :
       \E quotas \in QuotaLists(opt, check, MaxQuotas), fails \in BOOLEAN :
         /\ fails => Remote(check, quotas)
         /\ \E p \in Checked(Calling, check, quotas, fails) : Becomes(Return(p, Remote(check, quotas)))
  /\ UNCHANGED <<opt, enable>>

\* An earlier filter has closed the connection and still let it continue.
OnNewConnectionClosed ==
  /\ inst.state = "Closed" /\ ~inst.handler /\ ~inst.deleted
  /\ Becomes(Continued([Pair EXCEPT !.inst.handler = TRUE]))
  /\ UNCHANGED <<opt, enable>>

\* Data is read and given to the filters in order: onData of this one counts
\* it and returns Continue.
OnData ==
  /\ conn.open /\ conn.disabled = 0 /\ inst.handler
  /\ Becomes(Continued(Pair))
  /\ UNCHANGED <<opt, enable>>

\* onSuccess or onFailure of the transport.
Answer(ok) ==
  LET p == [Pair EXCEPT !.inst.call.transport = "answering"]
      finished(q) == [q EXCEPT !.inst.call.transport = IF @ = "answering" THEN "done" ELSE @]
  IN  /\ inst.call.transport = "live"
      /\ \E mixer \in {"OK", "DENIED"}, refused \in SUBSET DOMAIN inst.call.quotas :
           \E q \in IF inst.call.blocking
                    THEN LocalOnDone(p, AnswerStatus(opt, inst.call.quotas, ok, mixer, refused), FALSE)
                    ELSE {p} :
             Becomes(finished(q))
      /\ UNCHANGED <<opt, enable>>

Close ==
  /\ conn.open
  /\ Becomes(Closed(Pair))
  /\ UNCHANGED <<opt, enable>>

\* The closed connection and its filters are deleted: ~TcpInstance.
Delete ==
  /\ ~conn.open /\ ~inst.deleted
  /\ LET p == CancelCheck(Pair) IN inst' = [p.inst EXCEPT !.deleted = TRUE]
  /\ UNCHANGED <<opt, enable, conn>>

Next ==
  \/ OnNewConnectionUnchecked \/ OnNewConnection \/ OnNewConnectionClosed
  \/ OnData
  \/ \E ok \in BOOLEAN : Answer(ok)
  \/ Close
  \/ Delete

\* The request to the Mixer has a time-out: see HttpFilter.
Spec == Init /\ [][Next]_vars /\ WF_vars(\E ok \in BOOLEAN : Answer(ok))
-------------------------------------------------------------------------------
(* Properties. *)

TypeOK ==
  /\ opt \in Options
  /\ DOMAIN inst = DOMAIN NewInst
  /\ inst.state \in States
  /\ inst.call.transport \in Transports \ {"answering"}
  /\ inst.status \in Statuses \ {Undecided}
  /\ ToSet(inst.decided) \union ToSet(inst.reports) \subseteq Statuses \ {Undecided}
  /\ conn.disabled \in 0 .. 1 /\ conn.next \in {"none", "open", "closed"}

\* The next filter is given an open connection only if its check was decided
\* OK, by the return of onNewConnection, by continueReading or with data read
\* from the connection; there is one decision.
NextFilterOnlyIfAllowed ==
  /\ Len(inst.decided) <= 1
  /\ conn.next = "open" => inst.decided = <<"OK">>

\* An open connection is not read exactly while its check is pending, so that
\* every readDisable(true) is undone once, on an open connection.
ReadDisabledWhileCalling ==
  TypeOK /\ (conn.open => conn.disabled = Count(inst.state = "Calling"))

\* The end of a connection cancels its transport exactly if the connection waits
\* for the answer: no transport is left that would call back a closed connection,
\* no answered one is cancelled, and a prefetch of quota never is.
CancelledIfPending ==
  /\ inst.call.transport = "live" /\ inst.call.blocking => conn.open
  /\ inst.call.transport # "misused"
  /\ inst.call.transport = "cancelled" => inst.call.blocking /\ inst.decided = <<>>

\* A connection that was checked is reported once, when it is closed, with the
\* status of its check ("Call Check at connection creation and call Report at
\* connection close"), also if the check itself closes it.
ReportedOnceAtClose ==
  /\ conn.open => inst.reports = <<>>
  /\ ~conn.open /\ enable.report /\ (inst.decided # <<>> \/ inst.call # NoCall)
       => inst.reports = <<IF inst.decided = <<>> THEN "OK" ELSE inst.decided[1]>>

\* A connection does not wait for its check for ever.
EventuallyDecided == inst.state = "Calling" ~> inst.state # "Calling"
================================================================================
