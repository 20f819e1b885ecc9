------------------------------- MODULE ReportBatch -------------------------------
(***************************************************************************)
(* Batched reports, mixerclient/src/report_batch.cc: attributes are added  *)
(* to an open batch, which is sent when it is full, when its timer fires,  *)
(* or when a report cannot be expressed as a difference.  The Mixer may    *)
(* reject a request for its dictionary, which shrinks the dictionary all   *)
(* later encodings use, also of a batch that is open.                      *)
(***************************************************************************)
EXTENDS AttributeCompressorOps

CONSTANTS
  Reports,      \* the attributes that are reported
  GlobalWords,  \* size of the client's global dictionary
  ServerWords,  \* size of the Mixer's
  MaxEntries,   \* max_batch_entries
  MaxWait,      \* max_batch_time_ms
  MaxReports    \* bound: reports made

ASSUME BatchAssumption ==
  /\ GlobalWords \in Nat /\ ServerWords \in Nat
  /\ BaseWords <= GlobalWords /\ BaseWords <= ServerWords
  /\ MaxEntries \in Nat /\ MaxWait \in Nat /\ MaxReports \in Nat

VARIABLES
  top,       \* top_index_ of the global dictionary
  batch,     \* batch_compressor_, or NoBatch
  timer,     \* time left on timer_, or Off
  firing,    \* the timer fired and its Flush waits for the lock
  requests,  \* requests given to the transport
  waiting,   \* the ones of them not yet answered
  reported,  \* history: the attributes reported, in order
  age        \* history: time since the oldest report of the open batch, counted to
             \* one more than MaxWait

vars == <<top, batch, timer, firing, requests, waiting, reported, age>>

NoBatch == <<>>
Off == -1

Init == /\ top = GlobalWords
        /\ batch = NoBatch /\ timer = Off /\ firing = FALSE
        /\ requests = <<>> /\ waiting = {}
        /\ reported = <<>> /\ age = 0
-------------------------------------------------------------------------------
\* FlushWithLock of each batch in bs, oldest first, and what is left open.
Flushed(bs) == /\ requests' = requests \o [i \in DOMAIN bs |-> Finish(bs[i])]
               /\ waiting' = waiting \cup {Len(requests) + i : i \in DOMAIN bs}

\* Mutant: the timer runs only for the first batch.
OpenTimerOnce(flushed, size) == IF size = 1 /\ requests = <<>> THEN MaxWait ELSE IF flushed THEN Off ELSE timer

\* The timer after Report left a batch of this size open.
OpenTimer(flushed, size) ==
  IF size = 1 THEN MaxWait ELSE IF flushed THEN Off ELSE timer

\* The batch opened for a report that did not fit in the one before.
Retry(a) == Add(top, NewBatch(top), a).batch

Report(a) ==
  LET old   == IF batch = NoBatch THEN NewBatch(top) ELSE batch
      try   == Add(top, old, a)
      first == IF try.ok THEN <<>> ELSE <<try.batch>>
      new   == IF try.ok THEN try.batch ELSE Retry(a)
      full  == Len(new.attributes) >= MaxEntries
  IN  /\ Len(reported) < MaxReports
      /\ reported' = Append(reported, a)
      /\ Flushed(IF full THEN Append(first, new) ELSE first)
      /\ batch' = IF full THEN NoBatch ELSE new
      /\ timer' = IF full THEN Off ELSE OpenTimer(first # <<>>, Len(new.attributes))
      /\ age' = IF full \/ batch = NoBatch \/ ~try.ok THEN 0 ELSE age
      /\ UNCHANGED <<top, firing>>

Expire == /\ timer = 0
          /\ timer' = Off /\ firing' = TRUE
          /\ UNCHANGED <<top, batch, requests, waiting, reported, age>>

\* Flush, called by the timer: it may meet a later batch, or none.
TimerFlush ==
  /\ firing /\ firing' = FALSE
  /\ IF batch = NoBatch THEN UNCHANGED <<batch, timer, requests, waiting, age>>
     ELSE /\ Flushed(<<batch>>)
          /\ batch' = NoBatch /\ timer' = Off /\ age' = 0
  /\ UNCHANGED <<top, reported>>

\* Time passes; a timer that is due fires, and its Flush runs, before that.
Tick == /\ batch # NoBatch /\ timer # 0 /\ ~firing
        /\ timer' = IF timer = Off THEN Off ELSE timer - 1
        /\ age' = IF age > MaxWait THEN age ELSE age + 1
        /\ UNCHANGED <<top, batch, firing, requests, waiting, reported>>

\* The answer to a request; a dictionary the Mixer does not have is an error.
\* Any other error is logged.
Answer(i) == /\ i \in waiting
             /\ waiting' = waiting \ {i}
             /\ top' = IF requests[i].count > ServerWords THEN ShrinkToBase(top) ELSE top
             /\ UNCHANGED <<batch, timer, firing, requests, reported, age>>

\* A check is answered with a dictionary error: the compressor is shared.
CheckRejected ==
  /\ top > ServerWords
  /\ top' = ShrinkToBase(top)
  /\ UNCHANGED <<batch, timer, firing, requests, waiting, reported, age>>

Next == \/ \E a \in Reports : Report(a)
        \/ \E i \in 1..MaxReports : Answer(i)
        \/ Expire \/ TimerFlush \/ Tick \/ CheckRejected

\* The event loop runs timers that are due, and time passes.
Fairness == WF_vars(Tick) /\ WF_vars(Expire) /\ WF_vars(TimerFlush)

Spec == Init /\ [][Next]_vars /\ Fairness
-------------------------------------------------------------------------------
TypeOK ==
  /\ top \in {BaseWords, GlobalWords}
  /\ batch # NoBatch => Len(batch.attributes) \in 1..MaxEntries - 1
  /\ timer \in 0..MaxWait \cup {Off} /\ firing \in BOOLEAN
  /\ waiting \subseteq DOMAIN requests

AllSent == FlattenSeq([i \in DOMAIN requests |-> Decode(requests[i])])
Entries == FlattenSeq([i \in DOMAIN requests |-> requests[i].attributes])
StillOpen == IF batch = NoBatch THEN <<>> ELSE Decode(Finish(batch))

\* Every report reaches the transport or the open batch once, in order, and what
\* the Mixer decodes is what was reported: through the difference encoding, the
\* batches that end early because an attribute went away, the late timer, and a
\* dictionary that shrinks while the batch is open.
ReportsConserved == AllSent \o StillOpen = reported

\* A request refers to no global word beyond the global_word_count it declares,
\* although the count is taken when the batch is opened and the words later.
WordsDeclared ==
  \A i \in DOMAIN requests : \A w \in Indices(requests[i]) : w < requests[i].count

\* What a check sends decodes to its attributes, before and after the shrink.
ChecksDecode == \A a \in Reports : Decode(Compress(top, a)) = <<a>>

\* options.h:59: max_batch_time_ms is the "Maximum milliseconds a report item
\* stayed in the buffer for batching": the timer runs for every batch that is open.
WaitBounded == TypeOK /\ age <= MaxWait

\* Every report is given to the transport in the end.
EventuallySent ==
  \A n \in 1..MaxReports : Len(reported) >= n ~> Len(Entries) >= n
================================================================================
