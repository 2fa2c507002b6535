--------------------------- MODULE MeteringReporter ---------------------------
(***************************************************************************)
(* application/metering with the sink the program gives it: request        *)
(* goroutines report usage events into a bounded channel, one worker       *)
(* drains it into the token totals of the /usage page and posts each event *)
(* to the billing service, and Close makes the worker flush and stop.      *)
(*                                                                         *)
(* An event is its number and whether its provider call succeeded; token   *)
(* counts are one per event.                                               *)
(***************************************************************************)
EXTENDS Integers, Sequences, SequencesExt, FiniteSets

CONSTANTS
  Buffer,       \* capacity of the channel
  MaxReports    \* bound of the calls of Report

\* New replaces a buffer that is not positive.
ASSUME MeteringAssumption == Buffer \in Nat \ {0} /\ MaxReports \in Nat

VARIABLES
  reported,     \* calls of Report so far
  ch,           \* the channel
  mode,         \* which loop of drain the worker is in
  stage,        \* how far the worker is with the event it holds
  held,         \* that event, or nothing
  closer,       \* where the caller of Close is
  tokens,       \* the token totals
  billed,       \* external: events the billing service has ingested
  accepted,     \* history: events that went into the channel
  sunk,         \* history: events whose sink call has begun to take effect
  atClose       \* history: how many events had been accepted when Close came

reporterVars == <<reported, accepted>>
workerVars   == <<mode, stage, held, tokens, billed, sunk>>
closerVars   == <<closer, atClose>>
vars == <<reporterVars, ch, workerVars, closerVars>>

Event == [id : 1..MaxReports, ok : BOOLEAN]

Init ==
  /\ reported = 0 /\ accepted = <<>>
  /\ ch = <<>>
  /\ mode = "serve" /\ stage = "idle" /\ held = <<>>
  /\ tokens = 0 /\ billed = <<>> /\ sunk = <<>>
  /\ closer = "open" /\ atClose = 0

----------------------------------------------------------------------------
(* Request goroutines *)

\* There is room: the event goes into the channel.
Accept(ok) ==
  LET ev == [id |-> reported + 1, ok |-> ok]
  IN  /\ reported < MaxReports
      /\ Len(ch) < Buffer
      /\ ch' = Append(ch, ev)
      /\ accepted' = Append(accepted, ev)
      /\ reported' = reported + 1
      /\ UNCHANGED <<workerVars, closerVars>>

\* There is none: the event is dropped and the caller goes on.
Drop ==
  /\ reported < MaxReports
  /\ Len(ch) >= Buffer
  /\ reported' = reported + 1
  /\ UNCHANGED <<accepted, ch, workerVars, closerVars>>

----------------------------------------------------------------------------
(* The worker *)

\* A receive of either loop.
Receive ==
  /\ mode \in {"serve", "flush"}
  /\ stage = "idle"
  /\ ch # <<>>
  /\ held' = <<Head(ch)>>
  /\ ch' = Tail(ch)
  /\ stage' = "received"
  /\ UNCHANGED <<reporterVars, mode, tokens, billed, sunk, closerVars>>

\* The sink adds a successful call to the totals, before it posts the event.
Tally ==
  /\ stage = "received"
  /\ tokens' = IF Head(held).ok THEN tokens + 1 ELSE tokens
  /\ sunk' = sunk \o held
  /\ stage' = "posting"
  /\ UNCHANGED <<reporterVars, ch, mode, held, billed, closerVars>>

\* Operators named Faulty... are plausible slips in the definition after them,
\* kept to show which property notices each slip.  Nothing else uses them.
FaultyPostRetries(ingested) ==
  /\ stage = "posting"
  /\ billed' = IF ingested THEN billed \o held ELSE billed
  /\ \/ stage' = "idle" /\ held' = <<>>
     \/ UNCHANGED <<stage, held>>
  /\ UNCHANGED <<reporterVars, ch, mode, tokens, sunk, closerVars>>

\* The post ends after five seconds at most.  It is not retried: whether the
\* service ingested the event or not, the sink returns.
Post(ingested) ==
  /\ stage = "posting"
  /\ billed' = IF ingested THEN billed \o held ELSE billed
  /\ stage' = "idle" /\ held' = <<>>
  /\ UNCHANGED <<reporterVars, ch, mode, tokens, sunk, closerVars>>

FaultySeeClosedDiscards ==
  /\ mode = "serve" /\ stage = "idle"
  /\ closer # "open"
  /\ mode' = "flush"
  /\ ch' = <<>>
  /\ UNCHANGED <<reporterVars, stage, held, tokens, billed, sunk, closerVars>>

FaultySeeClosedSkipsFlush ==
  /\ mode = "serve" /\ stage = "idle"
  /\ closer # "open"
  /\ mode' = "done"
  /\ UNCHANGED <<reporterVars, ch, stage, held, tokens, billed, sunk, closerVars>>

\* The closed channel is received from.  With an event in ch as well, the
\* select takes either case.
SeeClosed ==
  /\ mode = "serve" /\ stage = "idle"
  /\ closer # "open"
  /\ mode' = "flush"
  /\ UNCHANGED <<reporterVars, ch, stage, held, tokens, billed, sunk, closerVars>>

FaultyFlushNeverEnds ==
  /\ mode = "flush" /\ stage = "idle"
  /\ ch = <<>>
  /\ closer = "open"
  /\ mode' = "done"
  /\ UNCHANGED <<reporterVars, ch, stage, held, tokens, billed, sunk, closerVars>>

\* The flush finds the channel empty: the worker ends.
FlushEnds ==
  /\ mode = "flush" /\ stage = "idle"
  /\ ch = <<>>
  /\ mode' = "done"
  /\ UNCHANGED <<reporterVars, ch, stage, held, tokens, billed, sunk, closerVars>>

Worker ==
  \/ Receive
  \/ Tally
  \/ \E ingested \in BOOLEAN : Post(ingested)
  \/ SeeClosed
  \/ FlushEnds

----------------------------------------------------------------------------
(* The caller of Close *)

Close ==
  /\ closer = "open"
  /\ closer' = "waiting"
  /\ atClose' = Len(accepted)
  /\ UNCHANGED <<reporterVars, ch, workerVars>>

FaultyCloseReturnsAtOnce ==
  /\ closer = "waiting"
  /\ closer' = "returned"
  /\ UNCHANGED <<reporterVars, ch, workerVars, atClose>>

\* The wait group is done when the worker is.
CloseReturns ==
  /\ closer = "waiting"
  /\ mode = "done"
  /\ closer' = "returned"
  /\ UNCHANGED <<reporterVars, ch, workerVars, atClose>>

Next ==
  \/ \E ok \in BOOLEAN : Accept(ok)
  \/ Drop
  \/ Worker
  \/ Close
  \/ CloseReturns

\* The worker is a goroutine that never blocks for ever: the post has a timeout.
\* Nobody is bound to report or to close.
Spec == Init /\ [][Next]_vars /\ WF_vars(Worker) /\ WF_vars(CloseReturns)

----------------------------------------------------------------------------
(* Properties *)

\* The event held whose sink call has not begun to take effect.
Unsunk == IF stage = "received" THEN held ELSE <<>>

\* How many of these events are successful calls.
Successes(events) == Cardinality({i \in DOMAIN events : events[i].ok})

\* Every variable has its type; the channel never exceeds its capacity.
TypeOK ==
  /\ reported \in 0..MaxReports
  /\ ch \in Seq(Event) /\ Len(ch) <= Buffer
  /\ mode \in {"serve", "flush", "done"}
  /\ stage \in {"idle", "received", "posting"}
  /\ held \in Seq(Event) /\ Len(held) = (IF stage = "idle" THEN 0 ELSE 1)
  /\ closer \in {"open", "waiting", "returned"}
  /\ tokens \in Nat
  /\ billed \in Seq(Event) /\ accepted \in Seq(Event) /\ sunk \in Seq(Event)
  /\ atClose \in 0..MaxReports

\* What was accepted is sunk, in the worker's hands or in the channel, in the
\* order of acceptance: no event is lost, duplicated or overtaken on the way,
\* shutdown included.
NothingLostOnTheWay == accepted = sunk \o Unsunk \o ch

\* The billing service is sent each event at most once, in order, and no event
\* that the gateway's own totals have not counted before.
BilledAtMostOnce ==
  /\ \A i, j \in DOMAIN billed : i < j => billed[i].id < billed[j].id
  /\ ToSet(billed) \subseteq ToSet(sunk)

\* When Close returns, every event accepted before Close was called is sunk.
CloseFlushes == closer = "returned" => Len(sunk) >= atClose

\* As long as the worker has not ended, an accepted event is sunk in the end.
AcceptedIsSunk ==
  \A n \in 1..MaxReports : (Len(accepted) >= n /\ mode # "done") ~> Len(sunk) >= n

\* Close returns, provided reporting stops some time.
CloseEnds == closer = "waiting" ~> closer = "returned"
=============================================================================
