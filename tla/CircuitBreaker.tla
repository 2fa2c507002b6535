---------------------------- MODULE CircuitBreaker ----------------------------
(***************************************************************************)
(* One key of application/breaker used by concurrent callers.              *)
(*                                                                         *)
(* chat.Service asks Allow before it calls a provider and hands the outcome *)
(* to Record when the call returns.  Each method is atomic, but the time   *)
(* between them is a provider call of up to a minute, in which any number  *)
(* of other calls start and return: outcomes reach the breaker in another  *)
(* order than the calls left it, and in another state.                     *)
(***************************************************************************)
EXTENDS BreakerEntry, FiniteSets

CONSTANTS
  Callers,      \* request goroutines
  MaxTime,      \* bound of the clock
  MaxSample     \* bound of the sample a closed entry may collect

ASSUME CallersAssumption == IsFiniteSet(Callers)
ASSUME BoundsAssumption  == MaxTime \in Nat /\ MaxSample \in Nat

VARIABLES
  entry,        \* the breaker's entry of the key
  now,          \* the clock
  calling,      \* callers between an Allow that returned true and their Record
  probing,      \* history: callers admitted in the present half-open episode
  lastTrip,     \* history: when the entry last became open
  sample        \* history: outcomes recorded since the entry last became closed

vars == <<entry, now, calling, probing, lastTrip, sample>>

EmptySample == [ok |-> 0, bad |-> 0]

----------------------------------------------------------------------------

Init ==
  /\ entry = NewEntry
  /\ now = 0
  /\ calling = {}
  /\ probing = {}
  /\ lastTrip = -Cooldown      \* no trip whose cooldown still runs
  /\ sample = EmptySample

\* Keeps the sample finite: a bound of the model, not of the code.
MayAsk(c) ==
  /\ c \notin calling
  /\ entry.state = Closed => entry.total + Cardinality(calling) < MaxSample

\* Allow returns true and the caller goes on to call the provider.
Allowed(c) ==
  /\ MayAsk(c)
  /\ Admits(entry, now)
  /\ entry' = AfterAllow(entry)
  /\ calling' = calling \union {c}
  /\ probing' = IF entry.state = Closed THEN probing ELSE probing \union {c}
  /\ UNCHANGED <<now, lastTrip, sample>>

\* Allow returns false: the caller takes the next model of its chain.
Refused(c) ==
  /\ MayAsk(c)
  /\ ~Admits(entry, now)
  /\ UNCHANGED vars

Recorded(success) ==
  IF success THEN [sample EXCEPT !.ok = @ + 1] ELSE [sample EXCEPT !.bad = @ + 1]

\* The provider call of c returns and its outcome is handed to Record.
Return(c, success) ==
  /\ c \in calling
  /\ entry' = AfterRecord(entry, success, now)
  /\ calling' = calling \ {c}
  /\ probing' = IF entry.state = HalfOpen THEN {} ELSE probing
  /\ lastTrip' = IF entry.state # Opened /\ entry'.state = Opened THEN now ELSE lastTrip
  /\ sample' = IF entry.state = Closed THEN Recorded(success)
               ELSE IF entry'.state = Closed THEN EmptySample
               ELSE sample
  /\ UNCHANGED now

Tick ==
  /\ now < MaxTime
  /\ now' = now + 1
  /\ UNCHANGED <<entry, calling, probing, lastTrip, sample>>

Next ==
  \/ \E c \in Callers : Allowed(c)
  \/ \E c \in Callers : Refused(c)
  \/ \E c \in Callers, success \in BOOLEAN : Return(c, success)
  \/ Tick

\* Every provider call ends, in an answer or in an error: the HTTP client has
\* a timeout and chat.Service records either outcome before it does anything
\* else.  Nothing makes a new caller come or a clock be read.
Fairness == \A c \in Callers : WF_vars(\E success \in BOOLEAN : Return(c, success))

Spec == Init /\ [][Next]_vars /\ Fairness

----------------------------------------------------------------------------
(* Properties *)

\* Every variable has its type; an entry counts at most one probe.
TypeOK ==
  /\ entry \in Entry /\ entry.probes <= 1
  /\ now \in Nat
  /\ calling \subseteq Callers
  /\ probing \subseteq Callers
  /\ lastTrip \in Int
  /\ sample \in [ok : Nat, bad : Nat]

\* In the half-open state the calls that were let through to decide it are all
\* still under way, and they are one more than the entry counts.  So the state
\* cannot outlive them: without a call to decide it, a half-open entry would
\* refuse every call for ever.
HalfOpenHasItsProbes ==
  IF entry.state = HalfOpen
  THEN probing \subseteq calling /\ Cardinality(probing) = entry.probes + 1
  ELSE probing = {}

\* The entry is closed exactly as long as the outcomes recorded since it last
\* became closed are too few or good enough: no outcome of an earlier outage
\* counts towards a later one, and none that should count is lost.
ClosedWhileSampleGood ==
  entry.state = Closed <=> ~OverThreshold(sample.bad, sample.ok + sample.bad)

\* A call is let through only when a whole cooldown has passed since the entry
\* last became open, whatever late outcomes and failed probes came between.
SilentAfterTrip ==
  [][\A c \in Callers : c \in calling' \ calling => now - lastTrip >= Cooldown]_vars

\* While the entry stays open, outcomes of calls that were already under way
\* when it opened do not lengthen the outage.
OutageNotExtended ==
  [][entry.state = Opened /\ entry'.state = Opened => entry'.openedAt = entry.openedAt]_vars

\* The breaker keeps the contract its callers rely on, with two trial calls.
Contract == INSTANCE BreakerContract WITH
  MaxTrials <- 2, phase <- entry.state, trials <- Cardinality(probing)

KeepsContract == Contract!Spec

\* What the comment on the transition in Allow says: a single probe.
SingleProbe == Cardinality(probing) <= 1
=============================================================================
