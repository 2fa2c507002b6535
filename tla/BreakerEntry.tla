---------------------------- MODULE BreakerEntry ----------------------------
(***************************************************************************)
(* One entry of application/breaker: what Allow and Record do to it.       *)
(*                                                                         *)
(* Both methods run under the breaker's mutex from their first line to     *)
(* their last, so each is one operator from an entry to the next entry.    *)
(* CircuitBreaker gives the operators concurrent callers; ChatPipeline     *)
(* keeps one entry per model.  Entries of different keys share nothing.    *)
(*                                                                         *)
(* Time is a natural number of clock units.  The error threshold is the    *)
(* rational ThresholdNum / ThresholdDen: the code divides two float64      *)
(* counters and compares with a float64 constant, and correctly rounded    *)
(* division orders counts below 2^26 as the rationals are ordered.         *)
(***************************************************************************)
EXTENDS Integers

CONSTANTS
  MinRequests,    \* sample size below which the ratio is not evaluated
  ThresholdNum,   \* errorThreshold = ThresholdNum / ThresholdDen
  ThresholdDen,
  Cooldown        \* time an open entry refuses every call

\* New replaces every setting that is not positive by a default.
ASSUME BreakerConfig ==
  /\ MinRequests  \in Nat \ {0}
  /\ ThresholdNum \in Nat \ {0}
  /\ ThresholdDen \in Nat \ {0}
  /\ Cooldown     \in Nat \ {0}

Closed   == "closed"
Opened   == "open"
HalfOpen == "half_open"

Entry ==
  [ state     : {Closed, Opened, HalfOpen},
    failures  : Nat,
    successes : Nat,
    total     : Nat,
    openedAt  : Nat,
    probes    : Nat ]

\* What get creates for a key it has not seen.
NewEntry ==
  [ state |-> Closed, failures |-> 0, successes |-> 0, total |-> 0,
    openedAt |-> 0, probes |-> 0 ]

----------------------------------------------------------------------------
(* Allow *)

CooledDown(e, now) == now - e.openedAt >= Cooldown

\* Operators named Faulty... are plausible slips in the definition after them,
\* kept to show which property notices each slip.  Nothing else uses them.
FaultyAdmitsEveryProbe(e, now) == e.state = Opened => CooledDown(e, now)

\* Whether Allow returns true.
Admits(e, now) ==
  /\ e.state = Opened   => CooledDown(e, now)
  /\ e.state = HalfOpen => e.probes < 1

FaultyHalfOpenedKeepsProbes(e) == [e EXCEPT !.state = HalfOpen]

\* The call that finds the cooldown over is not counted in probes.
HalfOpened(e) == [e EXCEPT !.state = HalfOpen, !.probes = 0]

\* The entry that a call of Allow which returns true leaves behind; one that
\* returns false leaves the entry as it is.
AfterAllow(e) ==
  CASE e.state = Opened   -> HalfOpened(e)
    [] e.state = HalfOpen -> [e EXCEPT !.probes = @ + 1]
    [] e.state = Closed   -> e

----------------------------------------------------------------------------
(* Record *)

\* Opening keeps the counters: only Reset clears them.
Open(e, now) == [e EXCEPT !.state = Opened, !.openedAt = now]

FaultyResetKeepsCounters(e) == [e EXCEPT !.state = Closed, !.probes = 0]

Reset(e) ==
  [e EXCEPT !.state = Closed, !.failures = 0, !.successes = 0, !.total = 0, !.probes = 0]

FaultyDecidedKeepsTime(e, success, now) ==
  IF success THEN Reset(e) ELSE [e EXCEPT !.state = Opened]

\* Any outcome that arrives in the half-open state decides it: whose call it
\* belongs to is not looked at.
Decided(e, success, now) == IF success THEN Reset(e) ELSE Open(e, now)

Counted(e, success) ==
  [e EXCEPT !.total     = @ + 1,
            !.successes = IF success THEN @ + 1 ELSE @,
            !.failures  = IF success THEN @ ELSE @ + 1]

\* failures out of total reach the threshold, in a sample that is large enough.
OverThreshold(failures, total) ==
  /\ total >= MinRequests
  /\ failures * ThresholdDen >= ThresholdNum * total

Evaluated(e, now) ==
  IF OverThreshold(e.failures, e.total) THEN Open(e, now) ELSE e

FaultyAfterRecordCountsWhileOpen(e, success, now) ==
  IF e.state = HalfOpen THEN Decided(e, success, now)
  ELSE Evaluated(Counted(e, success), now)

\* The entry Record leaves behind.
AfterRecord(e, success, now) ==
  CASE e.state = HalfOpen -> Decided(e, success, now)
    [] e.state = Opened   -> e
    [] e.state = Closed   -> Evaluated(Counted(e, success), now)
=============================================================================
