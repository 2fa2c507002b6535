--------------------------- MODULE BreakerContract ---------------------------
(***************************************************************************)
(* What a caller of the circuit breaker relies on, with neither clock nor  *)
(* counters: the three states of the package comment, how many trial calls *)
(* a half-open breaker lets through at most, and that a half-open breaker  *)
(* always decides.  CircuitBreaker implements this specification.          *)
(***************************************************************************)
EXTENDS Integers

CONSTANT MaxTrials    \* trial calls one half-open episode may admit

VARIABLES
  phase,    \* "closed", "open" or "half_open"
  trials    \* trial calls admitted in the present half-open episode

vars == <<phase, trials>>

Init == phase = "closed" /\ trials = 0

\* Too many calls failed.
Trip == phase = "closed" /\ phase' = "open" /\ UNCHANGED trials

\* The first trial call ends the refusal of every call.
FirstTrial == phase = "open" /\ phase' = "half_open" /\ trials' = 1

NextTrial ==
  /\ phase = "half_open"
  /\ trials < MaxTrials
  /\ trials' = trials + 1
  /\ UNCHANGED phase

\* An outcome closes the breaker or opens it again.
Decide == phase = "half_open" /\ phase' \in {"closed", "open"} /\ trials' = 0

Next == Trip \/ FirstTrial \/ NextTrial \/ Decide

Spec == Init /\ [][Next]_vars /\ WF_vars(Decide)
=============================================================================
