----------------------------- MODULE RateLimiter -----------------------------
(***************************************************************************)
(* application/ratelimit: a token bucket for requests per second and a     *)
(* sliding window for tokens per minute, both per key (tenant and model),  *)
(* under one ceiling for all keys.  Allow holds the mutex for its whole    *)
(* length, so a call is one step; what interleaves is calls for several    *)
(* keys with the passing of time.                                          *)
(*                                                                         *)
(* The code keeps fractional request tokens in a float64.  Here a second   *)
(* is Second clock units and one request costs Second units of the bucket, *)
(* so that refilling by Qps per unit is exact.  A limit of zero switches   *)
(* its check off.  tpmSum is not a variable: Allow computes it from the    *)
(* marks each time before it reads it.                                     *)
(***************************************************************************)
EXTENDS Integers, FiniteSets, FiniteSetsExt

CONSTANTS
  Keys,         \* tenant|model pairs
  Qps,          \* QPSPerTenant of each key's model card
  Tpm,          \* TPMPerTenant of each key's model card
  Estimates,    \* token estimates of requests
  GlobalQps,    \* the ceiling
  Second,       \* the ceiling's window and the bucket's unit of time
  Minute,       \* the window of the token limit
  MaxTime,      \* bound of the clock
  MaxGrants     \* bound of the history

ASSUME LimitsAssumption ==
  /\ Qps \in [Keys -> Nat]
  /\ Tpm \in [Keys -> Nat]
  /\ GlobalQps \in Nat
  /\ Estimates \subseteq Nat \ {0}
  /\ Second \in Nat \ {0}
  /\ Minute \in Nat \ {0}
  /\ MaxTime \in Nat /\ MaxGrants \in Nat

VARIABLES
  buckets,      \* the bucket of each key seen so far
  globalMarks,  \* marks of the ceiling's window
  now,          \* the clock
  grants        \* history: every reservation made

vars == <<buckets, globalMarks, now, grants>>

\* A mark is the reservation it stands for.  The code's marks are a time and,
\* for the token window, a token count; id tells equal ones apart.
Grant == [id : Nat, key : Keys, at : Nat, est : Estimates]

Bucket == [tokens : Nat, last : Nat, tpmMarks : SUBSET Grant]

----------------------------------------------------------------------------
(* The parts of Allow *)

\* Operators named Faulty... are plausible slips in the definition after them,
\* kept to show which property notices each slip.  Nothing else uses them.
FaultyPrunedShort(marks, window) == {m \in marks : m.at > now - window + 1}

\* pruneMarks and pruneTimes
Pruned(marks, window) == {m \in marks : m.at > now - window}

TokenSum(marks) == MapThenSumSet(LAMBDA m : m.est, marks)

\* The bucket of a key, created full when the key is new.
BucketOf(k) ==
  IF k \in DOMAIN buckets THEN buckets[k]
  ELSE [tokens |-> Qps[k] * Second, last |-> now, tpmMarks |-> {}]

Capped(k, tokens) == IF tokens > Qps[k] * Second THEN Qps[k] * Second ELSE tokens

FaultyRefilledKeepsLast(k, b) ==
  [b EXCEPT !.tokens = Capped(k, @ + (now - b.last) * Qps[k])]

Refilled(k, b) ==
  [b EXCEPT !.tokens = Capped(k, @ + (now - b.last) * Qps[k]), !.last = now]

\* After the first check: the bucket with which a key meets its own limits.
FaultyAtQpsCheckSpends(k) ==
  IF Qps[k] > 0 THEN [Refilled(k, BucketOf(k)) EXCEPT !.tokens = @ - Second]
  ELSE BucketOf(k)

AtQpsCheck(k) == IF Qps[k] > 0 THEN Refilled(k, BucketOf(k)) ELSE BucketOf(k)

FaultyAtTpmCheckKeepsMarks(k) == AtQpsCheck(k)

\* After the second check: the token window without what has left it.
AtTpmCheck(k) ==
  IF Tpm[k] > 0 THEN [AtQpsCheck(k) EXCEPT !.tpmMarks = Pruned(@, Minute)]
  ELSE AtQpsCheck(k)

LiveGlobalMarks == IF GlobalQps > 0 THEN Pruned(globalMarks, Second) ELSE globalMarks

GlobalFull == GlobalQps > 0 /\ Cardinality(LiveGlobalMarks) >= GlobalQps
QpsSpent(k) == Qps[k] > 0 /\ AtQpsCheck(k).tokens < Second

FaultyTpmSpent(k, est) == Tpm[k] > 0 /\ TokenSum(AtTpmCheck(k).tpmMarks) >= Tpm[k]

TpmSpent(k, est) == Tpm[k] > 0 /\ TokenSum(AtTpmCheck(k).tpmMarks) + est > Tpm[k]

Stored(k, b) ==
  [x \in DOMAIN buckets \union {k} |-> IF x = k THEN b ELSE buckets[x]]

\* The bucket after a reservation.
Committed(k, b, grant) ==
  [b EXCEPT !.tokens   = IF Qps[k] > 0 THEN @ - Second ELSE @,
            !.tpmMarks = IF Tpm[k] > 0 THEN @ \union {grant} ELSE @]

----------------------------------------------------------------------------

Init ==
  /\ buckets = <<>>            \* no key yet
  /\ globalMarks = {}
  /\ now = 0
  /\ grants = {}

\* "global_qps_exceeded": before the key's bucket is looked at.
GlobalRefused(k, est) ==
  /\ GlobalFull
  /\ globalMarks' = LiveGlobalMarks
  /\ UNCHANGED <<buckets, now, grants>>

\* "qps_exceeded": the refilled bucket is kept.
QpsRefused(k, est) ==
  /\ ~GlobalFull
  /\ QpsSpent(k)
  /\ globalMarks' = LiveGlobalMarks
  /\ buckets' = Stored(k, AtQpsCheck(k))
  /\ UNCHANGED <<now, grants>>

\* "tpm_exceeded": so are the pruned marks.
TpmRefused(k, est) ==
  /\ ~GlobalFull
  /\ ~QpsSpent(k)
  /\ TpmSpent(k, est)
  /\ globalMarks' = LiveGlobalMarks
  /\ buckets' = Stored(k, AtTpmCheck(k))
  /\ UNCHANGED <<now, grants>>

\* Every check passed: the reservations are committed together.
Granted(k, est) ==
  LET grant == [id |-> Cardinality(grants), key |-> k, at |-> now, est |-> est]
  IN  /\ Cardinality(grants) < MaxGrants
      /\ ~GlobalFull
      /\ ~QpsSpent(k)
      /\ ~TpmSpent(k, est)
      /\ grants' = grants \union {grant}
      /\ globalMarks' = IF GlobalQps > 0 THEN LiveGlobalMarks \union {grant} ELSE globalMarks
      /\ buckets' = Stored(k, Committed(k, AtTpmCheck(k), grant))
      /\ UNCHANGED now

Tick ==
  /\ now < MaxTime
  /\ now' = now + 1
  /\ UNCHANGED <<buckets, globalMarks, grants>>

Next ==
  \/ \E k \in Keys, est \in Estimates :
       \/ GlobalRefused(k, est)
       \/ QpsRefused(k, est)
       \/ TpmRefused(k, est)
       \/ Granted(k, est)
  \/ Tick

Spec == Init /\ [][Next]_vars

----------------------------------------------------------------------------
(* Properties *)

\* Every variable has its type; no bucket is overfull.
TypeOK ==
  /\ DOMAIN buckets \subseteq Keys
  /\ \A k \in DOMAIN buckets :
       /\ buckets[k].tokens \in 0..(Qps[k] * Second)
       /\ buckets[k].last \in 0..now
       /\ buckets[k].tpmMarks \subseteq grants
  /\ globalMarks \subseteq grants
  /\ now \in Nat
  /\ \A g \in grants : g.id \in Nat /\ g.key \in Keys /\ g.at \in 0..now /\ g.est \in Estimates

\* The reservations made within the window that ends at time t.
Within(set, t, window) == {g \in set : t - window < g.at /\ g.at <= t}
OfKey(k) == {g \in grants : g.key = k}

\* In no second are more requests admitted than the ceiling, whatever keys they
\* are for.
GlobalCeiling ==
  GlobalQps > 0 =>
    \A t \in 0..now : Cardinality(Within(grants, t, Second)) <= GlobalQps

\* In no minute are requests of one key admitted whose estimates exceed the
\* key's limit together.
TokenCeiling ==
  \A k \in Keys : Tpm[k] > 0 =>
    \A t \in 0..now : TokenSum(Within(OfKey(k), t, Minute)) <= Tpm[k]

\* Between any two times a key is admitted at most the bucket it can have saved
\* and what the bucket gains meanwhile.
RequestRate ==
  \A k \in Keys : Qps[k] > 0 =>
    \A from \in 0..now : \A to \in from..now :
      Cardinality({g \in OfKey(k) : g.at \in from..to}) * Second
        <= Qps[k] * Second + (to - from) * Qps[k]

\* What a key could still reserve now.
Headroom(k) == [requests |-> Refilled(k, BucketOf(k)).tokens,
                marks    |-> Pruned(BucketOf(k).tpmMarks, Minute)]

\* A refused call reserves nothing: it leaves every key, its own included, and
\* the ceiling with the room they had before.
RefusalIsFree ==
  [][grants' = grants /\ now' = now =>
       /\ \A k \in Keys : Headroom(k)' = Headroom(k)
       /\ Pruned(globalMarks, Second)' = Pruned(globalMarks, Second)]_vars

\* A key that has been quiet for both windows, under a ceiling that has room, is
\* admitted: no refusal outlives its cause.
QuietKeyIsAdmitted ==
  \A k \in Keys, est \in Estimates :
    LET quiet == \A g \in OfKey(k) : g.at <= now - Second /\ g.at <= now - Minute
        room  == Cardinality(Within(grants, now, Second)) < GlobalQps
        fits  == Tpm[k] > 0 => est <= Tpm[k]
    IN  quiet /\ (GlobalQps > 0 => room) /\ fits =>
          ~GlobalFull /\ ~QpsSpent(k) /\ ~TpmSpent(k, est)
=============================================================================
