--------------------------- MODULE RateLimiterProofs ---------------------------
(***************************************************************************)
(* Proofs about RateLimiter for every set of keys, every limit and every   *)
(* pair of windows.                                                        *)
(***************************************************************************)
EXTENDS RateLimiter, FiniteSetTheorems, WellFoundedInduction, TLAPS

----------------------------------------------------------------------------
(* The bucket's operators *)

\* Time passed times a rate is a quantity.
LEMMA GainIsNat ==
  ASSUME NEW k \in Keys, NEW t \in 0..now, now \in Nat
  PROVE  (now - t) * Qps[k] \in Nat /\ Qps[k] \in Nat /\ Qps[k] * Second \in Nat
BY LimitsAssumption

\* The bucket of a key, whether it is stored or new.
BucketOk(k, b) ==
  /\ b \in [tokens : Nat, last : Nat, tpmMarks : SUBSET grants]
  /\ b.tokens \in 0..(Qps[k] * Second)
  /\ b.last \in 0..now

\* A key always has a bucket: a new one is full.
LEMMA BucketOfOk ==
  ASSUME NEW k \in Keys, now \in Nat, \A x \in DOMAIN buckets : BucketOk(x, buckets[x])
  PROVE  BucketOk(k, BucketOf(k))
BY LimitsAssumption DEF BucketOk, BucketOf

\* A bucket that is given other request tokens.
With(b, t, l) == [b EXCEPT !.tokens = t, !.last = l]

\* Such a bucket is one if the tokens fit and the time has come.
LEMMA WithTokens ==
  ASSUME NEW k \in Keys, NEW b, BucketOk(k, b), now \in Nat,
         NEW t \in 0..(Qps[k] * Second), NEW l \in 0..now
  PROVE  /\ BucketOk(k, With(b, t, l))
         /\ With(b, t, l).tokens = t
         /\ With(b, t, l).last = l
         /\ With(b, t, l).tpmMarks = b.tpmMarks
<1>1. t \in Nat /\ l \in Nat
  BY LimitsAssumption
<1>2. QED
  BY <1>1 DEF BucketOk, With

\* The cap caps.
LEMMA CappedRange ==
  ASSUME NEW k \in Keys, NEW t \in Nat
  PROVE  Capped(k, t) \in 0..(Qps[k] * Second) /\ Capped(k, t) <= t
BY LimitsAssumption DEF Capped

\* The requests a key could reserve now, in units of the bucket.
Room(k) == Refilled(k, BucketOf(k)).tokens

\* Refilling keeps a bucket within its size and brings it up to date.
LEMMA RefilledOk ==
  ASSUME NEW k \in Keys, now \in Nat, NEW b, BucketOk(k, b)
  PROVE  /\ BucketOk(k, Refilled(k, b))
         /\ Refilled(k, b).tokens = Capped(k, b.tokens + (now - b.last) * Qps[k])
         /\ Refilled(k, b).last = now
<1>1. (now - b.last) * Qps[k] \in Nat
  BY GainIsNat DEF BucketOk
<1>2. b.tokens + (now - b.last) * Qps[k] \in Nat
  BY <1>1 DEF BucketOk
<1> DEFINE t == Capped(k, b.tokens + (now - b.last) * Qps[k])
<1>3. t \in 0..(Qps[k] * Second) /\ now \in 0..now
  BY <1>2, CappedRange
<1>4. Refilled(k, b) = With(b, t, now)
  BY DEF Refilled, With
<1> HIDE DEF t
<1>5. BucketOk(k, Refilled(k, b)) /\ Refilled(k, b).tokens = t /\ Refilled(k, b).last = now
  BY <1>3, <1>4, WithTokens
<1>6. QED
  BY <1>5 DEF t

\* A bucket that is up to date gains nothing.
LEMMA RefilledAtOnce ==
  ASSUME NEW k \in Keys, now \in Nat, NEW b, BucketOk(k, b), b.last = now
  PROVE  Refilled(k, b).tokens = b.tokens
<1>1. (now - b.last) * Qps[k] = 0
  BY LimitsAssumption
<1>2. b.tokens + (now - b.last) * Qps[k] = b.tokens
  BY <1>1 DEF BucketOk
<1>3. Capped(k, b.tokens) = b.tokens
  BY LimitsAssumption DEF BucketOk, Capped
<1>4. QED
  BY <1>2, <1>3, RefilledOk

\* So do the two checks.
LEMMA AtQpsCheckOk ==
  ASSUME NEW k \in Keys, now \in Nat, \A x \in DOMAIN buckets : BucketOk(x, buckets[x])
  PROVE  BucketOk(k, AtQpsCheck(k))
BY BucketOfOk, RefilledOk DEF AtQpsCheck

\* Pruning the token window leaves the request tokens alone.
LEMMA AtTpmCheckOk ==
  ASSUME NEW k \in Keys, now \in Nat, \A x \in DOMAIN buckets : BucketOk(x, buckets[x])
  PROVE  /\ BucketOk(k, AtTpmCheck(k))
         /\ AtTpmCheck(k).tokens = AtQpsCheck(k).tokens
         /\ AtTpmCheck(k).last = AtQpsCheck(k).last
<1> DEFINE b == AtQpsCheck(k)
<1>1. BucketOk(k, b)
  BY AtQpsCheckOk
<1>2. AtTpmCheck(k) = IF Tpm[k] > 0 THEN [b EXCEPT !.tpmMarks = Pruned(@, Minute)] ELSE b
  BY DEF AtTpmCheck
<1> HIDE DEF b
<1>3. Pruned(b.tpmMarks, Minute) \subseteq grants
  BY <1>1 DEF BucketOk, Pruned
<1>4. BucketOk(k, [b EXCEPT !.tpmMarks = Pruned(@, Minute)])
      /\ [b EXCEPT !.tpmMarks = Pruned(@, Minute)].tokens = b.tokens
      /\ [b EXCEPT !.tpmMarks = Pruned(@, Minute)].last = b.last
  BY <1>1, <1>3 DEF BucketOk
<1>5. QED
  BY <1>1, <1>2, <1>4 DEF b

\* The room of a key is a quantity.
LEMMA RoomRange ==
  ASSUME NEW k \in Keys, now \in Nat, \A x \in DOMAIN buckets : BucketOk(x, buckets[x])
  PROVE  Room(k) \in Nat /\ Room(k) <= Qps[k] * Second
BY BucketOfOk, RefilledOk, LimitsAssumption DEF Room, BucketOk

\* Of a key with a request limit, the bucket at either check is the refilled one.
LEMMA FreshAtChecks ==
  ASSUME NEW k \in Keys, now \in Nat, \A x \in DOMAIN buckets : BucketOk(x, buckets[x]),
         Qps[k] > 0
  PROVE  /\ AtQpsCheck(k).last = now /\ AtQpsCheck(k).tokens = Room(k)
         /\ AtTpmCheck(k).last = now /\ AtTpmCheck(k).tokens = Room(k)
<1>1. BucketOk(k, BucketOf(k))
  BY BucketOfOk
<1>2. AtQpsCheck(k) = Refilled(k, BucketOf(k))
  BY DEF AtQpsCheck
<1>3. AtQpsCheck(k).last = now /\ AtQpsCheck(k).tokens = Room(k)
  BY <1>1, <1>2, RefilledOk DEF Room
<1>4. QED
  BY <1>3, AtTpmCheckOk

----------------------------------------------------------------------------
(* The inductive invariant *)

\* Every stored bucket is one.
BucketsOk ==
  /\ DOMAIN buckets \subseteq Keys
  /\ \A k \in DOMAIN buckets : BucketOk(k, buckets[k])

\* The history is finite and in the past.
HistoryOk ==
  /\ IsFiniteSet(grants)
  /\ \A g \in grants : g.id \in Nat /\ g.key \in Keys /\ g.at \in 0..now /\ g.est \in Estimates

\* Whatever is pruned from the ceiling's marks, those of the last second are there.
MarksComplete ==
  /\ globalMarks \subseteq grants
  /\ GlobalQps > 0 => Pruned(grants, Second) \subseteq globalMarks

Between(set, k, from, to) == {g \in set : g.key = k /\ g.at \in from..to}

\* What a key was admitted since any time, and what it may still reserve, it had
\* saved or gained by now.
RoomIsEarned ==
  \A k \in Keys : Qps[k] > 0 =>
    \A from \in 0..now :
      Cardinality(Between(grants, k, from, now)) * Second + Room(k)
        <= Qps[k] * Second + (now - from) * Qps[k]

IInv ==
  /\ now \in Nat
  /\ BucketsOk
  /\ HistoryOk
  /\ MarksComplete
  /\ GlobalCeiling
  /\ RoomIsEarned
  /\ RequestRate

----------------------------------------------------------------------------
(* What a step does to a bucket, to the room of a key and to the history *)

\* A call stores one bucket.
LEMMA StoredOk ==
  ASSUME IInv, NEW k \in Keys, NEW b,
         b \in [tokens : Nat, last : Nat, tpmMarks : SUBSET grants'],
         b.tokens \in 0..(Qps[k] * Second), b.last \in 0..now,
         buckets' = Stored(k, b), now' = now, grants \subseteq grants'
  PROVE  BucketsOk'
<1>1. /\ DOMAIN buckets' = DOMAIN buckets \union {k}
      /\ \A x \in DOMAIN buckets' : buckets'[x] = IF x = k THEN b ELSE buckets[x]
  BY DEF Stored
<1>2. DOMAIN buckets' \subseteq Keys
  BY <1>1 DEF IInv, BucketsOk
<1>3. ASSUME NEW x \in DOMAIN buckets'
      PROVE  BucketOk(x, buckets[x])'
  <2>1. CASE x = k
    BY <1>1, <2>1 DEF BucketOk
  <2>2. CASE x # k
    <3>1. buckets'[x] = buckets[x] /\ BucketOk(x, buckets[x])
      BY <1>1, <2>2 DEF IInv, BucketsOk
    <3>2. QED
      BY <3>1 DEF BucketOk
  <2>3. QED
    BY <2>1, <2>2
<1>4. QED
  BY <1>2, <1>3 DEF BucketsOk

\* It leaves the room of every other key, and of its own what the bucket holds.
LEMMA StoredRoom ==
  ASSUME IInv, NEW k \in Keys, NEW b, buckets' = Stored(k, b), now' = now
  PROVE  \A x \in Keys : Room(x)' = IF x = k THEN Refilled(k, b).tokens ELSE Room(x)
<1>1. /\ DOMAIN buckets' = DOMAIN buckets \union {k}
      /\ \A x \in DOMAIN buckets' : buckets'[x] = IF x = k THEN b ELSE buckets[x]
  BY DEF Stored
<1>2. ASSUME NEW x \in Keys
      PROVE  BucketOf(x)' = IF x = k THEN b ELSE BucketOf(x)
  BY <1>1 DEF BucketOf
<1>3. QED
  BY <1>2 DEF Room, Refilled, Capped

\* RequestRate is about the same intervals.
LEMMA RateOfIntervals ==
  RequestRate <=> \A k \in Keys : Qps[k] > 0 =>
                    \A from \in 0..now : \A to \in from..now :
                      Cardinality(Between(grants, k, from, to)) * Second
                        <= Qps[k] * Second + (to - from) * Qps[k]
<1>1. \A k, from, to : {g \in OfKey(k) : g.at \in from..to} = Between(grants, k, from, to)
  BY DEF OfKey, Between
<1>2. QED
  BY <1>1 DEF RequestRate

\* Parts of the history are finite.
LEMMA PartsAreFinite ==
  ASSUME HistoryOk, NEW S \in SUBSET grants
  PROVE  IsFiniteSet(S) /\ Cardinality(S) \in Nat
BY FS_Subset, FS_CardinalityType DEF HistoryOk

\* What leaves the clock and the history alone keeps what is said about them.
LEMMA HistoryKept ==
  ASSUME IInv, now' = now, grants' = grants
  PROVE  now' \in Nat /\ HistoryOk' /\ GlobalCeiling' /\ RequestRate'
BY DEF IInv, HistoryOk, GlobalCeiling, RequestRate, Within, OfKey

\* Every call prunes the marks of the ceiling; none of the last second goes.
LEMMA PruningKeepsMarks ==
  ASSUME IInv, now' = now, grants' = grants, globalMarks' = LiveGlobalMarks
  PROVE  MarksComplete'
BY DEF IInv, MarksComplete, LiveGlobalMarks, Pruned

\* A call that stores a bucket with the room the key had, and reserves nothing.
LEMMA RefusalKeeps ==
  ASSUME IInv, NEW k \in Keys, NEW b, BucketOk(k, b),
         Qps[k] > 0 => Refilled(k, b).tokens = Room(k),
         buckets' = Stored(k, b), globalMarks' = LiveGlobalMarks,
         now' = now, grants' = grants
  PROVE  IInv'
<1>1. BucketsOk'
  BY StoredOk DEF BucketOk
<1>2. \A x \in Keys : Qps[x] > 0 => Room(x)' = Room(x)
  BY StoredRoom
<1>3. RoomIsEarned'
  BY <1>2 DEF IInv, RoomIsEarned, Between
<1>4. QED
  BY <1>1, <1>3, HistoryKept, PruningKeepsMarks DEF IInv

\* A call refused by the ceiling.
LEMMA GlobalRefusedKeeps ==
  ASSUME IInv, NEW k \in Keys, NEW est \in Estimates, GlobalRefused(k, est)
  PROVE  IInv'
<1>1. /\ now' = now /\ grants' = grants /\ buckets' = buckets
      /\ globalMarks' = LiveGlobalMarks
  BY DEF GlobalRefused
<1>2. BucketsOk'
  BY <1>1 DEF IInv, BucketsOk, BucketOk
<1>3. \A x \in Keys : Room(x)' = Room(x)
  BY <1>1 DEF Room, Refilled, Capped, BucketOf
<1>4. RoomIsEarned'
  BY <1>1, <1>3 DEF IInv, RoomIsEarned, Between
<1>5. QED
  BY <1>1, <1>2, <1>4, HistoryKept, PruningKeepsMarks DEF IInv

\* A call refused by the key's request limit.
LEMMA QpsRefusedKeeps ==
  ASSUME IInv, NEW k \in Keys, NEW est \in Estimates, QpsRefused(k, est)
  PROVE  IInv'
<1>1. /\ now' = now /\ grants' = grants /\ globalMarks' = LiveGlobalMarks
      /\ buckets' = Stored(k, AtQpsCheck(k))
  BY DEF QpsRefused
<1>2. now \in Nat /\ \A x \in DOMAIN buckets : BucketOk(x, buckets[x])
  BY DEF IInv, BucketsOk
<1>3. BucketOk(k, AtQpsCheck(k))
  BY <1>2, AtQpsCheckOk
<1>4. Qps[k] > 0 => Refilled(k, AtQpsCheck(k)).tokens = Room(k)
  BY <1>2, <1>3, FreshAtChecks, RefilledAtOnce
<1>5. QED
  BY <1>1, <1>3, <1>4, RefusalKeeps

\* A call refused by the key's token limit.
LEMMA TpmRefusedKeeps ==
  ASSUME IInv, NEW k \in Keys, NEW est \in Estimates, TpmRefused(k, est)
  PROVE  IInv'
<1>1. /\ now' = now /\ grants' = grants /\ globalMarks' = LiveGlobalMarks
      /\ buckets' = Stored(k, AtTpmCheck(k))
  BY DEF TpmRefused
<1>2. now \in Nat /\ \A x \in DOMAIN buckets : BucketOk(x, buckets[x])
  BY DEF IInv, BucketsOk
<1>3. BucketOk(k, AtTpmCheck(k))
  BY <1>2, AtTpmCheckOk
<1>4. Qps[k] > 0 => Refilled(k, AtTpmCheck(k)).tokens = Room(k)
  BY <1>2, <1>3, FreshAtChecks, RefilledAtOnce
<1>5. QED
  BY <1>1, <1>3, <1>4, RefusalKeeps

----------------------------------------------------------------------------
(* A reservation *)

\* What Granted adds to the history.
NewGrant(k, est) == [id |-> Cardinality(grants), key |-> k, at |-> now, est |-> est]

\* The parts of a granted step.
LEMMA GrantedStep ==
  ASSUME IInv, NEW k \in Keys, NEW est \in Estimates, Granted(k, est)
  PROVE  /\ grants' = grants \union {NewGrant(k, est)} /\ now' = now
         /\ GlobalQps > 0 => /\ ~(Cardinality(Pruned(globalMarks, Second)) >= GlobalQps)
                             /\ globalMarks' = Pruned(globalMarks, Second) \union {NewGrant(k, est)}
         /\ ~(GlobalQps > 0) => globalMarks' = globalMarks
         /\ Qps[k] > 0 => ~(AtQpsCheck(k).tokens < Second)
         /\ buckets' = Stored(k, Committed(k, AtTpmCheck(k), NewGrant(k, est)))
BY DEF Granted, NewGrant, GlobalFull, LiveGlobalMarks, QpsSpent

\* The new reservation is for the key that asked, now.
LEMMA NewGrantOk ==
  ASSUME IInv, NEW k \in Keys, NEW est \in Estimates
  PROVE  /\ NewGrant(k, est).id \in Nat /\ NewGrant(k, est).key = k
         /\ NewGrant(k, est).at = now /\ NewGrant(k, est).est = est
BY PartsAreFinite DEF IInv, NewGrant

\* The bucket after a reservation.
LEMMA CommittedOk ==
  ASSUME now \in Nat, NEW k \in Keys, NEW b, BucketOk(k, b),
         NEW g, Qps[k] > 0 => ~(b.tokens < Second)
  PROVE  LET c == Committed(k, b, g)
         IN  /\ c \in [tokens : Nat, last : Nat, tpmMarks : SUBSET (grants \union {g})]
             /\ c.tokens \in 0..(Qps[k] * Second) /\ c.last = b.last
             /\ c.tokens = IF Qps[k] > 0 THEN b.tokens - Second ELSE b.tokens
<1> DEFINE t == IF Qps[k] > 0 THEN b.tokens - Second ELSE b.tokens
           m == IF Tpm[k] > 0 THEN b.tpmMarks \union {g} ELSE b.tpmMarks
<1>1. Qps[k] * Second \in Nat /\ Second \in Nat
  BY LimitsAssumption
<1>2. t \in Nat /\ t \in 0..(Qps[k] * Second)
  BY <1>1 DEF BucketOk
<1>3. m \in SUBSET (grants \union {g})
  BY DEF BucketOk
<1>4. Committed(k, b, g) = [b EXCEPT !.tokens = t, !.tpmMarks = m]
  BY DEF Committed
<1> HIDE DEF t, m
<1>5. LET c == [b EXCEPT !.tokens = t, !.tpmMarks = m]
      IN  /\ c \in [tokens : Nat, last : Nat, tpmMarks : SUBSET (grants \union {g})]
          /\ c.tokens = t /\ c.last = b.last
  BY <1>2, <1>3 DEF BucketOk
<1>6. QED
  BY <1>2, <1>4, <1>5 DEF t

\* A reservation takes one request from the room of its key and of no other.
LEMMA GrantedBuckets ==
  ASSUME IInv, NEW k \in Keys, NEW est \in Estimates, Granted(k, est)
  PROVE  /\ BucketsOk'
         /\ \A x \in Keys : Qps[x] > 0 =>
              /\ Room(x)' = IF x = k THEN Room(x) - Second ELSE Room(x)
              /\ Room(x)' \in Nat
<1> DEFINE g == NewGrant(k, est)
           b == AtTpmCheck(k)
           c == Committed(k, b, g)
<1>1. now \in Nat /\ \A x \in DOMAIN buckets : BucketOk(x, buckets[x])
  BY DEF IInv, BucketsOk
<1>2. BucketOk(k, b) /\ b.tokens = AtQpsCheck(k).tokens
  BY <1>1, AtTpmCheckOk
<1>3. /\ grants' = grants \union {g} /\ now' = now /\ buckets' = Stored(k, c)
      /\ Qps[k] > 0 => ~(AtQpsCheck(k).tokens < Second)
  BY GrantedStep
<1> HIDE DEF g, b
<1>4. /\ c \in [tokens : Nat, last : Nat, tpmMarks : SUBSET (grants \union {g})]
      /\ c.tokens \in 0..(Qps[k] * Second) /\ c.last = b.last
      /\ c.tokens = IF Qps[k] > 0 THEN b.tokens - Second ELSE b.tokens
  BY <1>1, <1>2, <1>3, CommittedOk
<1> HIDE DEF c
<1>5. BucketsOk'
  BY <1>2, <1>3, <1>4, StoredOk DEF BucketOk
<1>6. ASSUME Qps[k] > 0
      PROVE  Refilled(k, c).tokens = Room(k) - Second /\ Room(k) - Second \in Nat
  <2>1. b.last = now /\ b.tokens = Room(k)
    BY <1>1, <1>6, FreshAtChecks DEF b
  <2>2. c.last = now /\ c.tokens = Room(k) - Second
    BY <1>4, <1>6, <2>1
  <2>3. (now - c.last) * Qps[k] = 0
    BY <1>1, <2>2, LimitsAssumption
  <2>4. c.tokens + (now - c.last) * Qps[k] = c.tokens /\ Capped(k, c.tokens) = c.tokens
    BY <1>4, <2>3, LimitsAssumption DEF Capped
  <2>5. Refilled(k, c).tokens = c.tokens
    BY <1>4, <2>4 DEF Refilled
  <2>6. QED
    BY <1>4, <2>2, <2>5
<1>7. \A x \in Keys : /\ Room(x)' = IF x = k THEN Refilled(k, c).tokens ELSE Room(x)
                     /\ Room(x) \in Nat
  BY <1>1, <1>3, StoredRoom, RoomRange
<1>8. QED
  BY <1>5, <1>6, <1>7

\* The marks of the last second include the new reservation.
LEMMA GrantedMarks ==
  ASSUME IInv, NEW k \in Keys, NEW est \in Estimates, Granted(k, est)
  PROVE  MarksComplete'
<1>1. CASE GlobalQps > 0
  BY <1>1, GrantedStep DEF IInv, MarksComplete, Pruned
<1>2. CASE ~(GlobalQps > 0)
  BY <1>2, GrantedStep DEF IInv, MarksComplete
<1>3. QED
  BY <1>1, <1>2

\* One more element is at most one more.
LEMMA OneMore ==
  ASSUME NEW S, IsFiniteSet(S), NEW e, NEW T, T \subseteq S \union {e}
  PROVE  /\ IsFiniteSet(T) /\ Cardinality(T) \in Nat /\ Cardinality(S) \in Nat
         /\ Cardinality(T) <= Cardinality(S) + 1
<1>1. IsFiniteSet(S \union {e}) /\ Cardinality(S \union {e}) <= Cardinality(S) + 1
      /\ Cardinality(S) \in Nat /\ Cardinality(S \union {e}) \in Nat
  BY FS_AddElement, FS_CardinalityType
<1>2. QED
  BY <1>1, FS_Subset, FS_CardinalityType

\* A reservation below the limit is at most the limit, in the second that ends
\* now; it is in no earlier one.
LEMMA GrantedCeiling ==
  ASSUME IInv, NEW k \in Keys, NEW est \in Estimates, Granted(k, est)
  PROVE  GlobalCeiling'
<1> DEFINE g == NewGrant(k, est)
           live == Pruned(globalMarks, Second)
<1>1. /\ grants' = grants \union {g} /\ now' = now /\ now \in Nat /\ g.at = now
      /\ Second \in Nat /\ Second > 0 /\ GlobalQps \in Nat
  BY GrantedStep, NewGrantOk, LimitsAssumption DEF IInv
<1>2. SUFFICES ASSUME GlobalQps > 0, NEW t \in 0..now
               PROVE  Cardinality(Within(grants', t, Second)) <= GlobalQps
  BY <1>1 DEF GlobalCeiling, Within
<1>3. CASE t < now
  <2>1. Within(grants', t, Second) = Within(grants, t, Second)
    BY <1>1, <1>3 DEF Within
  <2>2. QED
    BY <1>2, <2>1 DEF IInv, GlobalCeiling
<1>4. CASE t = now
  <2>1. live \subseteq grants /\ ~(Cardinality(live) >= GlobalQps)
    BY <1>2, GrantedStep DEF IInv, MarksComplete, Pruned
  <2>2. IsFiniteSet(live) /\ Cardinality(live) \in Nat
    BY <2>1, PartsAreFinite DEF IInv
  <2>3. Within(grants', t, Second) \subseteq live \union {g}
    BY <1>1, <1>2, <1>4 DEF Within, Pruned, IInv, MarksComplete
  <2>4. /\ Cardinality(Within(grants', t, Second)) <= Cardinality(live) + 1
        /\ Cardinality(Within(grants', t, Second)) \in Nat
    BY <2>2, <2>3, OneMore
  <2>5. QED
    BY <1>1, <2>1, <2>2, <2>4
<1>5. QED
  BY <1>1, <1>2, <1>3, <1>4

\* A reservation adds one to the intervals of its key that end now.
LEMMA GrantedBetween ==
  ASSUME IInv, NEW k \in Keys, NEW est \in Estimates, Granted(k, est),
         NEW x \in Keys, NEW from \in 0..now, NEW to \in from..now
  PROVE  /\ Cardinality(Between(grants, x, from, to)) \in Nat
         /\ Cardinality(Between(grants', x, from, to)) \in Nat
         /\ Cardinality(Between(grants', x, from, to)) <= Cardinality(Between(grants, x, from, to)) + 1
         /\ x # k \/ to < now => Between(grants', x, from, to) = Between(grants, x, from, to)
<1> DEFINE g == NewGrant(k, est)
<1>1. /\ grants' = grants \union {g} /\ now \in Nat /\ g.at = now /\ g.key = k
  BY GrantedStep, NewGrantOk DEF IInv
<1> HIDE DEF g
<1>2. IsFiniteSet(Between(grants, x, from, to))
  BY PartsAreFinite DEF IInv, Between, OfKey
<1>3. Between(grants', x, from, to) \subseteq Between(grants, x, from, to) \union {g}
  BY <1>1 DEF Between, OfKey
<1>4. x # k \/ to < now => Between(grants', x, from, to) = Between(grants, x, from, to)
  BY <1>1 DEF Between, OfKey
<1>5. QED
  BY <1>2, <1>3, <1>4, OneMore

\* What a reservation adds to the intervals that end now it takes from the room.
LEMMA GrantedRate ==
  ASSUME IInv, NEW k \in Keys, NEW est \in Estimates, Granted(k, est)
  PROVE  RoomIsEarned' /\ RequestRate'
<1>1. now' = now /\ now \in Nat
  BY GrantedStep DEF IInv
<1>2. ASSUME NEW x \in Keys, Qps[x] > 0, NEW from \in 0..now
      PROVE  Cardinality(Between(grants', x, from, now)) * Second + Room(x)'
               <= Qps[x] * Second + (now - from) * Qps[x]
  <2>1. Cardinality(Between(grants, x, from, now)) * Second + Room(x)
          <= Qps[x] * Second + (now - from) * Qps[x]
    BY <1>2 DEF IInv, RoomIsEarned
  <2>2. Room(x)' = IF x = k THEN Room(x) - Second ELSE Room(x)
    BY <1>2, GrantedBuckets
  <2>3. now \in from..now
    BY <1>1
  <2>4. /\ Cardinality(Between(grants, x, from, now)) \in Nat
        /\ Cardinality(Between(grants', x, from, now)) \in Nat
        /\ Cardinality(Between(grants', x, from, now)) <= Cardinality(Between(grants, x, from, now)) + 1
        /\ x # k => Between(grants', x, from, now) = Between(grants, x, from, now)
    BY <2>3, GrantedBetween
  <2>5. CASE x # k
    BY <2>1, <2>2, <2>4, <2>5
  <2>6. CASE x = k
    <3>1. Cardinality(Between(grants', x, from, now)) * Second
            <= Cardinality(Between(grants, x, from, now)) * Second + Second
      BY <2>4, LimitsAssumption
    <3>2. Room(x) \in Int
      BY RoomRange DEF IInv, BucketsOk
    <3>3. /\ Cardinality(Between(grants, x, from, now)) * Second \in Int
          /\ Cardinality(Between(grants', x, from, now)) * Second \in Int
          /\ Qps[x] * Second + (now - from) * Qps[x] \in Int /\ Second \in Int
      BY <2>4, GainIsNat, <1>1, LimitsAssumption
    <3>4. QED
      BY <2>1, <2>2, <2>6, <3>1, <3>2, <3>3
  <2>7. QED
    BY <2>5, <2>6
<1>3. RoomIsEarned'
  BY <1>1, <1>2 DEF RoomIsEarned, Between
<1>4. ASSUME NEW x \in Keys, Qps[x] > 0, NEW from \in 0..now, NEW to \in from..now
      PROVE  Cardinality(Between(grants', x, from, to)) * Second
               <= Qps[x] * Second + (to - from) * Qps[x]
  <2>1. CASE to < now
    <3>1. Between(grants', x, from, to) = Between(grants, x, from, to)
      BY <2>1, GrantedBetween
    <3>2. {g \in OfKey(x) : g.at \in from..to} = Between(grants, x, from, to)
      BY DEF OfKey, Between
    <3>3. Cardinality({g \in OfKey(x) : g.at \in from..to}) * Second
            <= Qps[x] * Second + (to - from) * Qps[x]
      BY <1>4 DEF IInv, RequestRate
    <3>4. QED
      BY <3>1, <3>2, <3>3
  <2>2. CASE to = now
    <3>1. Cardinality(Between(grants', x, from, now)) * Second + Room(x)'
            <= Qps[x] * Second + (now - from) * Qps[x]
      BY <1>2, <1>4
    <3>2. Room(x)' \in Nat
      BY <1>4, GrantedBuckets
    <3>3. Cardinality(Between(grants', x, from, now)) \in Nat
      BY <2>2, GrantedBetween
    <3>4. Cardinality(Between(grants', x, from, now)) * Second \in Int
          /\ Qps[x] * Second + (now - from) * Qps[x] \in Int
      BY <3>3, GainIsNat, <1>1, LimitsAssumption
    <3>5. QED
      BY <2>2, <3>1, <3>2, <3>4
  <2>3. QED
    BY <1>1, <2>1, <2>2
<1>5. RequestRate'
  <2>1. SUFFICES ASSUME NEW x \in Keys, Qps[x] > 0, NEW from \in 0..now, NEW to \in from..now
                 PROVE  Cardinality({g \in OfKey(x)' : g.at \in from..to}) * Second
                          <= Qps[x] * Second + (to - from) * Qps[x]
    BY <1>1 DEF RequestRate
  <2>2. {g \in OfKey(x)' : g.at \in from..to} = Between(grants', x, from, to)
    BY DEF OfKey, Between
  <2>3. QED
    BY <1>4, <2>1, <2>2
<1>6. QED
  BY <1>3, <1>5

\* A granted call.
LEMMA GrantedKeeps ==
  ASSUME IInv, NEW k \in Keys, NEW est \in Estimates, Granted(k, est)
  PROVE  IInv'
<1>1. now' \in Nat /\ HistoryOk'
  <2>1. IsFiniteSet(grants')
    BY GrantedStep, FS_AddElement DEF IInv, HistoryOk
  <2>2. QED
    BY <2>1, GrantedStep, NewGrantOk DEF IInv, HistoryOk
<1>2. QED
  BY <1>1, GrantedBuckets, GrantedMarks, GrantedCeiling, GrantedRate DEF IInv

----------------------------------------------------------------------------
(* Time *)

\* Time only takes marks out of the windows.
LEMMA TickHistory ==
  ASSUME IInv, Tick
  PROVE  BucketsOk' /\ now' \in Nat /\ HistoryOk' /\ MarksComplete'
<1>1. now' = now + 1 /\ now \in Nat /\ grants' = grants /\ buckets' = buckets
      /\ globalMarks' = globalMarks
  BY DEF IInv, Tick
<1>2. BucketsOk'
  BY <1>1 DEF IInv, BucketsOk, BucketOk
<1>3. HistoryOk'
  BY <1>1 DEF IInv, HistoryOk
<1>4. MarksComplete'
  BY <1>1, LimitsAssumption DEF IInv, MarksComplete, Pruned, HistoryOk
<1>5. QED
  BY <1>1, <1>2, <1>3, <1>4

\* The second that ends next holds no reservation that this one does not.
LEMMA TickCeiling ==
  ASSUME IInv, Tick
  PROVE  GlobalCeiling'
<1>1. now' = now + 1 /\ now \in Nat /\ grants' = grants
      /\ Second \in Nat /\ Second > 0 /\ GlobalQps \in Nat
  BY LimitsAssumption DEF IInv, Tick
<1>2. SUFFICES ASSUME GlobalQps > 0, NEW t \in 0..(now + 1)
               PROVE  Cardinality(Within(grants, t, Second)) <= GlobalQps
  BY <1>1 DEF GlobalCeiling, Within
<1>3. Cardinality(Within(grants, now, Second)) <= GlobalQps
  BY <1>1, <1>2 DEF IInv, GlobalCeiling
<1>4. CASE t = now + 1
  <2>1. Within(grants, t, Second) \subseteq Within(grants, now, Second)
    BY <1>1, <1>4 DEF Within, IInv, HistoryOk
  <2>2. IsFiniteSet(Within(grants, now, Second))
    BY PartsAreFinite DEF IInv, Within
  <2>3. /\ Cardinality(Within(grants, t, Second)) <= Cardinality(Within(grants, now, Second))
        /\ Cardinality(Within(grants, t, Second)) \in Nat
        /\ Cardinality(Within(grants, now, Second)) \in Nat
    BY <2>1, <2>2, FS_Subset, FS_CardinalityType
  <2>4. QED
    BY <1>1, <1>3, <2>3
<1>5. CASE t # now + 1
  BY <1>1, <1>2, <1>5 DEF IInv, GlobalCeiling
<1>6. QED
  BY <1>4, <1>5

\* One unit of time is worth at most one unit of the rate.
LEMMA OneUnit ==
  ASSUME NEW a \in Int, NEW q \in Int
  PROVE  (a + 1) * q = a * q + q
OBVIOUS

\* The cap lowers a gain and never adds to it, and capping on the way changes nothing.
LEMMA CappedGain ==
  ASSUME NEW k \in Keys, NEW t \in Nat, NEW u \in Nat, u = t + Qps[k]
  PROVE  /\ Capped(k, u) <= Capped(k, t) + Qps[k]
         /\ Capped(k, u) = Capped(k, Capped(k, t) + Qps[k])
         /\ Capped(k, u) \in 0..(Qps[k] * Second)
BY LimitsAssumption DEF Capped

\* In one unit of time a key gains at most its rate, and no more than fits.
LEMMA TickRoom ==
  ASSUME IInv, Tick, NEW x \in Keys
  PROVE  /\ Room(x)' \in 0..(Qps[x] * Second)
         /\ Room(x)' <= Room(x) + Qps[x]
         /\ Room(x)' = Capped(x, Room(x) + Qps[x])
         /\ Room(x) \in Nat
<1>1. now' = now + 1 /\ now \in Nat /\ buckets' = buckets
      /\ \A k \in DOMAIN buckets : BucketOk(k, buckets[k])
  BY DEF IInv, BucketsOk, Tick
<1>2. Room(x) \in Nat /\ Qps[x] \in Nat /\ Qps[x] * Second \in Nat
  BY <1>1, RoomRange, LimitsAssumption
<1>3. CASE x \in DOMAIN buckets
  <2> DEFINE b == buckets[x]
             t == b.tokens + (now - b.last) * Qps[x]
             u == b.tokens + (now + 1 - b.last) * Qps[x]
  <2>1. BucketOk(x, b) /\ BucketOf(x) = b /\ BucketOf(x)' = b
    BY <1>1, <1>3 DEF BucketOf
  <2>2. b.tokens \in Nat /\ now - b.last \in Nat
    BY <1>1, <2>1 DEF BucketOk
  <2>3. (now - b.last) * Qps[x] \in Nat
    BY <1>2, <2>2
  <2>4. (now + 1 - b.last) * Qps[x] = (now - b.last) * Qps[x] + Qps[x]
    <3>1. now + 1 - b.last = (now - b.last) + 1
      BY <1>1, <2>1 DEF BucketOk
    <3>2. QED
      BY <1>2, <2>2, <3>1, OneUnit
  <2>5. Room(x) = Capped(x, t)
    BY <1>1, <2>1, RefilledOk DEF Room
  <2>6. Refilled(x, BucketOf(x))' = With(b, Capped(x, u), now + 1)
    <3>1. Refilled(x, BucketOf(x))'
            = With(BucketOf(x)',
                   Capped(x, BucketOf(x)'.tokens + (now' - BucketOf(x)'.last) * Qps[x]),
                   now')
      BY DEF Refilled, With, Capped
    <3>2. BucketOf(x)' = b /\ now' = now + 1
      BY <1>1, <2>1
    <3> HIDE DEF b
    <3>3. BucketOf(x)'.tokens + (now' - BucketOf(x)'.last) * Qps[x] = u
      <4>1. b.tokens \in Nat /\ b.last \in Nat
        BY <2>1 DEF BucketOk
      <4>2. QED
        BY <1>1, <1>2, <3>2, <4>1
    <3> HIDE DEF u
    <3>4. QED
      BY <3>1, <3>2, <3>3
  <2>7. Room(x)' = Refilled(x, BucketOf(x))'.tokens
    BY DEF Room
  <2>8. With(b, Capped(x, u), now + 1).tokens = Capped(x, u)
    BY <2>1 DEF With, BucketOk
  <2>9. t \in Nat /\ u \in Nat /\ u = t + Qps[x]
    BY <1>2, <2>2, <2>3, <2>4
  <2> HIDE DEF t, u
  <2>10. QED
    BY <1>2, <2>5, <2>6, <2>7, <2>8, <2>9, CappedGain
<1>4. CASE x \notin DOMAIN buckets
  <2> DEFINE cap == Qps[x] * Second
             old == [tokens |-> cap, last |-> now, tpmMarks |-> {}]
             new == [tokens |-> cap, last |-> now + 1, tpmMarks |-> {}]
  <2>1. BucketOf(x) = old /\ BucketOf(x)' = new
    BY <1>1, <1>4 DEF BucketOf
  <2>2. Capped(x, cap) = cap /\ cap + 0 * Qps[x] = cap
        /\ now - now = 0 /\ (now + 1) - (now + 1) = 0
    BY <1>1, <1>2 DEF Capped
  <2>3. Refilled(x, old).tokens = cap
    BY <2>2 DEF Refilled
  <2>4. Refilled(x, BucketOf(x))' = [new EXCEPT !.tokens = Capped(x, @ + ((now + 1) - new.last) * Qps[x]), !.last = now + 1]
    BY <1>1, <2>1 DEF Refilled, Capped
  <2>5. Refilled(x, BucketOf(x))'.tokens = cap
    BY <2>2, <2>4
  <2>6. Room(x) = cap /\ Room(x)' = cap
    BY <2>1, <2>3, <2>5 DEF Room
  <2>7. Capped(x, cap + Qps[x]) = cap
    BY <1>2 DEF Capped
  <2>8. QED
    BY <1>2, <2>6, <2>7
<1>5. QED
  BY <1>3, <1>4

\* Intervals that end next hold what those that end now hold.
LEMMA TickRate ==
  ASSUME IInv, Tick
  PROVE  RoomIsEarned' /\ RequestRate'
<1>1. now' = now + 1 /\ now \in Nat /\ grants' = grants
  BY DEF IInv, Tick
<1>2. ASSUME NEW x \in Keys, Qps[x] > 0, NEW from \in 0..(now + 1)
      PROVE  /\ Cardinality(Between(grants, x, from, now + 1)) \in Nat
             /\ Cardinality(Between(grants, x, from, now + 1)) * Second + Room(x)'
                  <= Qps[x] * Second + (now + 1 - from) * Qps[x]
  <2>1. /\ Room(x)' \in 0..(Qps[x] * Second) /\ Room(x) \in Nat
        /\ Room(x)' <= Room(x) + Qps[x]
    BY TickRoom
  <2>2. Qps[x] \in Nat /\ Second \in Nat /\ Qps[x] * Second \in Nat
    BY LimitsAssumption
  <2>3. CASE from = now + 1
    <3>1. Between(grants, x, from, now + 1) = {}
      BY <1>1, <2>3 DEF Between, IInv, HistoryOk
    <3>2. Cardinality(Between(grants, x, from, now + 1)) = 0
      BY <3>1, FS_EmptySet
    <3>3. (now + 1 - from) * Qps[x] = 0
      BY <1>1, <2>2, <2>3
    <3>4. QED
      BY <2>1, <2>2, <3>2, <3>3
  <2>4. CASE from \in 0..now
    <3>1. Between(grants, x, from, now + 1) = Between(grants, x, from, now)
      BY <1>1 DEF Between, IInv, HistoryOk
    <3>2. Cardinality(Between(grants, x, from, now)) * Second + Room(x)
            <= Qps[x] * Second + (now - from) * Qps[x]
      BY <1>2, <2>4 DEF IInv, RoomIsEarned
    <3>3. Cardinality(Between(grants, x, from, now)) \in Nat
      BY PartsAreFinite DEF IInv, Between
    <3>4. (now + 1 - from) * Qps[x] = (now - from) * Qps[x] + Qps[x]
      <4>1. now + 1 - from = (now - from) + 1 /\ now - from \in Int
        BY <1>1, <2>4
      <4>2. QED
        BY <2>2, <4>1, OneUnit
    <3>5. /\ Cardinality(Between(grants, x, from, now)) * Second \in Int
          /\ (now - from) * Qps[x] \in Int
      BY <1>1, <2>2, <2>4, <3>3
    <3>6. QED
      BY <2>1, <2>2, <3>1, <3>2, <3>3, <3>4, <3>5
  <2>5. QED
    BY <1>1, <2>3, <2>4
<1>3. RoomIsEarned'
  BY <1>1, <1>2 DEF RoomIsEarned, Between
<1>4. RequestRate'
  <2>1. SUFFICES ASSUME NEW x \in Keys, Qps[x] > 0,
                        NEW from \in 0..(now + 1), NEW to \in from..(now + 1)
                 PROVE  Cardinality({g \in OfKey(x) : g.at \in from..to}) * Second
                          <= Qps[x] * Second + (to - from) * Qps[x]
    BY <1>1 DEF RequestRate, OfKey
  <2> DEFINE made == Cardinality({g \in OfKey(x) : g.at \in from..to})
  <2>2. CASE to = now + 1
    <3>1. made = Cardinality(Between(grants, x, from, now + 1))
      <4>1. {g \in OfKey(x) : g.at \in from..to} = Between(grants, x, from, now + 1)
        BY <2>2 DEF OfKey, Between
      <4>2. QED
        BY <4>1
    <3>2. /\ Cardinality(Between(grants, x, from, now + 1)) \in Nat
          /\ Cardinality(Between(grants, x, from, now + 1)) * Second + Room(x)'
                  <= Qps[x] * Second + (now + 1 - from) * Qps[x]
      BY <1>2, <2>1
    <3>3. Room(x)' \in Nat /\ Qps[x] * Second \in Int /\ (now + 1 - from) * Qps[x] \in Int
      BY <1>1, <2>1, TickRoom, LimitsAssumption
    <3>4. Cardinality(Between(grants, x, from, now + 1)) * Second \in Int
      BY <3>2, LimitsAssumption
    <3>5. Cardinality(Between(grants, x, from, now + 1)) * Second
            <= Qps[x] * Second + (now + 1 - from) * Qps[x]
      BY <3>2, <3>3, <3>4
    <3> HIDE DEF made
    <3>6. made * Second <= Qps[x] * Second + (to - from) * Qps[x]
      BY <1>1, <2>2, <3>1, <3>3, <3>5
    <3>7. QED
      BY <3>6 DEF made
  <2>3. CASE to # now + 1
    BY <1>1, <2>1, <2>3 DEF IInv, RequestRate
  <2>4. QED
    BY <2>2, <2>3
<1>5. QED
  BY <1>3, <1>4

----------------------------------------------------------------------------
(* The invariant *)

\* With no reservation made, every key has its full bucket and no more.
LEMMA InitIInv == Init => IInv
<1> SUFFICES ASSUME Init PROVE IInv
  OBVIOUS
<1>1. buckets = <<>> /\ globalMarks = {} /\ now = 0 /\ grants = {}
  BY DEF Init
<1>2. DOMAIN buckets = {}
  BY <1>1
<1>3. BucketsOk
  BY <1>2 DEF BucketsOk
<1>4. IsFiniteSet(grants) /\ Cardinality(grants) = 0
  BY <1>1, FS_EmptySet
<1>5. HistoryOk /\ MarksComplete
  BY <1>1, <1>4 DEF HistoryOk, MarksComplete, Pruned
<1>6. GlobalCeiling
  <2>1. \A t : Within(grants, t, Second) = grants
    BY <1>1 DEF Within
  <2>2. QED
    BY <1>4, <2>1, LimitsAssumption DEF GlobalCeiling
<1>7. RoomIsEarned
  <2>1. SUFFICES ASSUME NEW x \in Keys, Qps[x] > 0, NEW from \in 0..now
                 PROVE  Cardinality(Between(grants, x, from, now)) * Second + Room(x)
                          <= Qps[x] * Second + (now - from) * Qps[x]
    BY DEF RoomIsEarned
  <2>2. Between(grants, x, from, now) = grants
    BY <1>1 DEF Between
  <2>3. Room(x) \in Nat /\ Room(x) <= Qps[x] * Second
    BY <1>1, <1>2, RoomRange
  <2>4. (now - from) * Qps[x] = 0 /\ Qps[x] * Second \in Nat
    BY <1>1, LimitsAssumption
  <2>5. QED
    BY <1>4, <2>2, <2>3, <2>4, LimitsAssumption
<1>8. RequestRate
  <2>1. SUFFICES ASSUME NEW x \in Keys, Qps[x] > 0, NEW from \in 0..now, NEW to \in from..now
                 PROVE  Cardinality(Between(grants, x, from, to)) * Second
                          <= Qps[x] * Second + (to - from) * Qps[x]
    BY RateOfIntervals
  <2>2. Between(grants, x, from, to) = grants
    BY <1>1 DEF Between
  <2>3. (to - from) * Qps[x] = 0 /\ Qps[x] * Second \in Nat
    BY <1>1, LimitsAssumption
  <2>4. QED
    BY <1>4, <2>2, <2>3, LimitsAssumption
<1>9. QED
  BY <1>1, <1>3, <1>5, <1>6, <1>7, <1>8 DEF IInv

\* Every step keeps the invariant.
LEMMA NextIInv == IInv /\ [Next]_vars => IInv'
<1> SUFFICES ASSUME IInv, [Next]_vars PROVE IInv'
  OBVIOUS
<1>1. ASSUME NEW k \in Keys, NEW est \in Estimates, GlobalRefused(k, est) PROVE IInv'
  BY <1>1, GlobalRefusedKeeps
<1>2. ASSUME NEW k \in Keys, NEW est \in Estimates, QpsRefused(k, est) PROVE IInv'
  BY <1>2, QpsRefusedKeeps
<1>3. ASSUME NEW k \in Keys, NEW est \in Estimates, TpmRefused(k, est) PROVE IInv'
  BY <1>3, TpmRefusedKeeps
<1>4. ASSUME NEW k \in Keys, NEW est \in Estimates, Granted(k, est) PROVE IInv'
  BY <1>4, GrantedKeeps
<1>5. CASE Tick
  BY <1>5, TickHistory, TickCeiling, TickRate DEF IInv
<1>6. CASE UNCHANGED vars
  <2>1. now' = now /\ grants' = grants /\ buckets' = buckets /\ globalMarks' = globalMarks
    BY <1>6 DEF vars
  <2>2. BucketsOk' /\ MarksComplete'
    BY <2>1 DEF IInv, BucketsOk, BucketOk, MarksComplete, Pruned
  <2>3. \A x \in Keys : Room(x)' = Room(x)
    BY <2>1 DEF Room, Refilled, Capped, BucketOf
  <2>4. RoomIsEarned'
    BY <2>1, <2>3 DEF IInv, RoomIsEarned
  <2>5. QED
    BY <2>1, <2>2, <2>4, HistoryKept DEF IInv
<1>7. QED
  BY <1>1, <1>2, <1>3, <1>4, <1>5, <1>6 DEF Next

\* The invariant holds in every reachable state.
THEOREM Invariance == Spec => []IInv
BY InitIInv, NextIInv, PTL DEF Spec

----------------------------------------------------------------------------
(* The properties *)

\* Every variable keeps its type, no bucket is fuller than a second's requests,
\* and every mark stands for a reservation that was made.
THEOREM TypeCorrect == Spec => []TypeOK
<1>1. IInv => TypeOK
  BY DEF IInv, BucketsOk, BucketOk, HistoryOk, MarksComplete, TypeOK
<1>2. QED
  BY <1>1, Invariance, PTL

\* However calls for the keys follow each other, no second holds more
\* reservations than the ceiling, although marks are pruned at every call.
THEOREM CeilingHolds == Spec => []GlobalCeiling
BY Invariance, PTL DEF IInv

\* However refusals, refills and caps follow each other, a key is never admitted
\* more than a full bucket and what it gains, in any interval.
THEOREM RateHolds == Spec => []RequestRate
BY Invariance, PTL DEF IInv

----------------------------------------------------------------------------
(* What a refusal costs *)

\* Reservations are numbered: the next one is not in the history yet.
Numbered == \A g \in grants : g.id < Cardinality(grants)

\* Every step keeps the numbering.
LEMMA NextNumbered == IInv /\ Numbered /\ [Next]_vars => Numbered'
<1> SUFFICES ASSUME IInv, Numbered, [Next]_vars PROVE Numbered'
  OBVIOUS
<1>1. ASSUME NEW k \in Keys, NEW est \in Estimates, Granted(k, est)
      PROVE  Numbered'
  <2> DEFINE g == NewGrant(k, est)
  <2>1. grants' = grants \union {g} /\ IsFiniteSet(grants) /\ Cardinality(grants) \in Nat
    BY <1>1, GrantedStep, FS_CardinalityType DEF IInv, HistoryOk
  <2>2. g.id = Cardinality(grants)
    BY DEF NewGrant
  <2>3. g \notin grants
    BY <2>1, <2>2 DEF Numbered
  <2>4. Cardinality(grants') = Cardinality(grants) + 1
    BY <2>1, <2>3, FS_AddElement
  <2>5. \A h \in grants : h.id \in Nat /\ h.id < Cardinality(grants)
    BY DEF IInv, HistoryOk, Numbered
  <2> HIDE DEF g
  <2>6. QED
    BY <2>1, <2>2, <2>4, <2>5 DEF Numbered
<1>2. CASE grants' = grants
  BY <1>2 DEF Numbered
<1>3. CASE Tick \/ UNCHANGED vars
  BY <1>2, <1>3 DEF Tick, vars
<1>4. ASSUME NEW k \in Keys, NEW est \in Estimates,
             GlobalRefused(k, est) \/ QpsRefused(k, est) \/ TpmRefused(k, est)
      PROVE  Numbered'
  BY <1>2, <1>4 DEF GlobalRefused, QpsRefused, TpmRefused
<1>5. QED
  BY <1>1, <1>3, <1>4 DEF Next

\* Pruning twice is pruning once.
LEMMA PrunedTwice ==
  ASSUME NEW marks, NEW window
  PROVE  Pruned(Pruned(marks, window), window) = Pruned(marks, window)
BY DEF Pruned

\* The marks a bucket counts at either check are those it had.
LEMMA MarksAtChecks ==
  ASSUME now \in Nat, \A x \in DOMAIN buckets : BucketOk(x, buckets[x]), NEW k \in Keys
  PROVE  /\ AtQpsCheck(k).tpmMarks = BucketOf(k).tpmMarks
         /\ Pruned(AtTpmCheck(k).tpmMarks, Minute) = Pruned(BucketOf(k).tpmMarks, Minute)
<1>1. BucketOk(k, BucketOf(k)) /\ BucketOk(k, AtQpsCheck(k))
  BY BucketOfOk, AtQpsCheckOk
<1>2. Refilled(k, BucketOf(k)).tpmMarks = BucketOf(k).tpmMarks
  BY <1>1 DEF Refilled, BucketOk
<1>3. AtQpsCheck(k).tpmMarks = BucketOf(k).tpmMarks
  BY <1>2 DEF AtQpsCheck
<1>4. \/ AtTpmCheck(k) = AtQpsCheck(k)
      \/ AtTpmCheck(k).tpmMarks = Pruned(AtQpsCheck(k).tpmMarks, Minute)
  BY <1>1 DEF AtTpmCheck, BucketOk
<1>5. QED
  BY <1>3, <1>4, PrunedTwice

\* A call that stores a bucket with the room and the marks the key had.
LEMMA StoredIsFree ==
  ASSUME IInv, NEW k \in Keys, NEW b, BucketOk(k, b), now' = now, buckets' = Stored(k, b),
         Refilled(k, b).tokens = Room(k),
         Pruned(b.tpmMarks, Minute) = Pruned(BucketOf(k).tpmMarks, Minute)
  PROVE  \A x \in Keys : Headroom(x)' = Headroom(x)
<1>1. \A x \in Keys : Room(x)' = Room(x)
  BY StoredRoom
<1>2. \A x \in Keys : BucketOf(x)' = IF x = k THEN b ELSE BucketOf(x)
  BY DEF BucketOf, Stored
<1>3. \A x \in Keys : Pruned(BucketOf(x).tpmMarks, Minute)' = Pruned(BucketOf(x).tpmMarks, Minute)
  BY <1>2 DEF Pruned
<1>4. QED
  BY <1>1, <1>3 DEF Headroom, Room

\* The room of a key at the checks, also of one without a request limit, whose
\* bucket is always empty.
LEMMA RoomAtChecks ==
  ASSUME now \in Nat, \A x \in DOMAIN buckets : BucketOk(x, buckets[x]), NEW k \in Keys
  PROVE  /\ Refilled(k, AtQpsCheck(k)).tokens = Room(k)
         /\ Refilled(k, AtTpmCheck(k)).tokens = Room(k)
<1>1. BucketOk(k, AtQpsCheck(k)) /\ BucketOk(k, AtTpmCheck(k))
  BY AtQpsCheckOk, AtTpmCheckOk
<1>2. CASE Qps[k] > 0
  BY <1>1, <1>2, FreshAtChecks, RefilledAtOnce
<1>3. CASE ~(Qps[k] > 0)
  <2>1. Qps[k] * Second = 0
    BY <1>3, LimitsAssumption
  <2>2. \A b : BucketOk(k, b) => b.tokens = 0
    BY <2>1 DEF BucketOk
  <2>3. BucketOk(k, BucketOf(k))
    BY BucketOfOk
  <2>4. QED
    BY <1>1, <2>2, <2>3, RefilledOk DEF Room
<1>4. QED
  BY <1>2, <1>3

\* The three refusals.
Refused(k, est) == GlobalRefused(k, est) \/ QpsRefused(k, est) \/ TpmRefused(k, est)

\* Each of them leaves every key the room it had.
LEMMA RefusedHeadroom ==
  ASSUME IInv, NEW k \in Keys, NEW est \in Estimates, Refused(k, est)
  PROVE  /\ \A x \in Keys : Headroom(x)' = Headroom(x)
         /\ globalMarks' = LiveGlobalMarks
<1>1. now \in Nat /\ \A x \in DOMAIN buckets : BucketOk(x, buckets[x])
  BY DEF IInv, BucketsOk
<1>2. CASE GlobalRefused(k, est)
  BY <1>2 DEF GlobalRefused, Headroom, Refilled, Capped, BucketOf, Pruned
<1>3. CASE QpsRefused(k, est)
  <2>1. /\ buckets' = Stored(k, AtQpsCheck(k)) /\ globalMarks' = LiveGlobalMarks
        /\ now' = now
    BY <1>3 DEF QpsRefused
  <2>2. BucketOk(k, AtQpsCheck(k))
    BY <1>1, AtQpsCheckOk
  <2>3. QED
    BY <1>1, <2>1, <2>2, MarksAtChecks, RoomAtChecks, StoredIsFree
<1>4. CASE TpmRefused(k, est)
  <2>1. /\ buckets' = Stored(k, AtTpmCheck(k)) /\ globalMarks' = LiveGlobalMarks
        /\ now' = now
    BY <1>4 DEF TpmRefused
  <2>2. BucketOk(k, AtTpmCheck(k))
    BY <1>1, AtTpmCheckOk
  <2>3. QED
    BY <1>1, <2>1, <2>2, MarksAtChecks, RoomAtChecks, StoredIsFree
<1>5. QED
  BY <1>2, <1>3, <1>4 DEF Refused

\* A refusal, for whatever reason and with whatever the call already did by
\* then, costs no key and not the ceiling any of their room.
THEOREM RefusalsAreFree == Spec => RefusalIsFree
<1> DEFINE Free == grants' = grants /\ now' = now =>
                     /\ \A k \in Keys : Headroom(k)' = Headroom(k)
                     /\ Pruned(globalMarks, Second)' = Pruned(globalMarks, Second)
<1>1. ASSUME IInv, Numbered, Next PROVE Free
  <2> SUFFICES ASSUME grants' = grants, now' = now
               PROVE  /\ \A k \in Keys : Headroom(k)' = Headroom(k)
                      /\ Pruned(globalMarks, Second)' = Pruned(globalMarks, Second)
    OBVIOUS
  <2>1. now \in Nat
    BY <1>1 DEF IInv
  <2>2. globalMarks' = LiveGlobalMarks =>
          Pruned(globalMarks, Second)' = Pruned(globalMarks, Second)
    BY DEF LiveGlobalMarks, Pruned
  <2>3. ASSUME NEW k \in Keys, NEW est \in Estimates, Refused(k, est)
        PROVE  /\ \A x \in Keys : Headroom(x)' = Headroom(x)
               /\ globalMarks' = LiveGlobalMarks
    BY <1>1, <2>3, RefusedHeadroom
  <2>4. ASSUME NEW k \in Keys, NEW est \in Estimates, Granted(k, est)
        PROVE  FALSE
    <3>1. NewGrant(k, est) \in grants
      BY <1>1, <2>4, GrantedStep
    <3>2. NewGrant(k, est).id = Cardinality(grants) /\ Cardinality(grants) \in Nat
      BY <1>1, FS_CardinalityType DEF NewGrant, IInv, HistoryOk
    <3>3. QED
      BY <1>1, <3>1, <3>2 DEF Numbered
  <2>5. ~Tick
    BY <2>1 DEF Tick
  <2>6. QED
    BY <1>1, <2>2, <2>3, <2>4, <2>5 DEF Next, Refused
<1>2. Init => Numbered
  BY DEF Init, Numbered
<1>3. IInv /\ Numbered /\ [Next]_vars => [Free]_vars
  BY <1>1
<1>4. QED
  BY <1>2, <1>3, NextNumbered, Invariance, PTL DEF Spec, RefusalIsFree

----------------------------------------------------------------------------
(* Sums over finite sets of marks *)

\* A family of subsets of a finite set has a least member.
LEMMA LeastSubset ==
  ASSUME NEW S, IsFiniteSet(S), NEW F \in SUBSET (SUBSET S), F # {}
  PROVE  \E T \in F : \A U \in F : ~(U \subseteq T /\ U # T)
<1>1. IsWellFoundedOn(StrictSubsetOrdering(S), FiniteSubsetsOf(S))
  BY FS_StrictSubsetOrderingWellFounded
<1>2. F \subseteq FiniteSubsetsOf(S)
  BY FS_Subset DEF FiniteSubsetsOf
<1>3. PICK T \in F : \A U \in F : ~(<<U, T>> \in StrictSubsetOrdering(S))
  BY <1>1, <1>2, WFMin, Zenon
<1>4. QED
  BY <1>3 DEF StrictSubsetOrdering

\* The element that a fold takes from a set first.
First(s) == CHOOSE x \in s : TRUE

\* The equation of a function that sums the subsets of S.
Sums(S, f) ==
  f = [s \in SUBSET S |-> IF s = {} THEN 0 ELSE First(s).est + f[s \ {First(s)}]]

SumFcn(S) == CHOOSE f : Sums(S, f)

\* TokenSum is such a function, if there is one.
LEMMA TokenSumIsFcn == \A S : TokenSum(S) = SumFcn(S)[S]
BY DEF TokenSum, MapThenSumSet, MapThenFoldSet, SumFcn, Sums, First

\* Two of them agree where they both are defined.
LEMMA SumsAgree ==
  ASSUME NEW S, IsFiniteSet(S), NEW T \in SUBSET S, NEW f, Sums(S, f), NEW g, Sums(T, g),
         NEW s \in SUBSET T
  PROVE  f[s] = g[s]
<1> DEFINE Differ == {u \in SUBSET T : f[u] # g[u]}
<1>1. SUFFICES ASSUME Differ # {} PROVE FALSE
  OBVIOUS
<1>2. IsFiniteSet(T)
  BY FS_Subset
<1>3. PICK u \in Differ : \A v \in Differ : ~(v \subseteq u /\ v # u)
  <2>1. IsFiniteSet(T) /\ Differ \in SUBSET (SUBSET T)
    BY <1>2
  <2> HIDE DEF Differ
  <2>2. QED
    BY <1>1, <2>1, LeastSubset
<1>4. u # {}
  BY DEF Sums
<1>5. First(u) \in u
  BY <1>4 DEF First
<1>6. f[u \ {First(u)}] = g[u \ {First(u)}]
  BY <1>3, <1>5
<1>7. f[u] = First(u).est + f[u \ {First(u)}] /\ g[u] = First(u).est + g[u \ {First(u)}]
  BY <1>4 DEF Sums
<1>8. QED
  BY <1>6, <1>7

\* There is one for every finite set.
LEMMA SumsExist ==
  ASSUME NEW S, IsFiniteSet(S)
  PROVE  Sums(S, SumFcn(S))
<1> DEFINE Without == {T \in SUBSET S : ~\E f : Sums(T, f)}
<1>1. SUFFICES ASSUME Without # {} PROVE FALSE
  BY DEF SumFcn
<1>2. PICK T \in Without : \A U \in Without : ~(U \subseteq T /\ U # T)
  <2>1. IsFiniteSet(S) /\ Without \in SUBSET (SUBSET S)
    OBVIOUS
  <2> HIDE DEF Without
  <2>2. QED
    BY <1>1, <2>1, LeastSubset
<1>3. ASSUME NEW U \in SUBSET T, U # T
      PROVE  Sums(U, SumFcn(U)) /\ IsFiniteSet(U)
  BY <1>2, <1>3, FS_Subset DEF SumFcn
<1> DEFINE rest(s) == s \ {First(s)}
           f == [s \in SUBSET T |-> IF s = {} THEN 0 ELSE First(s).est + SumFcn(rest(s))[rest(s)]]
<1>4. ASSUME NEW s \in SUBSET T, s # T
      PROVE  f[s] = SumFcn(s)[s]
  <2>1. SumFcn(s) = [t \in SUBSET s |-> IF t = {} THEN 0 ELSE First(t).est + SumFcn(s)[rest(t)]]
    BY <1>3, <1>4 DEF Sums
  <2>2. CASE s = {}
    BY <2>1, <2>2
  <2>3. CASE s # {}
    <3>1. First(s) \in s
      BY <2>3 DEF First
    <3>2. rest(s) \in SUBSET s /\ rest(s) \in SUBSET T /\ rest(s) # T
      BY <3>1
    <3>3. SumFcn(s)[rest(s)] = SumFcn(rest(s))[rest(s)]
      BY <1>3, <1>4, <3>2, SumsAgree
    <3>4. SumFcn(s)[s] = First(s).est + SumFcn(s)[rest(s)]
      BY <2>1, <2>3
    <3>5. QED
      BY <2>3, <3>3, <3>4
  <2>4. QED
    BY <2>2, <2>3
<1>5. ASSUME NEW s \in SUBSET T, s # {}
      PROVE  SumFcn(rest(s))[rest(s)] = f[rest(s)]
  <2>1. First(s) \in s
    BY <1>5 DEF First
  <2>2. rest(s) \in SUBSET T /\ rest(s) # T
    BY <2>1
  <2> HIDE DEF rest, f
  <2>3. QED
    BY <1>4, <2>2
<1>6. Sums(T, f)
  <2> HIDE DEF rest
  <2>1. f = [s \in SUBSET T |-> IF s = {} THEN 0 ELSE First(s).est + f[rest(s)]]
    BY <1>5
  <2> HIDE DEF f
  <2>2. QED
    BY <2>1 DEF Sums, rest
<1> HIDE DEF f
<1>7. QED
  BY <1>6

\* A sum is what is taken first and the sum of the rest.
LEMMA TokenSumFirst ==
  ASSUME NEW S, IsFiniteSet(S)
  PROVE  TokenSum(S) = IF S = {} THEN 0 ELSE First(S).est + TokenSum(S \ {First(S)})
<1> DEFINE R == S \ {First(S)}
<1>1. IsFiniteSet(R) /\ R \in SUBSET S
  BY FS_Subset
<1>2. Sums(S, SumFcn(S)) /\ Sums(R, SumFcn(R))
  BY <1>1, SumsExist
<1> HIDE DEF R
<1>3. SumFcn(S)[R] = SumFcn(R)[R]
  BY <1>1, <1>2, SumsAgree
<1>4. SumFcn(S)[S] = IF S = {} THEN 0 ELSE First(S).est + SumFcn(S)[R]
  BY <1>2 DEF Sums, R
<1>5. QED
  BY <1>3, <1>4, TokenSumIsFcn DEF R

\* A finite set of marks.
Marks(S) == IsFiniteSet(S) /\ \A m \in S : m.est \in Nat

\* Sums are numbers.
LEMMA TokenSumIsNat ==
  ASSUME NEW S, Marks(S)
  PROVE  TokenSum(S) \in Nat
<1> DEFINE Bad == {T \in SUBSET S : TokenSum(T) \notin Nat}
<1>1. SUFFICES ASSUME Bad # {} PROVE FALSE
  OBVIOUS
<1>2. PICK T \in Bad : \A U \in Bad : ~(U \subseteq T /\ U # T)
  <2>1. IsFiniteSet(S) /\ Bad \in SUBSET (SUBSET S)
    BY DEF Marks
  <2> HIDE DEF Bad
  <2>2. QED
    BY <1>1, <2>1, LeastSubset
<1>3. IsFiniteSet(T)
  BY FS_Subset DEF Marks
<1>4. T # {}
  BY <1>2, <1>3, TokenSumFirst
<1>5. First(T) \in T
  BY <1>4 DEF First
<1>6. TokenSum(T \ {First(T)}) \in Nat
  BY <1>2, <1>5
<1>7. TokenSum(T) = First(T).est + TokenSum(T \ {First(T)})
  BY <1>3, <1>4, TokenSumFirst
<1>8. QED
  BY <1>2, <1>5, <1>6, <1>7 DEF Marks

\* Whatever mark is taken, the sum is its estimate and the sum of the others: the
\* order in which the code goes through the marks does not matter.
LEMMA TokenSumAny ==
  ASSUME NEW S, Marks(S), NEW x \in S
  PROVE  TokenSum(S) = x.est + TokenSum(S \ {x})
<1> DEFINE Bad == {T \in SUBSET S : \E y \in T : TokenSum(T) # y.est + TokenSum(T \ {y})}
<1>1. SUFFICES ASSUME Bad # {} PROVE FALSE
  OBVIOUS
<1>2. PICK T \in Bad : \A U \in Bad : ~(U \subseteq T /\ U # T)
  <2>1. IsFiniteSet(S) /\ Bad \in SUBSET (SUBSET S)
    BY DEF Marks
  <2> HIDE DEF Bad
  <2>2. QED
    BY <1>1, <2>1, LeastSubset
<1>3. PICK y \in T : TokenSum(T) # y.est + TokenSum(T \ {y})
  BY <1>2
<1> DEFINE z == First(T)
<1>4. z \in T
  BY <1>3 DEF First
<1>5. \A U \in SUBSET S : IsFiniteSet(U) /\ Marks(U)
  BY FS_Subset DEF Marks
<1>6. TokenSum(T) = z.est + TokenSum(T \ {z})
  BY <1>3, <1>5, TokenSumFirst
<1> HIDE DEF z
<1>7. z # y
  BY <1>3, <1>6
<1>8. T \ {z} \notin Bad /\ T \ {y} \notin Bad
  BY <1>2, <1>3, <1>4
<1>9. TokenSum(T \ {z}) = y.est + TokenSum((T \ {z}) \ {y})
  BY <1>3, <1>7, <1>8
<1>10. TokenSum(T \ {y}) = z.est + TokenSum((T \ {y}) \ {z})
  BY <1>4, <1>7, <1>8
<1>11. (T \ {z}) \ {y} = (T \ {y}) \ {z}
  OBVIOUS
<1>12. TokenSum((T \ {y}) \ {z}) \in Nat /\ y.est \in Nat /\ z.est \in Nat
  BY <1>3, <1>4, <1>5, TokenSumIsNat DEF Marks
<1>13. QED
  BY <1>3, <1>6, <1>9, <1>10, <1>11, <1>12

\* Fewer marks have a smaller sum.
LEMMA TokenSumGrows ==
  ASSUME NEW S, Marks(S), NEW T \in SUBSET S
  PROVE  TokenSum(T) <= TokenSum(S)
<1> DEFINE Bad == {U \in SUBSET S : T \subseteq U /\ ~(TokenSum(T) <= TokenSum(U))}
<1>1. SUFFICES ASSUME Bad # {} PROVE FALSE
  OBVIOUS
<1>2. PICK U \in Bad : \A V \in Bad : ~(V \subseteq U /\ V # U)
  <2>1. IsFiniteSet(S) /\ Bad \in SUBSET (SUBSET S)
    BY DEF Marks
  <2> HIDE DEF Bad
  <2>2. QED
    BY <1>1, <2>1, LeastSubset
<1>3. \A V \in SUBSET S : Marks(V) /\ TokenSum(V) \in Nat
  BY FS_Subset, TokenSumIsNat DEF Marks
<1>4. PICK x \in U : x \notin T
  <2>1. TokenSum(T) <= TokenSum(T)
    BY <1>3
  <2>2. U # T /\ T \subseteq U
    BY <1>2, <2>1
  <2>3. QED
    BY <2>2
<1>5. TokenSum(U) = x.est + TokenSum(U \ {x}) /\ x.est \in Nat
  BY <1>3, TokenSumAny DEF Marks
<1>6. TokenSum(T) <= TokenSum(U \ {x})
  BY <1>2, <1>4
<1>7. TokenSum(T) \in Nat /\ TokenSum(U) \in Nat /\ TokenSum(U \ {x}) \in Nat
  BY <1>3
<1>8. QED
  BY <1>2, <1>5, <1>6, <1>7

----------------------------------------------------------------------------
(* The token limit *)

\* Whatever is pruned from a key's token window, the marks of the last minute are
\* there, and no other key's.
TokenMarks ==
  \A k \in Keys : Tpm[k] > 0 =>
    /\ BucketOf(k).tpmMarks \subseteq OfKey(k)
    /\ Pruned(OfKey(k), Minute) \subseteq BucketOf(k).tpmMarks

TokenInv == TokenMarks /\ TokenCeiling

\* Reservations can be summed.
LEMMA GrantsAreMarks ==
  ASSUME IInv, NEW S \in SUBSET grants
  PROVE  Marks(S)
BY PartsAreFinite, LimitsAssumption DEF IInv, HistoryOk, Marks

\* With no reservation there is nothing to sum.
LEMMA InitTokenInv == Init => TokenInv
<1> SUFFICES ASSUME Init PROVE TokenInv
  OBVIOUS
<1>1. buckets = <<>> /\ grants = {} /\ DOMAIN buckets = {}
  BY DEF Init
<1>2. TokenMarks
  BY <1>1 DEF TokenMarks, BucketOf, OfKey, Pruned
<1>3. \A k, t : Within(OfKey(k), t, Minute) = {}
  BY <1>1 DEF Within, OfKey
<1>4. TokenSum({}) = 0
  BY FS_EmptySet, TokenSumFirst
<1>5. TokenCeiling
  BY <1>3, <1>4, LimitsAssumption DEF TokenCeiling
<1>6. QED
  BY <1>2, <1>5 DEF TokenInv

\* The marks a bucket has after the second check are those of the last minute.
LEMMA MarksAtTpmCheck ==
  ASSUME IInv, NEW k \in Keys, Tpm[k] > 0
  PROVE  AtTpmCheck(k).tpmMarks = Pruned(BucketOf(k).tpmMarks, Minute)
<1>1. now \in Nat /\ \A x \in DOMAIN buckets : BucketOk(x, buckets[x])
  BY DEF IInv, BucketsOk
<1>2. BucketOk(k, AtQpsCheck(k)) /\ AtQpsCheck(k).tpmMarks = BucketOf(k).tpmMarks
  BY <1>1, AtQpsCheckOk, MarksAtChecks
<1>3. QED
  BY <1>2 DEF AtTpmCheck, BucketOk

\* A step that reserves nothing and takes no time may prune.
LEMMA TokenInvKept ==
  ASSUME TokenInv, now' = now, grants' = grants,
         \A x \in Keys : Tpm[x] > 0 =>
           /\ BucketOf(x)'.tpmMarks \subseteq BucketOf(x).tpmMarks
           /\ Pruned(BucketOf(x).tpmMarks, Minute) \subseteq BucketOf(x)'.tpmMarks
  PROVE  TokenInv'
<1>1. \A x : OfKey(x)' = OfKey(x)
  BY DEF OfKey
<1>2. TokenCeiling'
  BY <1>1 DEF TokenInv, TokenCeiling, Within
<1>3. ASSUME NEW x \in Keys, Tpm[x] > 0
      PROVE  /\ BucketOf(x)'.tpmMarks \subseteq OfKey(x)
             /\ Pruned(OfKey(x), Minute) \subseteq BucketOf(x)'.tpmMarks
  BY <1>3 DEF TokenInv, TokenMarks, Pruned
<1>4. \A x : Pruned(OfKey(x), Minute)' = Pruned(OfKey(x), Minute)
  BY <1>1 DEF Pruned
<1>5. QED
  BY <1>1, <1>2, <1>3, <1>4 DEF TokenInv, TokenMarks

\* So does a refusal.
LEMMA RefusedTokens ==
  ASSUME IInv, TokenInv, NEW k \in Keys, NEW est \in Estimates, Refused(k, est)
  PROVE  TokenInv'
<1>1. now \in Nat /\ \A x \in DOMAIN buckets : BucketOk(x, buckets[x])
  BY DEF IInv, BucketsOk
<1>2. now' = now /\ grants' = grants
  BY DEF Refused, GlobalRefused, QpsRefused, TpmRefused
<1>3. \A x : Pruned(BucketOf(x).tpmMarks, Minute) \subseteq BucketOf(x).tpmMarks
  BY DEF Pruned
<1>4. CASE GlobalRefused(k, est)
  <2>1. \A x : BucketOf(x)' = BucketOf(x)
    BY <1>4 DEF GlobalRefused, BucketOf
  <2>2. QED
    BY <1>2, <1>3, <2>1, TokenInvKept
<1>5. CASE QpsRefused(k, est)
  <2>1. \A x \in Keys : BucketOf(x)' = IF x = k THEN AtQpsCheck(k) ELSE BucketOf(x)
    BY <1>5 DEF QpsRefused, Stored, BucketOf
  <2>2. AtQpsCheck(k).tpmMarks = BucketOf(k).tpmMarks
    BY <1>1, MarksAtChecks
  <2>3. QED
    BY <1>2, <1>3, <2>1, <2>2, TokenInvKept
<1>6. CASE TpmRefused(k, est)
  <2>1. \A x \in Keys : BucketOf(x)' = IF x = k THEN AtTpmCheck(k) ELSE BucketOf(x)
    BY <1>6 DEF TpmRefused, Stored, BucketOf
  <2>2. QED
    BY <1>2, <1>3, <2>1, MarksAtTpmCheck, TokenInvKept
<1>7. QED
  BY <1>4, <1>5, <1>6 DEF Refused

\* An estimate that fits beside the marks of the last minute fits into the minute
\* that ends now; no earlier one changes.
LEMMA GrantedTokens ==
  ASSUME IInv, TokenInv, NEW k \in Keys, NEW est \in Estimates, Granted(k, est)
  PROVE  TokenInv'
<1> DEFINE g == NewGrant(k, est)
           live == Pruned(BucketOf(k).tpmMarks, Minute)
<1>1. /\ grants' = grants \union {g} /\ now' = now /\ now \in Nat
      /\ g.at = now /\ g.key = k /\ g.est = est
      /\ Minute \in Nat /\ Minute > 0 /\ est \in Nat
  BY GrantedStep, NewGrantOk, LimitsAssumption DEF IInv
<1>2. /\ Tpm[k] > 0 => ~(TokenSum(AtTpmCheck(k).tpmMarks) + est > Tpm[k])
      /\ buckets' = Stored(k, Committed(k, AtTpmCheck(k), g))
  BY DEF Granted, TpmSpent, NewGrant
<1>3. \A x \in Keys : BucketOf(x)' = IF x = k THEN Committed(k, AtTpmCheck(k), g) ELSE BucketOf(x)
  <2> DEFINE c == Committed(k, AtTpmCheck(k), g)
  <2>1. buckets' = Stored(k, c)
    BY <1>2
  <2> HIDE DEF c
  <2>2. /\ DOMAIN buckets' = DOMAIN buckets \union {k}
        /\ \A x \in DOMAIN buckets' : buckets'[x] = IF x = k THEN c ELSE buckets[x]
    BY <2>1 DEF Stored
  <2>3. \A x \in Keys : BucketOf(x)' = IF x = k THEN c ELSE BucketOf(x)
    BY <1>1, <2>2 DEF BucketOf
  <2>4. QED
    BY <2>3 DEF c
<1>4. Tpm[k] > 0 => BucketOf(k)'.tpmMarks = live \union {g}
  <2>1. now \in Nat /\ \A x \in DOMAIN buckets : BucketOk(x, buckets[x])
    BY DEF IInv, BucketsOk
  <2>2. BucketOk(k, AtTpmCheck(k))
    BY <2>1, AtTpmCheckOk
  <2>3. Tpm[k] > 0 => Committed(k, AtTpmCheck(k), g).tpmMarks = AtTpmCheck(k).tpmMarks \union {g}
    BY <2>2 DEF Committed, BucketOk
  <2>4. QED
    BY <1>3, <2>3, MarksAtTpmCheck
<1> HIDE DEF g
<1>5. \A x : OfKey(x)' = IF x = k THEN OfKey(x) \union {g} ELSE OfKey(x)
  BY <1>1 DEF OfKey
<1>6. TokenMarks'
  <2>1. SUFFICES ASSUME NEW x \in Keys, Tpm[x] > 0
                 PROVE  /\ BucketOf(x)'.tpmMarks \subseteq OfKey(x)'
                        /\ Pruned(OfKey(x)', Minute) \subseteq BucketOf(x)'.tpmMarks
    BY <1>1 DEF TokenMarks, Pruned
  <2>2. /\ BucketOf(x).tpmMarks \subseteq OfKey(x)
        /\ Pruned(OfKey(x), Minute) \subseteq BucketOf(x).tpmMarks
    BY <2>1 DEF TokenInv, TokenMarks
  <2>3. CASE x = k
    <3>1. BucketOf(x)'.tpmMarks = live \union {g} /\ OfKey(x)' = OfKey(x) \union {g}
      BY <1>4, <1>5, <2>1, <2>3
    <3>2. QED
      BY <2>2, <2>3, <3>1 DEF Pruned
  <2>4. CASE x # k
    BY <1>3, <1>5, <2>2, <2>4
  <2>5. QED
    BY <2>3, <2>4
<1>7. TokenCeiling'
  <2>1. SUFFICES ASSUME NEW x \in Keys, Tpm[x] > 0, NEW t \in 0..now
                 PROVE  TokenSum(Within(OfKey(x)', t, Minute)) <= Tpm[x]
    BY <1>1 DEF TokenCeiling, Within
  <2>2. TokenSum(Within(OfKey(x), t, Minute)) <= Tpm[x]
    BY <2>1 DEF TokenInv, TokenCeiling
  <2>3. CASE x # k \/ t < now
    <3>1. Within(OfKey(x)', t, Minute) = Within(OfKey(x), t, Minute)
      BY <1>1, <1>5, <2>3 DEF Within
    <3>2. QED
      BY <2>2, <3>1
  <2>4. CASE x = k /\ t = now
    <3>1. Within(OfKey(x)', t, Minute) \subseteq live \union {g}
      BY <1>1, <1>5, <2>1, <2>4 DEF Within, TokenInv, TokenMarks, Pruned
    <3>2. live \subseteq grants
      BY <2>1, <2>4 DEF TokenInv, TokenMarks, Pruned, OfKey
    <3>3. Marks(live)
      BY <3>2, GrantsAreMarks
    <3>4. Marks(live \union {g})
      BY <1>1, <3>3, FS_AddElement DEF Marks
    <3>5. TokenSum(live) \in Nat /\ TokenSum(live \union {g}) \in Nat
      BY <3>3, <3>4, TokenSumIsNat
    <3>6. TokenSum(live \union {g}) <= TokenSum(live) + est
      <4>1. CASE g \in live
        <5> HIDE DEF live
        <5>1. live \union {g} = live
          BY <4>1
        <5>2. TokenSum(live \union {g}) = TokenSum(live)
          BY <5>1
        <5>3. QED
          BY <1>1, <3>5, <5>2
      <4>2. CASE g \notin live
        <5>1. (live \union {g}) \ {g} = live
          BY <4>2
        <5>2. TokenSum(live \union {g}) = est + TokenSum(live)
          BY <1>1, <3>4, <5>1, TokenSumAny
        <5>3. QED
          BY <1>1, <3>5, <5>2
      <4>3. QED
        BY <4>1, <4>2
    <3>7. TokenSum(live) + est <= Tpm[k]
      BY <1>1, <1>2, <2>1, <2>4, <3>5, MarksAtTpmCheck, LimitsAssumption
    <3>8. TokenSum(Within(OfKey(x)', t, Minute)) <= TokenSum(live \union {g})
      BY <3>1, <3>4, TokenSumGrows
    <3>9. Marks(Within(OfKey(x)', t, Minute))
      BY <3>1, <3>4, FS_Subset DEF Marks
    <3>10. TokenSum(Within(OfKey(x)', t, Minute)) \in Nat
      BY <3>9, TokenSumIsNat
    <3>11. QED
      BY <1>1, <2>1, <2>4, <3>5, <3>6, <3>7, <3>8, <3>10, LimitsAssumption
  <2>5. QED
    BY <1>1, <2>3, <2>4
<1>8. QED
  BY <1>6, <1>7 DEF TokenInv

\* The minute that ends next holds no reservation that this one does not.
LEMMA TickTokens ==
  ASSUME IInv, TokenInv, Tick
  PROVE  TokenInv'
<1>1. now' = now + 1 /\ now \in Nat /\ grants' = grants /\ buckets' = buckets
      /\ Minute \in Nat
  BY LimitsAssumption DEF IInv, Tick
<1>2. \A x : OfKey(x)' = OfKey(x)
  BY <1>1 DEF OfKey
<1>3. \A x \in Keys : BucketOf(x)'.tpmMarks = BucketOf(x).tpmMarks
  BY <1>1 DEF BucketOf
<1>4. ASSUME NEW x
      PROVE  Pruned(OfKey(x), Minute)' \subseteq Pruned(OfKey(x), Minute)
  BY <1>1, <1>2 DEF Pruned, OfKey, IInv, HistoryOk
<1>5. TokenMarks'
  BY <1>2, <1>3, <1>4 DEF TokenInv, TokenMarks
<1>6. SUFFICES ASSUME NEW x \in Keys, Tpm[x] > 0, NEW t \in 0..(now + 1)
               PROVE  TokenSum(Within(OfKey(x), t, Minute)) <= Tpm[x]
  BY <1>1, <1>2, <1>5 DEF TokenInv, TokenCeiling, Within
<1>7. CASE t \in 0..now
  BY <1>6, <1>7 DEF TokenInv, TokenCeiling
<1>8. CASE t = now + 1
  <2> DEFINE last == Within(OfKey(x), now, Minute)
             next == Within(OfKey(x), t, Minute)
  <2>1. next \subseteq last /\ last \subseteq grants
    BY <1>1, <1>8 DEF Within, OfKey, IInv, HistoryOk
  <2>2. TokenSum(last) <= Tpm[x]
    BY <1>1, <1>6 DEF TokenInv, TokenCeiling
  <2> HIDE DEF last, next
  <2>3. Marks(last) /\ Marks(next)
    BY <2>1, GrantsAreMarks
  <2>4. TokenSum(next) <= TokenSum(last) /\ TokenSum(last) \in Nat /\ TokenSum(next) \in Nat
    BY <2>1, <2>3, TokenSumGrows, TokenSumIsNat
  <2>5. TokenSum(next) <= Tpm[x]
    BY <1>6, <2>2, <2>4, LimitsAssumption
  <2>6. QED
    BY <2>5 DEF next
<1>9. QED
  BY <1>1, <1>7, <1>8

\* Every step keeps it.
LEMMA NextTokenInv == IInv /\ TokenInv /\ [Next]_vars => TokenInv'
<1> SUFFICES ASSUME IInv, TokenInv, [Next]_vars PROVE TokenInv'
  OBVIOUS
<1>1. CASE UNCHANGED vars
  <2>1. now' = now /\ grants' = grants /\ \A x : BucketOf(x)' = BucketOf(x)
    BY <1>1 DEF vars, BucketOf
  <2>2. \A x : Pruned(BucketOf(x).tpmMarks, Minute) \subseteq BucketOf(x).tpmMarks
    BY DEF Pruned
  <2>3. QED
    BY <2>1, <2>2, TokenInvKept
<1>2. CASE Tick
  BY <1>2, TickTokens
<1>3. ASSUME NEW k \in Keys, NEW est \in Estimates, Refused(k, est) PROVE TokenInv'
  BY <1>3, RefusedTokens
<1>4. ASSUME NEW k \in Keys, NEW est \in Estimates, Granted(k, est) PROVE TokenInv'
  BY <1>4, GrantedTokens
<1>5. QED
  BY <1>1, <1>2, <1>3, <1>4 DEF Next, Refused

\* However calls for the keys follow each other, and although each prunes the marks
\* before it sums them, no minute holds estimates of a key beyond its limit.
THEOREM TokensHold == Spec => []TokenCeiling
<1>1. Spec => []TokenInv
  BY InitTokenInv, NextTokenInv, Invariance, PTL DEF Spec
<1>2. QED
  BY <1>1, PTL DEF TokenInv

----------------------------------------------------------------------------
(* A quiet key *)

\* Since a key was last admitted its bucket has gained at its rate, up to its size.
RoomComesBack ==
  \A k \in Keys : Qps[k] > 0 =>
    \A from \in Int :
      from <= now /\ (\A g \in OfKey(k) : g.at <= from) => Capped(k, (now - from) * Qps[k]) <= Room(k)

\* What has been gained since now is nothing.
LEMMA NothingGained ==
  ASSUME NEW k \in Keys, NEW t \in Int
  PROVE  Capped(k, (t - t) * Qps[k]) = 0
<1>1. (t - t) * Qps[k] = 0
  BY LimitsAssumption
<1>2. QED
  BY <1>1, LimitsAssumption DEF Capped

\* Every bucket is full at first.
LEMMA InitRoomComesBack == Init => RoomComesBack
<1> SUFFICES ASSUME Init, NEW k \in Keys, Qps[k] > 0, NEW from \in Int, from <= now
             PROVE  Capped(k, (now - from) * Qps[k]) <= Room(k)
  BY DEF RoomComesBack
<1>1. now = 0 /\ DOMAIN buckets = {}
  BY DEF Init
<1>2. Qps[k] * Second \in Nat /\ Qps[k] \in Nat
  BY LimitsAssumption
<1>3. BucketOf(k) = [tokens |-> Qps[k] * Second, last |-> now, tpmMarks |-> {}]
  BY <1>1 DEF BucketOf
<1>4. BucketOk(k, BucketOf(k))
  BY <1>1, BucketOfOk
<1>5. Room(k) = Qps[k] * Second
  BY <1>1, <1>3, <1>4, RefilledAtOnce DEF Room
<1>6. (now - from) * Qps[k] \in Nat
  BY <1>1, <1>2
<1>7. QED
  BY <1>5, <1>6, <1>2, CappedRange

\* A tick adds the rate to both sides; both are capped alike.
LEMMA TickRoomComesBack ==
  ASSUME IInv, RoomComesBack, Tick
  PROVE  RoomComesBack'
<1>1. now' = now + 1 /\ now \in Nat /\ grants' = grants
  BY DEF IInv, Tick
<1>2. SUFFICES ASSUME NEW k \in Keys, Qps[k] > 0, NEW from \in Int, from <= now + 1,
                      \A g \in OfKey(k) : g.at <= from
               PROVE  Capped(k, (now + 1 - from) * Qps[k]) <= Room(k)'
  BY <1>1 DEF RoomComesBack, OfKey, Capped
<1>3. /\ Room(k)' \in 0..(Qps[k] * Second) /\ Room(k) \in Nat
      /\ Room(k)' = Capped(k, Room(k) + Qps[k])
  BY TickRoom
<1>4. CASE from = now + 1
  BY <1>1, <1>2, <1>3, <1>4, NothingGained, LimitsAssumption
<1>5. CASE from <= now
  <2> DEFINE gain == (now - from) * Qps[k]
  <2>1. gain \in Nat /\ Qps[k] \in Nat /\ Qps[k] * Second \in Nat
    BY <1>1, <1>2, <1>5, LimitsAssumption
  <2>2. (now + 1 - from) * Qps[k] = gain + Qps[k]
    <3>1. now + 1 - from = (now - from) + 1 /\ now - from \in Int
      BY <1>1, <1>2
    <3>2. QED
      BY <2>1, <3>1, OneUnit
  <2>3. Capped(k, gain) <= Room(k)
    BY <1>2, <1>5 DEF RoomComesBack
  <2> HIDE DEF gain
  <2>4. QED
    BY <1>3, <2>1, <2>2, <2>3 DEF Capped
<1>6. QED
  BY <1>1, <1>2, <1>4, <1>5

\* Every step keeps it: a refusal changes no room, a reservation is made now.
LEMMA NextRoomComesBack == IInv /\ RoomComesBack /\ [Next]_vars => RoomComesBack'
<1> SUFFICES ASSUME IInv, RoomComesBack, [Next]_vars PROVE RoomComesBack'
  OBVIOUS
<1>1. CASE Tick
  BY <1>1, TickRoomComesBack
<1>2. ASSUME now' = now, grants' = grants, \A x \in Keys : Room(x)' = Room(x)
      PROVE  RoomComesBack'
  BY <1>2 DEF RoomComesBack, OfKey, Capped
<1>3. CASE UNCHANGED vars
  BY <1>2, <1>3 DEF vars, Room, Refilled, Capped, BucketOf
<1>4. ASSUME NEW k \in Keys, NEW est \in Estimates, Refused(k, est) PROVE RoomComesBack'
  <2>1. now' = now /\ grants' = grants
    BY <1>4 DEF Refused, GlobalRefused, QpsRefused, TpmRefused
  <2>2. \A x \in Keys : Headroom(x)'.requests = Headroom(x).requests
    BY <1>4, RefusedHeadroom
  <2>3. QED
    BY <1>2, <2>1, <2>2 DEF Headroom, Room
<1>5. ASSUME NEW k \in Keys, NEW est \in Estimates, Granted(k, est) PROVE RoomComesBack'
  <2>1. /\ grants' = grants \union {NewGrant(k, est)} /\ now' = now /\ now \in Nat
        /\ NewGrant(k, est).key = k /\ NewGrant(k, est).at = now
    BY <1>5, GrantedStep, NewGrantOk DEF IInv
  <2>2. SUFFICES ASSUME NEW x \in Keys, Qps[x] > 0, NEW from \in Int, from <= now,
                        \A g \in OfKey(x)' : g.at <= from
                 PROVE  Capped(x, (now - from) * Qps[x]) <= Room(x)'
    BY <2>1 DEF RoomComesBack, OfKey, Capped
  <2>3. Room(x)' = (IF x = k THEN Room(x) - Second ELSE Room(x)) /\ Room(x)' \in Nat
    BY <1>5, <2>2, GrantedBuckets
  <2>4. CASE x = k
    <3>1. NewGrant(k, est) \in OfKey(x)'
      BY <2>1, <2>4 DEF OfKey
    <3>2. from = now
      BY <2>1, <2>2, <3>1
    <3>3. QED
      BY <2>1, <2>3, <3>2, NothingGained
  <2>5. CASE x # k
    <3>1. OfKey(x)' = OfKey(x)
      BY <2>1, <2>5 DEF OfKey
    <3>2. QED
      BY <2>2, <2>3, <2>5, <3>1 DEF RoomComesBack
  <2>6. QED
    BY <2>4, <2>5
<1>6. QED
  BY <1>1, <1>3, <1>4, <1>5 DEF Next, Refused

\* Marks and bucket let a quiet key in.
LEMMA QuietIsAdmitted == IInv /\ TokenInv /\ RoomComesBack => QuietKeyIsAdmitted
<1> SUFFICES ASSUME IInv, TokenInv, RoomComesBack, NEW k \in Keys, NEW est \in Estimates,
                    \A g \in OfKey(k) : g.at <= now - Second /\ g.at <= now - Minute,
                    GlobalQps > 0 => Cardinality(Within(grants, now, Second)) < GlobalQps,
                    Tpm[k] > 0 => est <= Tpm[k]
             PROVE  ~GlobalFull /\ ~QpsSpent(k) /\ ~TpmSpent(k, est)
  BY DEF QuietKeyIsAdmitted
<1>1. /\ now \in Nat /\ Second \in Nat /\ Second > 0 /\ Minute \in Nat /\ GlobalQps \in Nat
      /\ est \in Nat /\ Qps[k] \in Nat /\ Tpm[k] \in Nat /\ Qps[k] * Second \in Nat
  BY LimitsAssumption DEF IInv
<1>2. ~GlobalFull
  <2>1. SUFFICES ASSUME GlobalQps > 0
                 PROVE  ~(Cardinality(Pruned(globalMarks, Second)) >= GlobalQps)
    BY DEF GlobalFull, LiveGlobalMarks
  <2>2. Pruned(globalMarks, Second) \subseteq Within(grants, now, Second)
    BY <1>1 DEF IInv, MarksComplete, HistoryOk, Pruned, Within
  <2>3. IsFiniteSet(Within(grants, now, Second)) /\ Cardinality(Within(grants, now, Second)) \in Nat
    BY PartsAreFinite DEF IInv, Within
  <2>4. /\ Cardinality(Pruned(globalMarks, Second)) <= Cardinality(Within(grants, now, Second))
        /\ Cardinality(Pruned(globalMarks, Second)) \in Nat
    BY <2>2, <2>3, FS_Subset, FS_CardinalityType
  <2>5. QED
    BY <1>1, <2>1, <2>3, <2>4
<1>3. ~QpsSpent(k)
  <2>1. SUFFICES ASSUME Qps[k] > 0 PROVE ~(AtQpsCheck(k).tokens < Second)
    BY DEF QpsSpent
  <2>2. AtQpsCheck(k).tokens = Room(k) /\ Room(k) \in Nat
    BY <1>1, <2>1, FreshAtChecks, RoomRange DEF IInv, BucketsOk
  <2>3. Capped(k, (now - (now - Second)) * Qps[k]) <= Room(k)
    BY <1>1, <2>1 DEF RoomComesBack
  <2>4. (now - (now - Second)) * Qps[k] = Qps[k] * Second
    <3>1. now - (now - Second) = Second
      BY <1>1
    <3>2. QED
      BY <1>1, <3>1
  <2>5. Capped(k, Qps[k] * Second) = Qps[k] * Second
    BY <1>1 DEF Capped
  <2>6. Qps[k] * Second >= Second
    BY <1>1, <2>1
  <2>7. QED
    BY <1>1, <2>2, <2>3, <2>4, <2>5, <2>6
<1>4. ~TpmSpent(k, est)
  <2>1. SUFFICES ASSUME Tpm[k] > 0 PROVE ~(TokenSum(AtTpmCheck(k).tpmMarks) + est > Tpm[k])
    BY DEF TpmSpent
  <2>2. AtTpmCheck(k).tpmMarks = {}
    <3>1. Pruned(BucketOf(k).tpmMarks, Minute) = {}
      <4>1. BucketOf(k).tpmMarks \subseteq OfKey(k)
        BY <2>1 DEF TokenInv, TokenMarks
      <4>2. ASSUME NEW g \in OfKey(k) PROVE ~(g.at > now - Minute)
        BY <1>1 DEF OfKey, IInv, HistoryOk
      <4>3. QED
        BY <4>1, <4>2 DEF Pruned
    <3>2. QED
      BY <2>1, <3>1, MarksAtTpmCheck
  <2>3. TokenSum({}) = 0
    BY FS_EmptySet, TokenSumFirst
  <2>4. QED
    BY <1>1, <2>1, <2>2, <2>3
<1>5. QED
  BY <1>2, <1>3, <1>4

\* No refusal outlives its cause: a key that was quiet for both windows finds a full
\* bucket and no marks, whatever calls were refused to it and to others meanwhile.
THEOREM QuietKeysAreAdmitted == Spec => []QuietKeyIsAdmitted
<1>1. Spec => []TokenInv
  BY InitTokenInv, NextTokenInv, Invariance, PTL DEF Spec
<1>2. Spec => []RoomComesBack
  BY InitRoomComesBack, NextRoomComesBack, Invariance, PTL DEF Spec
<1>3. QED
  BY <1>1, <1>2, Invariance, QuietIsAdmitted, PTL
=============================================================================
