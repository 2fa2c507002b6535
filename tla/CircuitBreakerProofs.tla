------------------------- MODULE CircuitBreakerProofs -------------------------
(***************************************************************************)
(* Proofs about CircuitBreaker for every set of callers, threshold, sample *)
(* size, cooldown and bound.                                               *)
(***************************************************************************)
EXTENDS CircuitBreaker, FiniteSetTheorems, TLAPS

----------------------------------------------------------------------------
(* What the operators of BreakerEntry do to an entry *)

\* What an admitted call does to each field of an entry.
LEMMA AfterAllowFields ==
  ASSUME NEW e \in Entry, e.probes <= 1, NEW t \in Nat, Admits(e, t)
  PROVE  /\ AfterAllow(e) \in Entry
         /\ AfterAllow(e).probes <= 1
         /\ e.state = Closed => AfterAllow(e) = e
         /\ e.state # Closed => AfterAllow(e).state = HalfOpen
         /\ e.state = Opened => AfterAllow(e).probes = 0
         /\ e.state = HalfOpen => e.probes = 0 /\ AfterAllow(e).probes = 1
<1>0. Closed # Opened /\ Closed # HalfOpen /\ Opened # HalfOpen
  BY DEF Closed, Opened, HalfOpen
<1>1. CASE e.state = Closed
  <2>1. AfterAllow(e) = e
    BY <1>0, <1>1 DEF AfterAllow
  <2>2. QED
    BY <1>0, <1>1, <2>1
<1>2. CASE e.state = Opened
  <2>1. AfterAllow(e) = [e EXCEPT !.state = HalfOpen, !.probes = 0]
    BY <1>0, <1>2 DEF AfterAllow, HalfOpened
  <2>2. [e EXCEPT !.state = HalfOpen, !.probes = 0] \in Entry
    BY DEF Entry
  <2>3. AfterAllow(e).state = HalfOpen /\ AfterAllow(e).probes = 0
    BY <2>1 DEF Entry
  <2>4. QED
    BY <1>0, <1>2, <2>1, <2>2, <2>3
<1>3. CASE e.state = HalfOpen
  <2>1. AfterAllow(e) = [e EXCEPT !.probes = @ + 1]
    BY <1>0, <1>3 DEF AfterAllow
  <2>2. e.probes = 0
    BY <1>3 DEF Admits, Entry
  <2>3. QED
    BY <1>0, <1>3, <2>1, <2>2 DEF Entry
<1>4. QED
  BY <1>1, <1>2, <1>3 DEF Entry

\* Counting an outcome in a closed entry.
LEMMA CountedFields ==
  ASSUME NEW e \in Entry, NEW success \in BOOLEAN
  PROVE  /\ Counted(e, success) \in Entry
         /\ Counted(e, success).state = e.state
         /\ Counted(e, success).probes = e.probes
         /\ Counted(e, success).total = e.total + 1
         /\ success => Counted(e, success).failures = e.failures
         /\ ~success => Counted(e, success).failures = e.failures + 1
<1> DEFINE ok(v)  == IF success THEN v + 1 ELSE v
           bad(v) == IF success THEN v ELSE v + 1
<1>1. ok(e.successes) \in Nat /\ bad(e.failures) \in Nat
  BY DEF Entry
<1>2. Counted(e, success) = [e EXCEPT !.total = @ + 1,
                                      !.successes = ok(e.successes),
                                      !.failures = bad(e.failures)]
  BY DEF Counted
<1> HIDE DEF ok, bad
<1>3. Counted(e, success) \in Entry
  <2>1. ASSUME NEW t \in Nat, NEW s \in Nat, NEW f \in Nat
        PROVE  [e EXCEPT !.total = t, !.successes = s, !.failures = f] \in Entry
    BY DEF Entry
  <2>2. e.total + 1 \in Nat
    BY DEF Entry
  <2>3. QED
    BY <1>1, <1>2, <2>1, <2>2
<1>4. /\ Counted(e, success).state = e.state
      /\ Counted(e, success).probes = e.probes
      /\ Counted(e, success).total = e.total + 1
      /\ Counted(e, success).failures = bad(e.failures)
  BY <1>2 DEF Entry
<1>5. QED
  BY <1>3, <1>4 DEF bad

\* Opening and closing an entry.
LEMMA OpenResetFields ==
  ASSUME NEW e \in Entry, NEW t \in Nat
  PROVE  /\ Open(e, t) \in Entry /\ Reset(e) \in Entry
         /\ Open(e, t).state = Opened /\ Open(e, t).openedAt = t
         /\ Open(e, t).probes = e.probes
         /\ Reset(e).state = Closed /\ Reset(e).probes = 0
         /\ Reset(e).total = 0 /\ Reset(e).failures = 0
BY DEF Open, Reset, Entry, Closed, Opened, HalfOpen

\* What Record does to an entry, state by state.
LEMMA AfterRecordFields ==
  ASSUME NEW e \in Entry, e.probes <= 1, NEW success \in BOOLEAN, NEW t \in Nat
  PROVE  LET f == AfterRecord(e, success, t)
             c == Counted(e, success)
         IN  /\ f \in Entry /\ f.probes <= 1
             /\ e.state = HalfOpen /\ success =>
                  f.state = Closed /\ f.total = 0 /\ f.failures = 0
             /\ e.state = HalfOpen /\ ~success => f.state = Opened /\ f.openedAt = t
             /\ e.state = Opened => f = e
             /\ e.state = Closed /\ OverThreshold(c.failures, c.total) =>
                  f.state = Opened /\ f.openedAt = t
             /\ e.state = Closed /\ ~OverThreshold(c.failures, c.total) => f = c
<1> DEFINE f == AfterRecord(e, success, t)
           c == Counted(e, success)
<1>0. Closed # Opened /\ Closed # HalfOpen /\ Opened # HalfOpen
  BY DEF Closed, Opened, HalfOpen
<1>c. c \in Entry /\ c.probes = e.probes
  BY CountedFields
<1>1. CASE e.state = HalfOpen
  <2>1. f = Decided(e, success, t)
    BY <1>0, <1>1 DEF AfterRecord
  <2>2. QED
    BY <1>0, <1>1, <2>1, OpenResetFields DEF Decided
<1>2. CASE e.state = Opened
  <2>1. f = e
    BY <1>0, <1>2 DEF AfterRecord
  <2>2. QED
    BY <1>0, <1>2, <2>1
<1>3. CASE e.state = Closed
  <2>1. f = IF OverThreshold(c.failures, c.total) THEN Open(c, t) ELSE c
    BY <1>0, <1>3 DEF AfterRecord, Evaluated
  <2>2. QED
    BY <1>0, <1>3, <1>c, <2>1, OpenResetFields
<1>4. QED
  BY <1>1, <1>2, <1>3 DEF Entry

\* No outcome at all is not yet a reason to trip.
LEMMA EmptySampleGood == ~OverThreshold(0, 0)
BY BreakerConfig DEF OverThreshold

----------------------------------------------------------------------------
(* The inductive invariant *)

\* A closed entry counts exactly the outcomes recorded since it closed.
CountersMatchSample ==
  entry.state = Closed => /\ entry.total = sample.ok + sample.bad
                          /\ entry.failures = sample.bad

\* An open entry remembers when it opened; in the other states the cooldown
\* that followed the last trip is over.
TripTimeKept ==
  IF entry.state = Opened THEN entry.openedAt = lastTrip
                          ELSE now - lastTrip >= Cooldown

IInv ==
  /\ TypeOK
  /\ HalfOpenHasItsProbes
  /\ CountersMatchSample
  /\ ClosedWhileSampleGood
  /\ TripTimeKept

\* The initial states satisfy the inductive invariant.
LEMMA InitIInv == Init => IInv
<1> SUFFICES ASSUME Init PROVE IInv
  OBVIOUS
<1> USE DEF Init
<1>0. Closed # Opened /\ Closed # HalfOpen
  BY DEF Closed, Opened, HalfOpen
<1>1. entry \in Entry /\ entry.state = Closed /\ entry.total = 0 /\ entry.failures = 0
      /\ entry.probes = 0
  BY DEF NewEntry, Entry
<1>2. sample \in [ok : Nat, bad : Nat] /\ sample.ok = 0 /\ sample.bad = 0
  BY DEF EmptySample
<1>3. TypeOK
  BY <1>1, <1>2, BreakerConfig DEF TypeOK
<1>4. HalfOpenHasItsProbes
  BY <1>0, <1>1 DEF HalfOpenHasItsProbes
<1>5. CountersMatchSample /\ ClosedWhileSampleGood
  BY <1>1, <1>2, EmptySampleGood DEF CountersMatchSample, ClosedWhileSampleGood
<1>6. TripTimeKept
  BY <1>0, <1>1, BreakerConfig DEF TripTimeKept
<1>7. QED
  BY <1>3, <1>4, <1>5, <1>6 DEF IInv

\* An admitted call keeps the invariant.
LEMMA AllowedIInv ==
  ASSUME IInv, NEW c \in Callers, Allowed(c)
  PROVE  IInv'
<1> USE DEF IInv, Allowed
<1>0. Closed # Opened /\ Closed # HalfOpen /\ Opened # HalfOpen
  BY DEF Closed, Opened, HalfOpen
<1>t. /\ entry \in Entry /\ entry.probes <= 1 /\ now \in Nat
      /\ entry.state \in {Closed, Opened, HalfOpen}
      /\ calling \subseteq Callers /\ probing \subseteq Callers
      /\ c \notin calling
      /\ UNCHANGED <<now, lastTrip, sample>>
  BY DEF TypeOK, Entry, MayAsk
<1>f. /\ entry' \in Entry /\ entry'.probes <= 1
      /\ entry.state = Closed => entry' = entry
      /\ entry.state # Closed => entry'.state = HalfOpen
      /\ entry.state = Opened => entry'.probes = 0
      /\ entry.state = HalfOpen => entry.probes = 0 /\ entry'.probes = 1
  BY <1>t, AfterAllowFields
<1>1. TypeOK'
  BY <1>t, <1>f DEF TypeOK
<1>2. HalfOpenHasItsProbes'
  <2>1. CASE entry.state = Closed
    BY <1>0, <1>f, <2>1 DEF HalfOpenHasItsProbes
  <2>2. CASE entry.state # Closed
    <3>1. IsFiniteSet(probing) /\ c \notin probing /\ probing \subseteq calling
      BY <1>0, <1>t, <2>2, CallersAssumption, FS_Subset, FS_EmptySet DEF HalfOpenHasItsProbes
    <3>2. Cardinality(probing') = Cardinality(probing) + 1
      BY <2>2, <3>1, FS_AddElement
    <3>3. Cardinality(probing) = IF entry.state = HalfOpen THEN 1 ELSE 0
      BY <1>0, <1>f, <1>t, <2>2, FS_EmptySet DEF HalfOpenHasItsProbes
    <3>4. probing' \subseteq calling'
      BY <2>2, <3>1
    <3>5. QED
      BY <1>0, <1>t, <1>f, <2>2, <3>2, <3>3, <3>4 DEF HalfOpenHasItsProbes
  <2>3. QED
    BY <2>1, <2>2
<1>3. CountersMatchSample'
  BY <1>0, <1>t, <1>f DEF CountersMatchSample
<1>4. ClosedWhileSampleGood'
  BY <1>0, <1>t, <1>f DEF ClosedWhileSampleGood
<1>5. TripTimeKept'
  BY <1>0, <1>t, <1>f DEF TripTimeKept, Admits, CooledDown
<1>6. QED
  BY <1>1, <1>2, <1>3, <1>4, <1>5

\* A recorded outcome keeps the invariant.
LEMMA ReturnIInv ==
  ASSUME IInv, NEW c \in Callers, NEW success \in BOOLEAN, Return(c, success)
  PROVE  IInv'
<1> USE DEF IInv, Return
<1>0. Closed # Opened /\ Closed # HalfOpen /\ Opened # HalfOpen
  BY DEF Closed, Opened, HalfOpen
<1> DEFINE counted == Counted(entry, success)
           over    == OverThreshold(counted.failures, counted.total)
<1>t. /\ entry \in Entry /\ entry.probes <= 1 /\ now \in Nat /\ lastTrip \in Int
      /\ entry.state \in {Closed, Opened, HalfOpen}
      /\ calling \subseteq Callers /\ probing \subseteq Callers
      /\ sample.ok \in Nat /\ sample.bad \in Nat
      /\ now' = now
  BY DEF TypeOK, Entry
<1>f. /\ entry' \in Entry /\ entry'.probes <= 1
      /\ entry.state = HalfOpen /\ success =>
           entry'.state = Closed /\ entry'.total = 0 /\ entry'.failures = 0
      /\ entry.state = HalfOpen /\ ~success => entry'.state = Opened /\ entry'.openedAt = now
      /\ entry.state = Opened => entry' = entry
      /\ entry.state = Closed /\ over => entry'.state = Opened /\ entry'.openedAt = now
      /\ entry.state = Closed /\ ~over => entry' = counted
  BY <1>t, AfterRecordFields
<1>c. /\ counted.state = entry.state
      /\ counted.total = entry.total + 1
      /\ success => counted.failures = entry.failures
      /\ ~success => counted.failures = entry.failures + 1
  BY <1>t, CountedFields
<1> HIDE DEF counted, over
<1>s. /\ entry.state = Closed => /\ sample'.ok + sample'.bad = counted.total
                                 /\ sample'.bad = counted.failures
      /\ entry.state = HalfOpen /\ success => sample' = EmptySample
      /\ entry.state = HalfOpen /\ ~success => sample' = sample
      /\ entry.state = Opened => sample' = sample
  <2>1. CASE entry.state = Closed
    <3>1. sample' = Recorded(success)
      BY <2>1
    <3>2. success => sample'.ok = sample.ok + 1 /\ sample'.bad = sample.bad
      BY <3>1 DEF Recorded, TypeOK
    <3>3. ~success => sample'.ok = sample.ok /\ sample'.bad = sample.bad + 1
      BY <3>1 DEF Recorded, TypeOK
    <3>4. QED
      BY <1>0, <1>t, <1>c, <2>1, <3>2, <3>3 DEF CountersMatchSample
  <2>2. CASE entry.state # Closed
    BY <1>0, <1>t, <1>f, <2>2
  <2>3. QED
    BY <2>1, <2>2
<1>1. TypeOK'
  <2>1. sample' \in [ok : Nat, bad : Nat]
    BY DEF TypeOK, Recorded, EmptySample
  <2>2. QED
    BY <1>t, <1>f, <2>1 DEF TypeOK
<1>2. HalfOpenHasItsProbes'
  BY <1>0, <1>t, <1>f, <1>c DEF HalfOpenHasItsProbes
<1>3. CountersMatchSample'
  <2>1. CASE entry.state = Closed
    BY <1>0, <1>f, <1>s, <2>1 DEF CountersMatchSample
  <2>2. CASE entry.state # Closed
    BY <1>0, <1>t, <1>f, <1>s, <2>2 DEF CountersMatchSample, EmptySample
  <2>3. QED
    BY <2>1, <2>2
<1>4. ClosedWhileSampleGood'
  <2>1. CASE entry.state = Closed
    <3>1. over <=> OverThreshold(sample'.bad, sample'.ok + sample'.bad)
      BY <1>s, <2>1 DEF over
    <3>2. QED
      BY <1>0, <1>f, <1>c, <2>1, <3>1 DEF ClosedWhileSampleGood
  <2>2. CASE entry.state = HalfOpen /\ success
    <3>1. EmptySample.bad = 0 /\ EmptySample.ok + EmptySample.bad = 0
      BY DEF EmptySample
    <3>2. sample' = EmptySample
      BY <1>s, <2>2
    <3>3. QED
      BY <1>f, <2>2, <3>1, <3>2, EmptySampleGood DEF ClosedWhileSampleGood
  <2>3. CASE entry.state = HalfOpen /\ ~success
    BY <1>0, <1>f, <1>s, <2>3 DEF ClosedWhileSampleGood
  <2>4. CASE entry.state = Opened
    BY <1>0, <1>f, <1>s, <2>4 DEF ClosedWhileSampleGood
  <2>5. QED
    BY <1>t, <2>1, <2>2, <2>3, <2>4
<1>5. TripTimeKept'
  <2>1. lastTrip' = IF entry.state # Opened /\ entry'.state = Opened THEN now ELSE lastTrip
    OBVIOUS
  <2>2. QED
    BY <1>0, <1>t, <1>f, <1>c, <2>1 DEF TripTimeKept
<1>6. QED
  BY <1>1, <1>2, <1>3, <1>4, <1>5

\* Every step keeps the invariant.
LEMMA NextIInv == IInv /\ [Next]_vars => IInv'
<1> SUFFICES ASSUME IInv, [Next]_vars PROVE IInv'
  OBVIOUS
<1>1. ASSUME NEW c \in Callers, Allowed(c) PROVE IInv'
  BY <1>1, AllowedIInv
<1>2. ASSUME NEW c \in Callers, Refused(c) PROVE IInv'
  BY <1>2 DEF Refused, vars, IInv, TypeOK, HalfOpenHasItsProbes, CountersMatchSample,
              ClosedWhileSampleGood, TripTimeKept
<1>3. ASSUME NEW c \in Callers, NEW success \in BOOLEAN, Return(c, success) PROVE IInv'
  BY <1>3, ReturnIInv
<1>4. CASE Tick
  <2>1. TripTimeKept'
    BY <1>4, BreakerConfig DEF Tick, IInv, TypeOK, TripTimeKept
  <2>2. QED
    BY <1>4, <2>1 DEF Tick, IInv, TypeOK, HalfOpenHasItsProbes, CountersMatchSample,
                      ClosedWhileSampleGood
<1>5. CASE UNCHANGED vars
  BY <1>5 DEF vars, IInv, TypeOK, HalfOpenHasItsProbes, CountersMatchSample,
              ClosedWhileSampleGood, TripTimeKept
<1>6. QED
  BY <1>1, <1>2, <1>3, <1>4, <1>5 DEF Next

\* The inductive invariant holds in every reachable state.
THEOREM Invariance == Spec => []IInv
BY InitIInv, NextIInv, PTL DEF Spec

----------------------------------------------------------------------------
(* The properties *)

\* Every variable keeps its type, and no entry counts a second probe.
THEOREM TypeCorrect == Spec => []TypeOK
BY Invariance, PTL DEF IInv

\* A half-open entry never outlives the calls that decide it: there is always
\* one under way, and there are as many as the entry counts, plus one.
THEOREM HalfOpenIsNeverOrphaned == Spec => []HalfOpenHasItsProbes
BY Invariance, PTL DEF IInv

\* The breaker trips on the outcomes since it last closed and on nothing else.
THEOREM TripsOnItsSample == Spec => []ClosedWhileSampleGood
BY Invariance, PTL DEF IInv

\* A step that admits a call finds the cooldown of the last trip over.
THEOREM NoCallWithinCooldown == Spec => SilentAfterTrip
<1>1. IInv /\ [Next]_vars =>
        [\A c \in Callers : c \in calling' \ calling => now - lastTrip >= Cooldown]_vars
  <2> SUFFICES ASSUME IInv, [Next]_vars, NEW d \in Callers, d \in calling' \ calling
               PROVE  now - lastTrip >= Cooldown
    OBVIOUS
  <2>1. PICK c \in Callers : Allowed(c)
    BY DEF Next, Refused, Return, Tick, vars
  <2>2. QED
    BY <2>1 DEF Allowed, Admits, CooledDown, IInv, TripTimeKept
<1>2. QED
  BY <1>1, Invariance, PTL DEF Spec, SilentAfterTrip

\* Late outcomes do not move the time from which the cooldown is counted.
THEOREM LateOutcomesDoNotExtend == Spec => OutageNotExtended
<1>0. Closed # Opened /\ Closed # HalfOpen /\ Opened # HalfOpen
  BY DEF Closed, Opened, HalfOpen
<1>1. IInv /\ [Next]_vars =>
        [entry.state = Opened /\ entry'.state = Opened
           => entry'.openedAt = entry.openedAt]_vars
  <2> SUFFICES ASSUME IInv, [Next]_vars, entry.state = Opened, entry'.state = Opened
               PROVE  entry'.openedAt = entry.openedAt
    OBVIOUS
  <2>0. entry \in Entry /\ entry.probes <= 1 /\ now \in Nat
    BY DEF IInv, TypeOK
  <2>1. ASSUME NEW c \in Callers, Allowed(c) PROVE entry'.state = HalfOpen
    BY <1>0, <2>0, <2>1, AfterAllowFields DEF Allowed
  <2>2. ASSUME NEW c \in Callers, NEW success \in BOOLEAN, Return(c, success)
        PROVE  entry' = entry
    BY <2>0, <2>2, AfterRecordFields DEF Return
  <2>3. QED
    BY <1>0, <2>1, <2>2 DEF Next, Refused, Tick, vars
<1>2. QED
  BY <1>1, Invariance, PTL DEF Spec, OutageNotExtended

\* Every step of the breaker is a step of its contract: at most two trial calls
\* in a half-open episode, and no change of state that the contract lacks.
THEOREM BreakerKeepsContract == Spec => Contract!Init /\ [][Contract!Next]_(Contract!vars)
<1>0. Closed # Opened /\ Closed # HalfOpen /\ Opened # HalfOpen
  BY DEF Closed, Opened, HalfOpen
<1> USE DEF Contract!vars, Contract!Next, Contract!Trip, Contract!FirstTrial,
            Contract!NextTrial, Contract!Decide
<1>1. Init => Contract!Init
  BY FS_EmptySet DEF Init, NewEntry, Contract!Init, Closed
<1>2. IInv /\ IInv' /\ [Next]_vars => [Contract!Next]_(Contract!vars)
  <2> SUFFICES ASSUME IInv, IInv', [Next]_vars
               PROVE  [Contract!Next]_(Contract!vars)
    OBVIOUS
  <2>t. /\ entry \in Entry /\ entry.probes <= 1 /\ now \in Nat
        /\ entry.state \in {Closed, Opened, HalfOpen}
        /\ entry'.state \in {Closed, Opened, HalfOpen}
    BY DEF IInv, TypeOK, Entry
  <2>c. /\ entry.state = HalfOpen => Cardinality(probing) = entry.probes + 1
        /\ entry.state # HalfOpen => Cardinality(probing) = 0
        /\ entry'.state = HalfOpen => Cardinality(probing') = entry'.probes + 1
        /\ entry'.state # HalfOpen => Cardinality(probing') = 0
    BY FS_EmptySet DEF IInv, HalfOpenHasItsProbes
  <2>1. ASSUME NEW c \in Callers, Allowed(c)
        PROVE  [Contract!Next]_(Contract!vars)
    <3>f. /\ entry.state = Closed => entry' = entry
          /\ entry.state # Closed => entry'.state = HalfOpen
          /\ entry.state = Opened => entry'.probes = 0
          /\ entry.state = HalfOpen => entry.probes = 0 /\ entry'.probes = 1
      BY <2>t, <2>1, AfterAllowFields DEF Allowed
    <3>1. CASE entry.state = Closed
      BY <1>0, <2>c, <3>f, <3>1
    <3>2. CASE entry.state = Opened
      BY <1>0, <2>c, <3>f, <3>2 DEF Opened, HalfOpen
    <3>3. CASE entry.state = HalfOpen
      BY <1>0, <2>c, <3>f, <3>3 DEF HalfOpen
    <3>4. QED
      BY <2>t, <3>1, <3>2, <3>3
  <2>2. ASSUME NEW c \in Callers, NEW success \in BOOLEAN, Return(c, success)
        PROVE  [Contract!Next]_(Contract!vars)
    <3>f. /\ entry.state = HalfOpen => entry'.state \in {Closed, Opened}
          /\ entry.state = Opened => entry'.state = Opened
          /\ entry.state = Closed => entry'.state \in {Closed, Opened}
      BY <2>t, <2>2, AfterRecordFields, CountedFields DEF Return
    <3>1. CASE entry.state = HalfOpen
      BY <1>0, <2>c, <3>f, <3>1 DEF Closed, Opened, HalfOpen
    <3>2. CASE entry.state # HalfOpen
      BY <1>0, <2>t, <2>c, <3>f, <3>2 DEF Closed, Opened, HalfOpen
    <3>3. QED
      BY <3>1, <3>2
  <2>3. CASE UNCHANGED <<entry, probing>>
    BY <2>3
  <2>4. QED
    BY <2>1, <2>2, <2>3 DEF Next, Refused, Tick, vars
<1>3. QED
  BY <1>1, <1>2, Invariance, PTL DEF Spec
=============================================================================
