------------------------ MODULE MeteringReporterProofs ------------------------
(***************************************************************************)
(* Proofs about MeteringReporter, and about the page that UsagePage reads  *)
(* from it, for every capacity of the channel and every number of reports. *)
(***************************************************************************)
EXTENDS UsagePage, SequenceTheorems, FiniteSetTheorems, TLAPS

----------------------------------------------------------------------------
(* Sequences *)

\* What is received moves from one part of a sequence to the part before it.
LEMMA ReceiveMoves ==
  ASSUME NEW S, NEW s \in Seq(S), NEW c \in Seq(S), c # <<>>
  PROVE  s \o <<>> \o c = s \o <<Head(c)>> \o Tail(c)
<1>1. c = <<Head(c)>> \o Tail(c) /\ Tail(c) \in Seq(S) /\ <<Head(c)>> \in Seq(S)
  OBVIOUS
<1>2. s \o <<>> = s
  OBVIOUS
<1>3. s \o (<<Head(c)>> \o Tail(c)) = s \o <<Head(c)>> \o Tail(c)
  BY <1>1, ConcatAssociative
<1>4. QED
  BY <1>1, <1>2, <1>3

\* What is appended at the end is appended to the whole.
LEMMA AppendAtEnd ==
  ASSUME NEW S, NEW s \in Seq(S), NEW h \in Seq(S), NEW c \in Seq(S), NEW e \in S
  PROVE  s \o h \o Append(c, e) = Append(s \o h \o c, e)
<1>1. s \o h \in Seq(S)
  OBVIOUS
<1>2. QED
  BY <1>1

\* A sequence that one more element is added to.
LEMMA OneMore ==
  ASSUME NEW S, NEW s \in Seq(S), NEW h \in Seq(S), Len(h) = 1
  PROVE  /\ s \o h \in Seq(S) /\ Len(s \o h) = Len(s) + 1 /\ Len(s) \in Nat
         /\ DOMAIN s = 1..Len(s) /\ DOMAIN (s \o h) = 1..(Len(s) + 1)
         /\ (s \o h)[Len(s) + 1] = h[1]
         /\ \A i \in 1..Len(s) : (s \o h)[i] = s[i]
<1>1. s \o h \in Seq(S) /\ Len(s \o h) = Len(s) + Len(h)
      /\ \A i \in 1..(Len(s) + Len(h)) :
           (s \o h)[i] = IF i <= Len(s) THEN s[i] ELSE h[i - Len(s)]
  BY ConcatProperties
<1>2. Len(s) \in Nat /\ DOMAIN s = 1..Len(s) /\ DOMAIN (s \o h) = 1..(Len(s) + 1)
  BY <1>1
<1>3. QED
  BY <1>1, <1>2

----------------------------------------------------------------------------
(* The inductive invariant *)

\* No event was accepted that was not reported.
AcceptedWereReported == Len(accepted) <= reported

\* The worker flushes and ends only when Close was called, and Close returns only
\* when it has ended.
ShutdownInOrder ==
  /\ mode # "serve" => closer # "open"
  /\ mode = "done" => stage = "idle" /\ Len(sunk) >= atClose
  /\ closer = "returned" => mode = "done"
  /\ atClose <= Len(accepted)

IInv ==
  /\ TypeOK
  /\ NothingLostOnTheWay
  /\ AcceptedWereReported
  /\ ShutdownInOrder

\* The initial states satisfy the inductive invariant.
LEMMA InitIInv == Init => IInv
BY MeteringAssumption
   DEF Init, IInv, TypeOK, NothingLostOnTheWay, AcceptedWereReported, ShutdownInOrder, Unsunk

\* A report that finds room keeps the invariant.
LEMMA AcceptIInv ==
  ASSUME IInv, NEW ok \in BOOLEAN, Accept(ok)
  PROVE  IInv'
<1> DEFINE ev == [id |-> reported + 1, ok |-> ok]
<1>0. TypeOK /\ NothingLostOnTheWay /\ AcceptedWereReported /\ ShutdownInOrder
  BY DEF IInv
<1>1. ev \in Event
  BY <1>0, MeteringAssumption DEF Accept, TypeOK, Event
<1>2. /\ ch' = Append(ch, ev) /\ accepted' = Append(accepted, ev) /\ reported' = reported + 1
      /\ reported < MaxReports /\ Len(ch) < Buffer
      /\ UNCHANGED <<mode, stage, held, tokens, billed, sunk, closer, atClose>>
  BY DEF Accept, workerVars, closerVars
<1>3. ch' \in Seq(Event) /\ Len(ch') = Len(ch) + 1
      /\ accepted' \in Seq(Event) /\ Len(accepted') = Len(accepted) + 1
  BY <1>0, <1>1, <1>2 DEF TypeOK
<1>4. TypeOK'
  BY <1>0, <1>2, <1>3, MeteringAssumption DEF TypeOK
<1>5. NothingLostOnTheWay'
  <2>1. sunk \in Seq(Event) /\ Unsunk \in Seq(Event) /\ ch \in Seq(Event)
    BY <1>0 DEF TypeOK, Unsunk
  <2>2. sunk \o Unsunk \o Append(ch, ev) = Append(sunk \o Unsunk \o ch, ev)
    BY <1>1, <2>1, AppendAtEnd
  <2>3. QED
    BY <1>0, <1>2, <2>2 DEF NothingLostOnTheWay, Unsunk
<1>6. AcceptedWereReported' /\ ShutdownInOrder'
  BY <1>0, <1>2, <1>3 DEF AcceptedWereReported, ShutdownInOrder, TypeOK
<1>7. QED
  BY <1>4, <1>5, <1>6 DEF IInv

\* A receive keeps the invariant.
LEMMA ReceiveIInv ==
  ASSUME IInv, Receive
  PROVE  IInv'
<1>0. TypeOK /\ NothingLostOnTheWay /\ AcceptedWereReported /\ ShutdownInOrder
  BY DEF IInv
<1>1. /\ mode \in {"serve", "flush"} /\ stage = "idle" /\ ch # <<>>
      /\ held' = <<Head(ch)>> /\ ch' = Tail(ch) /\ stage' = "received"
      /\ UNCHANGED <<reported, accepted, mode, tokens, billed, sunk, closer, atClose>>
  BY DEF Receive, reporterVars, closerVars
<1>2. ch' \in Seq(Event) /\ Len(ch') = Len(ch) - 1 /\ held' \in Seq(Event) /\ Len(held') = 1
  BY <1>0, <1>1 DEF TypeOK
<1>3. TypeOK'
  BY <1>0, <1>1, <1>2, MeteringAssumption DEF TypeOK
<1>4. NothingLostOnTheWay'
  <2>1. sunk \o <<>> \o ch = sunk \o <<Head(ch)>> \o Tail(ch)
    BY <1>0, <1>1, ReceiveMoves DEF TypeOK
  <2>2. QED
    BY <1>0, <1>1, <2>1 DEF NothingLostOnTheWay, Unsunk
<1>5. AcceptedWereReported' /\ ShutdownInOrder'
  BY <1>0, <1>1 DEF AcceptedWereReported, ShutdownInOrder
<1>6. QED
  BY <1>3, <1>4, <1>5 DEF IInv

\* So does the first effect of the sink.
LEMMA TallyIInv ==
  ASSUME IInv, Tally
  PROVE  IInv'
<1>0. TypeOK /\ NothingLostOnTheWay /\ AcceptedWereReported /\ ShutdownInOrder
  BY DEF IInv
<1>1. /\ stage = "received" /\ stage' = "posting"
      /\ tokens' = (IF Head(held).ok THEN tokens + 1 ELSE tokens)
      /\ sunk' = sunk \o held
      /\ UNCHANGED <<reported, accepted, ch, mode, held, billed, closer, atClose>>
  BY DEF Tally, reporterVars, closerVars
<1>2. sunk' \in Seq(Event) /\ Len(sunk') = Len(sunk) + 1
  <2>1. sunk \in Seq(Event) /\ held \in Seq(Event) /\ Len(held) = 1
    BY <1>0, <1>1 DEF TypeOK
  <2>2. QED
    BY <1>1, <2>1, OneMore
<1>3. tokens' \in Nat
  BY <1>0, <1>1 DEF TypeOK
<1>4. TypeOK'
  BY <1>0, <1>1, <1>2, <1>3 DEF TypeOK
<1>5. NothingLostOnTheWay'
  <2>1. sunk \o held \in Seq(Event) /\ (sunk \o held) \o <<>> = sunk \o held
    BY <1>0 DEF TypeOK
  <2>2. QED
    BY <1>0, <1>1, <2>1 DEF NothingLostOnTheWay, Unsunk
<1>6. AcceptedWereReported' /\ ShutdownInOrder'
  BY <1>0, <1>1, <1>2 DEF AcceptedWereReported, ShutdownInOrder, TypeOK
<1>7. QED
  BY <1>4, <1>5, <1>6 DEF IInv

\* And the second, whatever became of the post.
LEMMA PostIInv ==
  ASSUME IInv, NEW ingested \in BOOLEAN, Post(ingested)
  PROVE  IInv'
<1>0. TypeOK /\ NothingLostOnTheWay /\ AcceptedWereReported /\ ShutdownInOrder
  BY DEF IInv
<1>1. /\ stage = "posting" /\ stage' = "idle" /\ held' = <<>>
      /\ billed' = (IF ingested THEN billed \o held ELSE billed)
      /\ UNCHANGED <<reported, accepted, ch, mode, tokens, sunk, closer, atClose>>
  BY DEF Post, reporterVars, closerVars
<1>2. billed' \in Seq(Event)
  BY <1>0, <1>1 DEF TypeOK
<1>3. TypeOK'
  BY <1>0, <1>1, <1>2 DEF TypeOK
<1>4. NothingLostOnTheWay'
  BY <1>0, <1>1 DEF NothingLostOnTheWay, Unsunk
<1>5. AcceptedWereReported' /\ ShutdownInOrder'
  BY <1>0, <1>1 DEF AcceptedWereReported, ShutdownInOrder
<1>6. QED
  BY <1>3, <1>4, <1>5 DEF IInv

\* The end of the flush: nothing is held and nothing is in the channel, so that
\* everything accepted is sunk.
LEMMA FlushEndsIInv ==
  ASSUME IInv, FlushEnds
  PROVE  IInv'
<1>0. TypeOK /\ NothingLostOnTheWay /\ AcceptedWereReported /\ ShutdownInOrder
  BY DEF IInv
<1>1. /\ mode = "flush" /\ stage = "idle" /\ ch = <<>> /\ mode' = "done"
      /\ UNCHANGED <<reported, accepted, ch, stage, held, tokens, billed, sunk, closer, atClose>>
  BY DEF FlushEnds, reporterVars, closerVars
<1>2. accepted = sunk
  BY <1>0, <1>1 DEF NothingLostOnTheWay, Unsunk, TypeOK
<1>3. TypeOK' /\ NothingLostOnTheWay' /\ AcceptedWereReported'
  BY <1>0, <1>1 DEF TypeOK, NothingLostOnTheWay, Unsunk, AcceptedWereReported
<1>4. ShutdownInOrder'
  BY <1>0, <1>1, <1>2 DEF ShutdownInOrder
<1>5. QED
  BY <1>3, <1>4 DEF IInv

\* Every step keeps the invariant.
LEMMA NextIInv == IInv /\ [Next]_vars => IInv'
<1> SUFFICES ASSUME IInv, [Next]_vars PROVE IInv'
  OBVIOUS
<1> USE DEF IInv, TypeOK, NothingLostOnTheWay, Unsunk, AcceptedWereReported, ShutdownInOrder
<1>1. ASSUME NEW ok \in BOOLEAN, Accept(ok) PROVE IInv'
  BY <1>1, AcceptIInv
<1>2. CASE Drop
  <2>1. /\ reported' = reported + 1 /\ reported < MaxReports
        /\ UNCHANGED <<accepted, ch, mode, stage, held, tokens, billed, sunk, closer, atClose>>
    BY <1>2 DEF Drop, workerVars, closerVars
  <2>2. TypeOK'
    BY <2>1, MeteringAssumption
  <2>3. NothingLostOnTheWay' /\ ShutdownInOrder'
    BY <2>1
  <2>4. AcceptedWereReported'
    BY <2>1
  <2>5. QED
    BY <2>2, <2>3, <2>4
<1>3. CASE Receive
  BY <1>3, ReceiveIInv
<1>4. CASE Tally
  BY <1>4, TallyIInv
<1>5. ASSUME NEW ingested \in BOOLEAN, Post(ingested) PROVE IInv'
  BY <1>5, PostIInv
<1>6. CASE SeeClosed
  BY <1>6 DEF SeeClosed, reporterVars, closerVars
<1>7. CASE FlushEnds
  BY <1>7, FlushEndsIInv
<1>8. CASE Close
  <2>1. /\ closer = "open" /\ closer' = "waiting" /\ atClose' = Len(accepted)
        /\ UNCHANGED <<reported, accepted, ch, mode, stage, held, tokens, billed, sunk>>
    BY <1>8 DEF Close, reporterVars, workerVars
  <2>2. Len(accepted) \in 0..MaxReports
    BY MeteringAssumption
  <2>3. TypeOK'
    BY <2>1, <2>2
  <2>4. NothingLostOnTheWay' /\ AcceptedWereReported'
    BY <2>1
  <2>5. ShutdownInOrder'
    BY <2>1, <2>2
  <2>6. QED
    BY <2>3, <2>4, <2>5
<1>9. CASE CloseReturns
  BY <1>9 DEF CloseReturns, reporterVars, workerVars
<1>10. CASE UNCHANGED vars
  BY <1>10 DEF vars, reporterVars, workerVars, closerVars
<1>11. QED
  BY <1>1, <1>2, <1>3, <1>4, <1>5, <1>6, <1>7, <1>8, <1>9, <1>10 DEF Next, Worker

\* The inductive invariant holds in every reachable state.
THEOREM Invariance == Spec => []IInv
BY InitIInv, NextIInv, PTL DEF Spec

----------------------------------------------------------------------------
(* The properties *)

\* Every variable keeps its type, and the channel its capacity.
THEOREM TypeCorrect == Spec => []TypeOK
BY Invariance, PTL DEF IInv

\* Every accepted event is sunk, held or in the channel, once and in order.
THEOREM AcceptedStays == Spec => []NothingLostOnTheWay
BY Invariance, PTL DEF IInv

\* Close returns only when everything accepted before it is sunk.
THEOREM CloseReturnsFlushed == Spec => []CloseFlushes
<1>1. IInv => CloseFlushes
  BY DEF IInv, ShutdownInOrder, CloseFlushes
<1>2. QED
  BY <1>1, Invariance, PTL

----------------------------------------------------------------------------
(* Billing *)

\* Events are numbered in the order in which they are accepted.
AcceptedInOrder ==
  /\ \A i \in DOMAIN accepted : accepted[i].id <= reported
  /\ \A i, j \in DOMAIN accepted : i < j => accepted[i].id < accepted[j].id

\* The event being posted is the last one sunk, and later than all that are billed.
PostsTheLast ==
  stage = "posting" =>
    /\ Len(sunk) > 0 /\ held[1] = sunk[Len(sunk)]
    /\ \A i \in DOMAIN billed : billed[i].id < held[1].id

BillingInv == AcceptedInOrder /\ PostsTheLast /\ BilledAtMostOnce

\* Nothing but Tally and Post touches what PostsTheLast and BilledAtMostOnce say.
LEMMA BillingUntouched ==
  ASSUME BillingInv, UNCHANGED <<sunk, billed>>,
         stage' = "posting" => stage = "posting" /\ held' = held
  PROVE  PostsTheLast' /\ BilledAtMostOnce'
BY DEF BillingInv, PostsTheLast, BilledAtMostOnce

\* A new event's number is greater than all before it.
LEMMA AcceptBilling ==
  ASSUME IInv, BillingInv, NEW ok \in BOOLEAN, Accept(ok)
  PROVE  BillingInv'
<1> DEFINE ev == [id |-> reported + 1, ok |-> ok]
<1>1. accepted' = Append(accepted, ev) /\ reported' = reported + 1
      /\ UNCHANGED <<sunk, billed, stage, held>>
  BY DEF Accept, workerVars
<1>2. accepted \in Seq(Event) /\ reported \in Nat /\ \A i \in DOMAIN accepted : accepted[i].id \in Nat
  <2>1. accepted \in Seq(Event) /\ reported \in Nat
    BY MeteringAssumption DEF IInv, TypeOK
  <2>2. \A i \in DOMAIN accepted : accepted[i] \in Event
    BY <2>1
  <2>3. QED
    BY <2>1, <2>2, MeteringAssumption DEF Event
<1>3. /\ DOMAIN accepted' = 1..(Len(accepted) + 1)
      /\ DOMAIN accepted = 1..Len(accepted) /\ Len(accepted) \in Nat
      /\ \A i \in 1..Len(accepted) : accepted'[i] = accepted[i]
      /\ accepted'[Len(accepted) + 1] = ev
  BY <1>1, <1>2
<1>4. ev.id = reported + 1
  OBVIOUS
<1>5. AcceptedInOrder'
  BY <1>1, <1>2, <1>3, <1>4 DEF BillingInv, AcceptedInOrder
<1>6. PostsTheLast' /\ BilledAtMostOnce'
  BY <1>1, BillingUntouched
<1>7. QED
  BY <1>5, <1>6 DEF BillingInv

\* The event that is sunk is later than those sunk before it, and so than those
\* billed.
LEMMA TallyBilling ==
  ASSUME IInv, BillingInv, Tally
  PROVE  BillingInv'
<1>1. /\ stage = "received" /\ stage' = "posting" /\ sunk' = sunk \o held
      /\ UNCHANGED <<reported, accepted, billed, held>>
  BY DEF Tally, reporterVars
<1>2. /\ sunk \in Seq(Event) /\ held \in Seq(Event) /\ ch \in Seq(Event) /\ Len(held) = 1
      /\ accepted = sunk \o held \o ch
  BY <1>1 DEF IInv, TypeOK, NothingLostOnTheWay, Unsunk
<1> DEFINE n == Len(sunk)
<1>3. /\ n \in Nat /\ Len(sunk') = n + 1 /\ sunk'[n + 1] = held[1]
      /\ DOMAIN sunk = 1..n /\ DOMAIN sunk' = 1..(n + 1)
      /\ \A i \in 1..n : sunk'[i] = sunk[i]
  BY <1>1, <1>2, OneMore
<1>4. /\ n + 1 \in DOMAIN accepted /\ accepted[n + 1] = held[1]
      /\ \A i \in 1..n : i \in DOMAIN accepted /\ accepted[i] = sunk[i]
  <2>1. sunk' \in Seq(Event) /\ accepted = sunk' \o ch
    BY <1>1, <1>2
  <2>2. /\ accepted \in Seq(Event) /\ Len(ch) \in Nat /\ Len(accepted) = n + 1 + Len(ch)
        /\ \A i \in 1..Len(accepted) :
             accepted[i] = IF i <= n + 1 THEN sunk'[i] ELSE ch[i - (n + 1)]
    BY <1>2, <1>3, <2>1, ConcatProperties
  <2>3. \A i \in 1..(n + 1) : i \in DOMAIN accepted /\ accepted[i] = sunk'[i]
    BY <1>3, <2>2
  <2>4. QED
    BY <1>3, <2>3
<1>5. \A i \in DOMAIN billed : billed[i].id < held[1].id
  <2> SUFFICES ASSUME NEW i \in DOMAIN billed PROVE billed[i].id < held[1].id
    OBVIOUS
  <2>1. PICK k \in 1..n : sunk[k] = billed[i]
    BY <1>3 DEF BillingInv, BilledAtMostOnce, ToSet
  <2>2. k < n + 1
    BY <1>3
  <2>3. accepted[k].id < accepted[n + 1].id
    BY <1>4, <2>2 DEF BillingInv, AcceptedInOrder
  <2>4. QED
    BY <1>4, <2>1, <2>3
<1>6. PostsTheLast'
  BY <1>1, <1>3, <1>5 DEF PostsTheLast
<1>7. ToSet(billed') \subseteq ToSet(sunk')
  BY <1>1, <1>3 DEF BillingInv, BilledAtMostOnce, ToSet
<1>8. AcceptedInOrder' /\ BilledAtMostOnce'
  BY <1>1, <1>7 DEF BillingInv, AcceptedInOrder, BilledAtMostOnce
<1>9. QED
  BY <1>6, <1>8 DEF BillingInv

\* What is billed then is the event just sunk, or nothing.
LEMMA PostBilling ==
  ASSUME IInv, BillingInv, NEW ingested \in BOOLEAN, Post(ingested)
  PROVE  BillingInv'
<1>1. /\ stage = "posting" /\ stage' = "idle"
      /\ billed' = (IF ingested THEN billed \o held ELSE billed)
      /\ UNCHANGED <<reported, accepted, sunk>>
  BY DEF Post, reporterVars
<1>2. AcceptedInOrder' /\ PostsTheLast'
  BY <1>1 DEF BillingInv, AcceptedInOrder, PostsTheLast
<1>3. CASE ~ingested
  BY <1>1, <1>2, <1>3 DEF BillingInv, BilledAtMostOnce
<1>4. CASE ingested
  <2> DEFINE n == Len(billed)
  <2>1. billed \in Seq(Event) /\ held \in Seq(Event) /\ Len(held) = 1
    BY <1>1 DEF IInv, TypeOK
  <2>2. /\ n \in Nat /\ DOMAIN billed = 1..n /\ DOMAIN billed' = 1..(n + 1)
        /\ \A i \in 1..n : billed'[i] = billed[i]
        /\ billed'[n + 1] = held[1]
    <3>1. billed' = billed \o held
      BY <1>1, <1>4
    <3>2. QED
      BY <2>1, <3>1, OneMore
  <2>3. \A i \in DOMAIN billed : billed[i].id < held[1].id
    BY <1>1 DEF BillingInv, PostsTheLast
  <2>4. \A i, j \in DOMAIN billed' : i < j => billed'[i].id < billed'[j].id
    BY <2>2, <2>3 DEF BillingInv, BilledAtMostOnce
  <2>5. held[1] \in ToSet(sunk)
    <3>1. Len(sunk) > 0 /\ held[1] = sunk[Len(sunk)]
      BY <1>1 DEF BillingInv, PostsTheLast
    <3>2. sunk \in Seq(Event)
      BY DEF IInv, TypeOK
    <3>3. Len(sunk) \in DOMAIN sunk
      BY <3>1, <3>2
    <3>4. QED
      BY <3>1, <3>3 DEF ToSet
  <2>6. ToSet(billed') \subseteq ToSet(sunk')
    <3>1. \A i \in 1..n : billed[i] \in ToSet(sunk)
      BY <2>2 DEF BillingInv, BilledAtMostOnce, ToSet
    <3>2. \A i \in 1..(n + 1) : billed'[i] \in ToSet(sunk)
      BY <2>2, <2>5, <3>1
    <3>3. ToSet(sunk') = ToSet(sunk)
      BY <1>1 DEF ToSet
    <3>4. QED
      BY <2>2, <3>2, <3>3 DEF ToSet
  <2>7. QED
    BY <1>2, <2>4, <2>6 DEF BillingInv, BilledAtMostOnce
<1>5. QED
  BY <1>3, <1>4

\* Every step keeps the billing invariant.
LEMMA NextBilling == IInv /\ BillingInv /\ [Next]_vars => BillingInv'
<1> SUFFICES ASSUME IInv, BillingInv, [Next]_vars PROVE BillingInv'
  OBVIOUS
<1>1. ASSUME NEW ok \in BOOLEAN, Accept(ok) PROVE BillingInv'
  BY <1>1, AcceptBilling
<1>2. CASE Drop
  <2>1. reported' = reported + 1 /\ UNCHANGED <<accepted, sunk, billed, stage, held>>
    BY <1>2 DEF Drop, workerVars
  <2>2. \A i \in DOMAIN accepted : accepted[i].id \in Nat
    <3>1. \A i \in DOMAIN accepted : accepted[i] \in Event
      BY DEF IInv, TypeOK
    <3>2. QED
      BY <3>1, MeteringAssumption DEF Event
  <2>3. AcceptedInOrder'
    BY <2>1, <2>2, MeteringAssumption DEF BillingInv, AcceptedInOrder, IInv, TypeOK
  <2>4. QED
    BY <2>1, <2>3, BillingUntouched DEF BillingInv
<1>3. CASE Tally
  BY <1>3, TallyBilling
<1>4. ASSUME NEW ingested \in BOOLEAN, Post(ingested) PROVE BillingInv'
  BY <1>4, PostBilling
<1>5. CASE Receive \/ SeeClosed \/ FlushEnds \/ Close \/ CloseReturns \/ UNCHANGED vars
  <2>1. UNCHANGED <<reported, accepted, sunk, billed>>
    BY <1>5 DEF Receive, SeeClosed, FlushEnds, Close, CloseReturns, vars, reporterVars, workerVars
  <2>2. stage' = "posting" => stage = "posting" /\ held' = held
    BY <1>5 DEF Receive, SeeClosed, FlushEnds, Close, CloseReturns, vars, workerVars
  <2>3. AcceptedInOrder'
    BY <2>1 DEF BillingInv, AcceptedInOrder
  <2>4. QED
    BY <2>1, <2>2, <2>3, BillingUntouched DEF BillingInv
<1>6. QED
  BY <1>1, <1>2, <1>3, <1>4, <1>5 DEF Next, Worker

\* The billing service never has an event twice, nor one that the gateway's own
\* totals have not counted.
THEOREM NeverBilledTwice == Spec => []BilledAtMostOnce
<1>1. Init => BillingInv
  BY DEF Init, BillingInv, AcceptedInOrder, PostsTheLast, BilledAtMostOnce, ToSet
<1>2. BillingInv => BilledAtMostOnce
  BY DEF BillingInv
<1>3. QED
  BY <1>1, <1>2, NextBilling, Invariance, PTL DEF Spec

----------------------------------------------------------------------------
(* Successful calls *)

\* The successful calls of a sequence are finitely many.
LEMMA SuccessesAreCounted ==
  ASSUME NEW s \in Seq(Event)
  PROVE  /\ IsFiniteSet({i \in DOMAIN s : s[i].ok})
         /\ Successes(s) \in Nat
<1>1. DOMAIN s = 1..Len(s) /\ Len(s) \in Nat
  OBVIOUS
<1>2. IsFiniteSet(1..Len(s))
  BY <1>1, FS_Interval
<1>3. IsFiniteSet({i \in DOMAIN s : s[i].ok})
  BY <1>1, <1>2, FS_Subset
<1>4. QED
  BY <1>3, FS_CardinalityType DEF Successes

\* One event more is one success more, or none.
LEMMA OneMoreSuccess ==
  ASSUME NEW s \in Seq(Event), NEW h \in Seq(Event), Len(h) = 1
  PROVE  Successes(s \o h) = (IF h[1].ok THEN Successes(s) + 1 ELSE Successes(s))
<1> DEFINE n == Len(s)
           S == {i \in DOMAIN s : s[i].ok}
           T == {i \in DOMAIN (s \o h) : (s \o h)[i].ok}
<1>1. /\ n \in Nat /\ DOMAIN s = 1..n /\ DOMAIN (s \o h) = 1..(n + 1)
      /\ (s \o h)[n + 1] = h[1] /\ \A i \in 1..n : (s \o h)[i] = s[i]
  BY OneMore
<1>2. n + 1 \notin S
  BY <1>1
<1>3. T = IF h[1].ok THEN S \union {n + 1} ELSE S
  <2>1. ASSUME NEW i \in 1..(n + 1) PROVE i \in 1..n \/ i = n + 1
    BY <1>1
  <2>2. \A i : i \in T <=> (i \in S \/ (i = n + 1 /\ h[1].ok))
    BY <1>1, <2>1
  <2>3. QED
    BY <2>2
<1>4. IsFiniteSet(S) /\ Cardinality(S) \in Nat
  BY SuccessesAreCounted, FS_CardinalityType
<1>5. Cardinality(S \union {n + 1}) = Cardinality(S) + 1
  BY <1>2, <1>4, FS_AddElement
<1>6. QED
  BY <1>3, <1>5 DEF Successes

\* A prefix has no more successes than the whole.
LEMMA PrefixSuccesses ==
  ASSUME NEW s \in Seq(Event), NEW t \in Seq(Event), Len(s) <= Len(t),
         \A i \in 1..Len(s) : s[i] = t[i]
  PROVE  Successes(s) <= Successes(t)
<1>1. {i \in DOMAIN s : s[i].ok} \subseteq {i \in DOMAIN t : t[i].ok}
  <2>1. DOMAIN s = 1..Len(s) /\ DOMAIN t = 1..Len(t) /\ Len(s) \in Nat /\ Len(t) \in Nat
    OBVIOUS
  <2>2. QED
    BY <2>1
<1>2. IsFiniteSet({i \in DOMAIN t : t[i].ok})
  BY SuccessesAreCounted
<1>3. QED
  BY <1>1, <1>2, FS_Subset DEF Successes

----------------------------------------------------------------------------
(* The page *)

PageRecords ==
  [pc : {"new", "cost", "budget", "done"}, used : Nat, cost : Nat,
   source : {"none", "gateway", "billing"}, due : Nat, before : SUBSET Pages]

\* What a page shows had been counted by then, it shows what was due, and no less
\* than the pages answered before it was asked for; so does a cost it has from
\* billing.
PageOK(r) ==
  /\ r.used <= tokens /\ r.cost <= Successes(billed) /\ r.due <= r.used
  /\ \A q \in r.before :
       /\ page[q].pc = "done" /\ page[q].used <= r.used
       /\ r.pc = "budget" \/ r.source = "billing" => page[q].cost <= r.cost

\* The totals are the successful calls sunk, and every page is as it should be.
PageInv ==
  /\ page \in [Pages -> PageRecords]
  /\ tokens = Successes(sunk)
  /\ \A p \in Pages : PageOK(page[p])

\* All that is due when a page is asked for is in the totals: an accepted event
\* that is not sunk yet is in the channel or in the worker's hands.
LEMMA DueIsSunk ==
  ASSUME IInv
  PROVE  /\ Successes(SubSeq(accepted, 1, Len(accepted) - (Buffer + 1))) \in Nat
         /\ Successes(SubSeq(accepted, 1, Len(accepted) - (Buffer + 1))) <= Successes(sunk)
<1> DEFINE n == Len(accepted) - (Buffer + 1)
           d == SubSeq(accepted, 1, n)
<1>1. /\ sunk \in Seq(Event) /\ Unsunk \in Seq(Event) /\ Len(Unsunk) <= 1
      /\ ch \in Seq(Event) /\ Len(ch) <= Buffer /\ accepted \in Seq(Event)
      /\ accepted = sunk \o Unsunk \o ch
  <2>1. Unsunk \in Seq(Event) /\ Len(Unsunk) <= 1
    <3>1. CASE stage = "received"
      <4>1. held \in Seq(Event) /\ Len(held) <= 1
        BY <3>1 DEF IInv, TypeOK
      <4>2. Unsunk = held
        BY <3>1 DEF Unsunk
      <4>3. QED
        BY <4>1, <4>2
    <3>2. CASE stage # "received"
      <4>1. Unsunk = <<>>
        BY <3>2 DEF Unsunk
      <4>2. <<>> \in Seq(Event) /\ Len(<<>>) <= 1
        OBVIOUS
      <4>3. QED
        BY <4>1, <4>2
    <3>3. QED
      BY <3>1, <3>2
  <2>2. QED
    BY <2>1 DEF IInv, TypeOK, NothingLostOnTheWay
<1>2. Buffer \in Nat /\ Len(sunk) \in Nat /\ Len(Unsunk) \in Nat /\ Len(ch) \in Nat
      /\ Len(accepted) \in Nat
  BY <1>1, MeteringAssumption
<1>3. /\ sunk \o Unsunk \in Seq(Event) /\ Len(sunk \o Unsunk) = Len(sunk) + Len(Unsunk)
      /\ \A i \in 1..Len(sunk) : (sunk \o Unsunk)[i] = sunk[i]
  BY <1>1, <1>2, ConcatProperties
<1>4. /\ Len(accepted) = Len(sunk) + Len(Unsunk) + Len(ch)
      /\ \A i \in 1..Len(sunk) : accepted[i] = sunk[i]
  BY <1>1, <1>2, <1>3, ConcatProperties
<1>5. n <= Len(sunk) /\ n <= Len(accepted) /\ n \in Int
  BY <1>1, <1>2, <1>4
<1>6. CASE n <= 0
  <2>1. d = <<>>
    BY <1>1, <1>5, <1>6
  <2>2. <<>> \in Seq(Event) /\ Len(<<>>) <= Len(sunk) /\ \A i \in 1..Len(<<>>) : <<>>[i] = sunk[i]
    BY <1>2
  <2>3. Successes(<<>>) \in Nat /\ Successes(<<>>) <= Successes(sunk)
    BY <1>1, <2>2, PrefixSuccesses, SuccessesAreCounted
  <2>4. QED
    BY <2>1, <2>3
<1>7. CASE n > 0
  <2>1. d \in Seq(Event) /\ Len(d) = n /\ \A i \in 1..n : d[i] = accepted[i]
    BY <1>1, <1>2, <1>5, <1>7, SubSeqProperties
  <2>2. Len(d) <= Len(sunk) /\ \A i \in 1..Len(d) : d[i] = sunk[i]
    BY <1>2, <1>4, <1>5, <2>1
  <2>3. QED
    BY <1>1, <2>1, <2>2, PrefixSuccesses, SuccessesAreCounted
<1>8. QED
  BY <1>5, <1>6, <1>7

\* The worker keeps the totals equal to what is sunk, and takes back nothing that
\* billing has.
LEMMA MeteringKeepsPage ==
  ASSUME IInv, PageInv, [Next]_vars, UNCHANGED page
  PROVE  PageInv'
<1>1. sunk \in Seq(Event) /\ billed \in Seq(Event) /\ held \in Seq(Event) /\ tokens \in Nat
      /\ (stage # "idle" => Len(held) = 1)
  BY DEF IInv, TypeOK
<1>2. SUFFICES /\ tokens' = Successes(sunk)' /\ tokens <= tokens'
               /\ Successes(billed) <= Successes(billed)' /\ Successes(billed)' \in Nat
  <2>1. Successes(billed) \in Nat /\ Successes(billed)' \in Nat
    BY <1>1, <1>2, SuccessesAreCounted
  <2>2. tokens' \in Nat
    BY NextIInv DEF IInv, TypeOK
  <2>3. \A p \in Pages : PageOK(page[p])'
    <3> SUFFICES ASSUME NEW p \in Pages PROVE PageOK(page[p])'
      OBVIOUS
    <3>1. page[p] \in PageRecords /\ page' = page
      BY DEF PageInv
    <3>2. page[p].used \in Nat /\ page[p].cost \in Nat
      BY <3>1 DEF PageRecords
    <3>3. PageOK(page[p])
      BY DEF PageInv
    <3>4. /\ page[p].used <= tokens' /\ page[p].cost <= Successes(billed)'
          /\ page[p].due <= page[p].used
      BY <1>1, <1>2, <2>1, <2>2, <3>2, <3>3 DEF PageOK
    <3>5. QED
      BY <3>1, <3>3, <3>4 DEF PageOK
  <2>4. QED
    BY <1>2, <2>3 DEF PageInv
<1>3. tokens = Successes(sunk) /\ Successes(billed) \in Nat
  BY <1>1, SuccessesAreCounted DEF PageInv
<1>4. CASE Tally
  <2>1. /\ tokens' = (IF Head(held).ok THEN tokens + 1 ELSE tokens)
        /\ sunk' = sunk \o held /\ billed' = billed /\ Len(held) = 1
    BY <1>1, <1>4 DEF Tally
  <2>2. Head(held) = held[1]
    BY <1>1, <2>1
  <2>3. QED
    BY <1>1, <1>3, <2>1, <2>2, OneMoreSuccess
<1>5. ASSUME NEW ingested \in BOOLEAN, Post(ingested)
      PROVE  /\ tokens' = Successes(sunk)' /\ tokens <= tokens'
             /\ Successes(billed) <= Successes(billed)' /\ Successes(billed)' \in Nat
  <2>1. /\ tokens' = tokens /\ sunk' = sunk /\ Len(held) = 1
        /\ billed' = (IF ingested THEN billed \o held ELSE billed)
    BY <1>1, <1>5 DEF Post
  <2>2. QED
    BY <1>1, <1>3, <2>1, OneMoreSuccess
<1>6. CASE UNCHANGED <<tokens, sunk, billed>>
  BY <1>1, <1>3, <1>6
<1>7. QED
  BY <1>4, <1>5, <1>6
     DEF Next, Worker, Accept, Drop, Receive, SeeClosed, FlushEnds, Close, CloseReturns,
         vars, reporterVars, workerVars, closerVars

\* A page that is not answered yet may be replaced by any that is as it should be:
\* no other page had it before.
LEMMA OnePageChanges ==
  ASSUME PageInv, UNCHANGED <<tokens, sunk, billed>>,
         NEW p \in Pages, page[p].pc # "done",
         NEW r \in PageRecords, PageOK(r), page' = [page EXCEPT ![p] = r]
  PROVE  PageInv'
<1>1. /\ page' \in [Pages -> PageRecords] /\ page'[p] = r
      /\ \A q \in Pages \ {p} : page'[q] = page[q]
  BY DEF PageInv
<1>2. ASSUME NEW x \in PageRecords, PageOK(x)
      PROVE  /\ x.used <= tokens' /\ x.cost <= Successes(billed)' /\ x.due <= x.used
             /\ \A q \in x.before :
                  /\ page'[q].pc = "done" /\ page'[q].used <= x.used
                  /\ x.pc = "budget" \/ x.source = "billing" => page'[q].cost <= x.cost
  <2>1. \A q \in x.before : q \in Pages \ {p}
    BY <1>2 DEF PageOK, PageRecords
  <2>2. \A q \in x.before : page'[q] = page[q]
    BY <1>1, <2>1
  <2>3. Successes(billed)' = Successes(billed)
    BY DEF Successes
  <2>4. QED
    BY <1>2, <2>2, <2>3 DEF PageOK
<1>3. ASSUME NEW q \in Pages PROVE PageOK(page[q])'
  <2>1. page'[q] \in PageRecords /\ PageOK(page'[q])
    BY <1>1 DEF PageInv
  <2>2. QED
    BY <1>2, <2>1 DEF PageOK
<1>4. QED
  BY <1>1, <1>3 DEF PageInv

\* The reader's own steps.
LEMMA ReadingKeepsPage ==
  ASSUME IInv, PageInv, NEW p \in Pages, Ask(p) \/ Billing(p), UNCHANGED vars
  PROVE  PageInv'
<1> DEFINE x == page[p]
<1>0. UNCHANGED <<tokens, sunk, billed, accepted>>
  BY DEF vars, reporterVars, workerVars
<1>1. tokens \in Nat /\ Successes(billed) \in Nat /\ tokens = Successes(sunk)
  BY SuccessesAreCounted DEF IInv, TypeOK, PageInv
<1>2. /\ x \in PageRecords /\ PageOK(x)
      /\ \A q \in Pages : page[q] \in PageRecords /\ PageOK(page[q])
  BY DEF PageInv
<1>3. CASE Ask(p)
  <2> DEFINE d == Successes(SubSeq(accepted, 1, Len(accepted) - (Buffer + 1)))
             b == {q \in Pages : page[q].pc = "done"}
             r == [pc |-> "cost", used |-> tokens, cost |-> 0, source |-> "gateway",
                   due |-> d, before |-> b]
  <2>1. x.pc = "new" /\ page' = [page EXCEPT ![p] = r]
    BY <1>3 DEF Ask
  <2>2. d \in Nat /\ d <= tokens
    BY <1>1, DueIsSunk
  <2>3. b \in SUBSET Pages /\ \A q \in b : page[q].pc = "done" /\ page[q].used <= tokens
    BY <1>2 DEF PageOK
  <2> HIDE DEF d, b
  <2>4. r \in PageRecords
    BY <1>1, <2>2, <2>3 DEF PageRecords
  <2>5. PageOK(r)
    BY <1>1, <2>2, <2>3 DEF PageOK
  <2> HIDE DEF r
  <2>6. QED
    BY <1>0, <2>1, <2>4, <2>5, OnePageChanges
<1>4. CASE CostAnswered(p)
  <2> DEFINE r == [x EXCEPT !.pc = "budget", !.cost = Successes(billed)]
  <2>1. x.pc = "cost" /\ page' = [page EXCEPT ![p] = r]
    BY <1>4 DEF CostAnswered
  <2>2. r \in PageRecords
    BY <1>1, <1>2 DEF PageRecords
  <2>3. /\ r.used = x.used /\ r.cost = Successes(billed) /\ r.due = x.due
        /\ r.before = x.before
    BY <1>2 DEF PageRecords
  <2>4. \A q \in x.before : page[q].cost <= Successes(billed)
    <3>1. \A q \in x.before : q \in Pages
      BY <1>2 DEF PageRecords
    <3>2. QED
      BY <1>2, <3>1 DEF PageOK
  <2>5. PageOK(r)
    BY <1>1, <1>2, <2>3, <2>4 DEF PageOK
  <2> HIDE DEF r
  <2>6. QED
    BY <1>0, <2>1, <2>2, <2>5, OnePageChanges
<1>5. CASE CostFails(p)
  <2> DEFINE r == [x EXCEPT !.pc = "done"]
  <2>1. x.pc = "cost" /\ page' = [page EXCEPT ![p] = r]
    BY <1>5 DEF CostFails
  <2>2. r \in PageRecords
    BY <1>2 DEF PageRecords
  <2>3. /\ r.pc = "done" /\ r.used = x.used /\ r.cost = x.cost /\ r.due = x.due
        /\ r.before = x.before /\ r.source = x.source
    BY <1>2 DEF PageRecords
  <2>4. PageOK(r)
    BY <1>2, <2>3 DEF PageOK
  <2> HIDE DEF r
  <2>5. QED
    BY <1>0, <2>1, <2>2, <2>4, OnePageChanges
<1>6. CASE BudgetAnswered(p)
  <2> DEFINE r == [x EXCEPT !.pc = "done", !.source = "billing"]
  <2>1. x.pc = "budget" /\ page' = [page EXCEPT ![p] = r]
    BY <1>6 DEF BudgetAnswered
  <2>2. r \in PageRecords
    BY <1>2 DEF PageRecords
  <2>3. /\ r.used = x.used /\ r.cost = x.cost /\ r.due = x.due /\ r.before = x.before
    BY <1>2 DEF PageRecords
  <2>4. PageOK(r)
    BY <1>2, <2>1, <2>3 DEF PageOK
  <2> HIDE DEF r
  <2>5. QED
    BY <1>0, <2>1, <2>2, <2>4, OnePageChanges
<1>7. QED
  BY <1>3, <1>4, <1>5, <1>6 DEF Billing

\* The metering keeps its invariant, and the pages theirs, beside each other.
LEMMA PageInvariance == PageSpec => [](IInv /\ PageInv)
<1>1. PageInit => IInv /\ PageInv
  <2> SUFFICES ASSUME PageInit PROVE IInv /\ PageInv
    OBVIOUS
  <2> DEFINE r == [pc |-> "new", used |-> 0, cost |-> 0, source |-> "none",
                   due |-> 0, before |-> {}]
  <2>1. IInv
    BY InitIInv DEF PageInit
  <2>2. Successes(<<>>) = 0
    <3>1. {i \in DOMAIN <<>> : <<>>[i].ok} = {}
      OBVIOUS
    <3>2. QED
      BY <3>1, FS_EmptySet DEF Successes
  <2>3. page = [p \in Pages |-> r] /\ tokens = 0 /\ sunk = <<>> /\ billed = <<>>
    BY DEF PageInit, Init
  <2>4. r \in PageRecords
    BY DEF PageRecords
  <2>5. PageOK(r)
    BY <2>2, <2>3 DEF PageOK
  <2> HIDE DEF r
  <2>6. QED
    BY <2>1, <2>2, <2>3, <2>4, <2>5 DEF PageInv
<1>2. IInv /\ PageInv /\ [PageNext]_<<vars, page>> => (IInv /\ PageInv)'
  <2> SUFFICES ASSUME IInv, PageInv, [PageNext]_<<vars, page>> PROVE (IInv /\ PageInv)'
    OBVIOUS
  <2>1. [Next]_vars
    BY DEF PageNext
  <2>2. UNCHANGED page \/ (UNCHANGED vars /\ \E p \in Pages : Ask(p) \/ Billing(p))
    BY DEF PageNext
  <2>3. IInv'
    BY <2>1, NextIInv
  <2>4. PageInv'
    BY <2>1, <2>2, MeteringKeepsPage, ReadingKeepsPage
  <2>5. QED
    BY <2>3, <2>4
<1>3. QED
  BY <1>1, <1>2, PTL DEF PageSpec

\* A page shows what was due when it was asked for, and neither its figure nor a cost
\* of billing's is smaller than on any page answered by then, for any number of
\* pages put together at a time, whatever billing answers, and when.
THEOREM PagesGrow == PageSpec => []PagesNeverGoBack
<1>1. PageInv => PagesNeverGoBack
  <2> SUFFICES ASSUME PageInv, NEW p \in Pages
               PROVE  /\ page[p].used >= page[p].due
                      /\ \A q \in page[p].before :
                           /\ page[p].used >= page[q].used
                           /\ page[p].source = "billing" => page[p].cost >= page[q].cost
    BY DEF PagesNeverGoBack
  <2>1. PageOK(page[p]) /\ \A q \in Pages : page[q] \in PageRecords
    BY DEF PageInv
  <2>2. /\ \A q \in Pages : page[q].used \in Nat /\ page[q].cost \in Nat
        /\ page[p].due \in Nat /\ page[p].before \in SUBSET Pages
    BY <2>1 DEF PageRecords
  <2>3. QED
    BY <2>1, <2>2 DEF PageOK
<1>2. QED
  BY <1>1, PageInvariance, PTL
=============================================================================
