-------------------------- MODULE ChatPipelineProofs --------------------------
(***************************************************************************)
(* Proofs about ChatPipeline for every set of requests and models, every   *)
(* family of chains, every breaker configuration and number of attempts.   *)
(***************************************************************************)
EXTENDS ChatPipeline, SequenceTheorems, TLAPS

----------------------------------------------------------------------------
(* The inductive invariant *)

\* The model a request is at, and those that its loop has left behind.
Current(q) == q.chain[q.next]

Before(q) == {q.chain[j] : j \in 1..(q.next - 1)}

Active(q) == q.pc \in {"loop", "calling", "store"}

\* The models that the limiter was asked about.
Tried(q) == IF q.pc = "loop" THEN Before(q) ELSE Before(q) \union {Current(q)}

\* Where a request can be in its chain.
ChainInv(q) ==
  /\ q.pc = "new" => q = NewRequest
  /\ Active(q) => q.chain \in Chains \ {<<>>} /\ q.next - 1 <= Len(q.chain)
  /\ q.pc \in {"calling", "store"} => q.next <= Len(q.chain)
  /\ q.pc = "calling" => Current(q) \in Registered

\* A call is one attempt, to a model not called before, and has an event as soon
\* as it has returned.
CallInv(q) ==
  /\ Len(q.called) = q.attempts /\ q.attempts <= MaxAttempts
  /\ IsInjective(q.called)
  /\ q.pc \in {"loop", "calling"} => ToSet(q.called) \subseteq Tried(q)
  /\ q.called = [i \in DOMAIN q.metered |-> q.metered[i].model]
                  \o (IF q.pc = "calling" THEN <<Current(q)>> ELSE <<>>)

\* limitedAll says whether the limiter refused everything so far.
LimitInv(q) ==
  Active(q) =>
    /\ RowsOf(q, LimitRow) \subseteq Before(q)
    /\ q.limitedAll =>
         q.pc = "loop" /\ q.attempts = 0 /\ RowsOf(q, LimitRow) = Before(q)
    /\ ~q.limitedAll => \E m \in Tried(q) : m \notin RowsOf(q, LimitRow)

\* What was left behind was passed over, and an answer is that of the current model.
ServeInv(q) ==
  Active(q) =>
    /\ \A m \in Before(q) : PassedOver(q, m)
    /\ q.pc # "store" => RowsOf(q, ChatRow) = {}
    /\ q.pc = "store" => /\ RowsOf(q, ChatRow) = {Current(q)}
                         /\ q.result = Answer(Current(q), q.chain[1])

\* What is said of a request that has ended.
LimitTold(q) ==
  q.result.kind = "429" <=> q.chain # <<>> /\ ToSet(q.chain) = RowsOf(q, LimitRow)

FirstServes(q) ==
  RowsOf(q, ChatRow) # {} =>
    \E i \in DOMAIN q.chain :
      /\ q.result = Answer(q.chain[i], q.chain[1])
      /\ RowsOf(q, ChatRow) = {q.chain[i]}
      /\ \A j \in 1..(i - 1) : PassedOver(q, q.chain[j])

GaveUpLast(q) ==
  q.result.kind \in {"429", "502"} =>
    \/ Len(q.called) = MaxAttempts
    \/ \A m \in ToSet(q.chain) : PassedOver(q, m)

DoneInv(q) == q.pc = "done" => LimitTold(q) /\ FirstServes(q) /\ GaveUpLast(q)

RequestInv(q) == ChainInv(q) /\ CallInv(q) /\ LimitInv(q) /\ ServeInv(q) /\ DoneInv(q)

\* Nobody reports the outcome of a model without a provider; and a half-open
\* entry has let two calls in at most.
EntriesInv ==
  /\ \A m \in Models \ Registered : breakers[m].state = Closed
  /\ \A m \in Models : breakers[m].probes <= 1

IInv ==
  /\ TypeOK
  /\ \A r \in Requests : RequestInv(req[r])
  /\ EntriesInv
  /\ HalfOpenHasCall
  /\ CachedAnswersAreReal

----------------------------------------------------------------------------
(* Rows and chains *)

\* The names of rows differ.
LEMMA RowNames ==
  /\ ChatRow \notin {RiskRow, CacheRow, RouteRow, LimitRow, BreakerRow, UpstreamRow}
  /\ LimitRow \notin {BreakerRow, UpstreamRow, ChatRow}
BY DEF RiskRow, CacheRow, RouteRow, LimitRow, BreakerRow, UpstreamRow, ChatRow

\* A row adds its model to the rows of its action.
LEMMA RowsAppended ==
  ASSUME NEW q \in Request, NEW p \in Request, NEW x \in AuditRow, NEW action,
         p.audit = q.audit \o <<x>>
  PROVE  RowsOf(p, action) =
           IF x.action = action THEN RowsOf(q, action) \union {x.model} ELSE RowsOf(q, action)
<1>1. q.audit \in Seq(AuditRow)
  BY DEF Request
<1>2. ToSet(q.audit \o <<x>>) = ToSet(q.audit) \union {x}
  <2>1. /\ DOMAIN q.audit = 1..Len(q.audit) /\ Len(q.audit) \in Nat
        /\ DOMAIN (q.audit \o <<x>>) = 1..(Len(q.audit) + 1)
        /\ \A i \in 1..Len(q.audit) : (q.audit \o <<x>>)[i] = q.audit[i]
        /\ (q.audit \o <<x>>)[Len(q.audit) + 1] = x
    BY <1>1
  <2>2. ASSUME NEW y PROVE y \in ToSet(q.audit \o <<x>>) <=> y \in ToSet(q.audit) \union {x}
    <3>1. y \in ToSet(q.audit \o <<x>>) <=>
            \E i \in 1..(Len(q.audit) + 1) : y = (q.audit \o <<x>>)[i]
      BY <2>1 DEF ToSet
    <3>2. y \in ToSet(q.audit) <=> \E i \in 1..Len(q.audit) : y = q.audit[i]
      BY <2>1 DEF ToSet
    <3>3. QED
      BY <2>1, <3>1, <3>2
  <2>3. QED
    BY <2>2
<1>3. QED
  BY <1>2 DEF RowsOf

\* Rows that are added take no reason away.
LEMMA StillPassedOver ==
  ASSUME NEW q \in Request, NEW p \in Request, NEW m,
         \A a : RowsOf(q, a) \subseteq RowsOf(p, a),
         PassedOver(q, m)
  PROVE  PassedOver(p, m)
<1>1. /\ RowsOf(q, LimitRow) \subseteq RowsOf(p, LimitRow)
      /\ RowsOf(q, BreakerRow) \subseteq RowsOf(p, BreakerRow)
      /\ RowsOf(q, UpstreamRow) \subseteq RowsOf(p, UpstreamRow)
  OBVIOUS
<1>2. QED
  BY <1>1 DEF PassedOver

\* What a chain is.
LEMMA ChainFacts ==
  ASSUME NEW c \in Chains \ {<<>>}
  PROVE  /\ c \in Seq(Models) /\ Len(c) \in Nat \ {0} /\ DOMAIN c = 1..Len(c)
         /\ \A i \in 1..Len(c) : c[i] \in Models
         /\ \A i, j \in 1..Len(c) : c[i] = c[j] => i = j
         /\ Head(c) = c[1]
<1>1. c \in Seq(Models) /\ IsInjective(c) /\ c # <<>>
  BY PipelineAssumption
<1>2. Len(c) \in Nat /\ DOMAIN c = 1..Len(c) /\ Len(c) # 0
  BY <1>1
<1>3. QED
  BY <1>1, <1>2 DEF IsInjective

\* The model a request is at is none of those it has left behind.
LEMMA CurrentIsNew ==
  ASSUME NEW q \in Request, q.chain \in Chains \ {<<>>}, q.next <= Len(q.chain)
  PROVE  Current(q) \in Models /\ Current(q) \notin Before(q)
<1>1. q.next \in Nat \ {0}
  BY DEF Request
<1>2. QED
  BY <1>1, ChainFacts DEF Current, Before

\* Going on leaves the current model behind.
LEMMA BeforeGrows ==
  ASSUME NEW q \in Request, NEW p, p.chain = q.chain, p.next = q.next + 1
  PROVE  Before(p) = Before(q) \union {Current(q)}
<1>1. q.next \in Nat \ {0}
  BY DEF Request
<1>2. 1..(p.next - 1) = 1..(q.next - 1) \union {q.next}
  BY <1>1
<1>3. QED
  BY <1>2 DEF Before, Current

\* A chain that is spent has been left behind whole.
LEMMA BeforeIsAll ==
  ASSUME NEW q \in Request, q.chain \in Chains \ {<<>>}, q.next - 1 = Len(q.chain)
  PROVE  Before(q) = ToSet(q.chain)
BY ChainFacts DEF Before, ToSet

\* What stands before the current model is part of the chain.
LEMMA TriedIsInChain ==
  ASSUME NEW q \in Request, q.chain \in Chains \ {<<>>}, q.next - 1 <= Len(q.chain),
         q.pc # "loop" => q.next <= Len(q.chain)
  PROVE  Tried(q) \subseteq ToSet(q.chain)
<1>1. q.next \in Nat \ {0}
  BY DEF Request
<1>2. QED
  BY <1>1, ChainFacts DEF Before, ToSet, Tried, Current

----------------------------------------------------------------------------
(* Requests *)

MeteredModels(s) == [i \in DOMAIN s |-> s[i].model]

\* The models of metering events are a sequence, which an event makes longer.
LEMMA EventAppended ==
  ASSUME NEW s \in Seq([model : Models, ok : BOOLEAN]),
         NEW x \in [model : Models, ok : BOOLEAN]
  PROVE  /\ MeteredModels(s) \in Seq(Models)
         /\ MeteredModels(s) \o <<>> = MeteredModels(s)
         /\ MeteredModels(Append(s, x)) = MeteredModels(s) \o <<x.model>>
<1>1. /\ DOMAIN s = 1..Len(s) /\ Len(s) \in Nat
      /\ \A i \in 1..Len(s) : s[i].model \in Models
  <2>1. DOMAIN s = 1..Len(s) /\ Len(s) \in Nat
    OBVIOUS
  <2>2. ASSUME NEW i \in 1..Len(s) PROVE s[i] \in [model : Models, ok : BOOLEAN]
    BY ElementOfSeq
  <2>3. QED
    BY <2>1, <2>2
<1>2. MeteredModels(s) \in Seq(Models) /\ Len(MeteredModels(s)) = Len(s)
  BY <1>1 DEF MeteredModels
<1>3. /\ Append(s, x) \in Seq([model : Models, ok : BOOLEAN])
      /\ DOMAIN Append(s, x) = 1..(Len(s) + 1)
      /\ \A i \in 1..Len(s) : Append(s, x)[i] = s[i]
      /\ Append(s, x)[Len(s) + 1] = x
  BY <1>1
<1>4. /\ MeteredModels(s) \o <<x.model>> \in Seq(Models)
      /\ DOMAIN (MeteredModels(s) \o <<x.model>>) = 1..(Len(s) + 1)
      /\ \A i \in 1..Len(s) : (MeteredModels(s) \o <<x.model>>)[i] = s[i].model
      /\ (MeteredModels(s) \o <<x.model>>)[Len(s) + 1] = x.model
  <2>1. x.model \in Models
    OBVIOUS
  <2>2. \A i \in 1..Len(s) : MeteredModels(s)[i] = s[i].model
    BY <1>1 DEF MeteredModels
  <2>3. QED
    BY <1>1, <1>2, <2>1, <2>2
<1>5. /\ MeteredModels(Append(s, x)) \in Seq(Models)
      /\ DOMAIN MeteredModels(Append(s, x)) = 1..(Len(s) + 1)
      /\ \A i \in 1..(Len(s) + 1) : MeteredModels(Append(s, x))[i] = Append(s, x)[i].model
  BY <1>1, <1>3 DEF MeteredModels
<1>6. \A i \in 1..(Len(s) + 1) :
        MeteredModels(Append(s, x))[i] = (MeteredModels(s) \o <<x.model>>)[i]
  BY <1>1, <1>3, <1>4, <1>5
<1>7. MeteredModels(Append(s, x)) = MeteredModels(s) \o <<x.model>>
  BY <1>1, <1>4, <1>5, <1>6
<1>8. QED
  BY <1>2, <1>7

\* A request that ends before its loop is told nothing of limits or calls.
LEMMA EndsEarly ==
  ASSUME NEW p \in Request, p.pc = "done", p.chain = <<>>, p.attempts = 0,
         p.called = <<>>, p.metered = <<>>,
         p.result.kind \in {"ok", "400", "404"}, RowsOf(p, ChatRow) = {}
  PROVE  RequestInv(p)
<1>1. ChainInv(p) /\ LimitInv(p) /\ ServeInv(p)
  BY DEF ChainInv, LimitInv, ServeInv, Active
<1>2. CallInv(p)
  <2>1. Len(p.called) = 0 /\ 0 <= MaxAttempts
    BY PipelineAssumption
  <2>2. IsInjective(p.called)
    BY DEF IsInjective
  <2>3. [i \in DOMAIN p.metered |-> p.metered[i].model] \o <<>> = <<>>
    OBVIOUS
  <2>4. QED
    BY <2>1, <2>2, <2>3 DEF CallInv
<1>3. DoneInv(p)
  BY DEF DoneInv, LimitTold, FirstServes, GaveUpLast
<1>4. QED
  BY <1>1, <1>2, <1>3 DEF RequestInv

\* A request that was routed is at the first model of its chain.
LEMMA EntersLoop ==
  ASSUME NEW c \in Chains \ {<<>>}, NEW p \in Request,
         p = [NewRequest EXCEPT !.pc = "loop", !.chain = c]
  PROVE  RequestInv(p)
<1>1. /\ p.pc = "loop" /\ p.chain = c /\ p.next = 1 /\ p.attempts = 0 /\ p.limitedAll
      /\ p.audit = <<>> /\ p.called = <<>> /\ p.metered = <<>>
  BY DEF NewRequest
<1>2. Before(p) = {} /\ \A a : RowsOf(p, a) = {}
  BY <1>1 DEF Before, RowsOf, ToSet
<1>3. ChainInv(p)
  BY <1>1, ChainFacts DEF ChainInv
<1>4. CallInv(p)
  <2>1. Len(p.called) = 0 /\ 0 <= MaxAttempts
    BY <1>1, PipelineAssumption
  <2>2. IsInjective(p.called) /\ ToSet(p.called) = {}
    BY <1>1 DEF IsInjective, ToSet
  <2>3. [i \in DOMAIN p.metered |-> p.metered[i].model] \o <<>> = <<>>
    BY <1>1
  <2>4. QED
    BY <1>1, <2>1, <2>2, <2>3 DEF CallInv
<1>5. LimitInv(p) /\ ServeInv(p) /\ DoneInv(p)
  BY <1>1, <1>2 DEF LimitInv, ServeInv, DoneInv
<1>6. QED
  BY <1>3, <1>4, <1>5 DEF RequestInv

\* A request goes on to the next model: refused by limiter or breaker, without a
\* provider, or after a failed call.
LEMMA GoesOn ==
  ASSUME NEW q \in Request, RequestInv(q), q.pc \in {"loop", "calling"},
         q.next <= Len(q.chain),
         NEW p \in Request, p.pc = "loop", p.chain = q.chain, p.next = q.next + 1,
         p.attempts = q.attempts, p.called = q.called,
         p.called = MeteredModels(p.metered),
         \A a : RowsOf(q, a) \subseteq RowsOf(p, a),
         RowsOf(p, ChatRow) = RowsOf(q, ChatRow),
         PassedOver(p, Current(q)),
         \/ /\ q.pc = "loop" /\ p.limitedAll = q.limitedAll
            /\ RowsOf(p, LimitRow) = RowsOf(q, LimitRow) \union {Current(q)}
         \/ /\ ~p.limitedAll
            /\ RowsOf(p, LimitRow) = RowsOf(q, LimitRow)
  PROVE  RequestInv(p)
<1>1. /\ q.next \in Nat \ {0} /\ q.chain \in Chains \ {<<>>} /\ Len(q.chain) \in Nat
      /\ Active(q) /\ Active(p)
  BY ChainFacts DEF Request, RequestInv, ChainInv, Active
<1>2. Before(p) = Before(q) \union {Current(q)} /\ Current(q) \notin Before(q)
  BY <1>1, BeforeGrows, CurrentIsNew
<1>3. Tried(p) = Before(p) /\ Tried(q) \subseteq Before(p)
  BY <1>2 DEF Tried
<1>4. ChainInv(p)
  BY <1>1 DEF ChainInv
<1>5. CallInv(p)
  <2>1. p.called = MeteredModels(p.metered) \o <<>>
    BY DEF Request
  <2>2. ToSet(p.called) \subseteq Tried(p)
    BY <1>3 DEF RequestInv, CallInv
  <2>3. QED
    BY <2>1, <2>2 DEF RequestInv, CallInv, MeteredModels
<1>6. LimitInv(p)
  <2>1. RowsOf(p, LimitRow) \subseteq Before(p)
    BY <1>1, <1>2 DEF RequestInv, LimitInv
  <2>2. p.limitedAll => p.attempts = 0 /\ RowsOf(p, LimitRow) = Before(p)
    BY <1>1, <1>2 DEF RequestInv, LimitInv
  <2>3. ~p.limitedAll => \E m \in Tried(p) : m \notin RowsOf(p, LimitRow)
    <3>1. CASE /\ q.pc = "loop" /\ p.limitedAll = q.limitedAll
               /\ RowsOf(p, LimitRow) = RowsOf(q, LimitRow) \union {Current(q)}
      <4>1. ~q.limitedAll => \E m \in Before(q) : m \notin RowsOf(q, LimitRow)
        BY <1>1, <3>1 DEF RequestInv, LimitInv, Tried
      <4>2. QED
        BY <1>2, <1>3, <3>1, <4>1
    <3>2. CASE RowsOf(p, LimitRow) = RowsOf(q, LimitRow)
      <4>1. Current(q) \notin RowsOf(p, LimitRow)
        BY <1>1, <1>2, <3>2 DEF RequestInv, LimitInv
      <4>2. QED
        BY <1>2, <1>3, <4>1
    <3>3. QED
      BY <3>1, <3>2
  <2>4. QED
    BY <2>1, <2>2, <2>3 DEF LimitInv
<1>7. ServeInv(p)
  <2>1. ASSUME NEW m \in Before(q) PROVE PassedOver(p, m)
    BY <1>1, StillPassedOver DEF RequestInv, ServeInv
  <2>2. RowsOf(p, ChatRow) = {}
    BY <1>1 DEF RequestInv, ServeInv
  <2>3. QED
    BY <1>2, <2>1, <2>2 DEF ServeInv
<1>8. DoneInv(p)
  BY DEF DoneInv
<1>9. QED
  BY <1>4, <1>5, <1>6, <1>7, <1>8 DEF RequestInv

\* A provider is called: the attempt and the call are counted, nothing else moves.
LEMMA StartsCall ==
  ASSUME NEW q \in Request, RequestInv(q), q.pc = "loop",
         q.next <= Len(q.chain), q.attempts < MaxAttempts, Current(q) \in Registered,
         NEW p \in Request, p.pc = "calling", p.chain = q.chain, p.next = q.next,
         ~p.limitedAll, p.attempts = q.attempts + 1, p.audit = q.audit,
         p.called = Append(q.called, Current(q)), p.metered = q.metered
  PROVE  RequestInv(p)
<1>1. /\ q.next \in Nat \ {0} /\ q.chain \in Chains \ {<<>>} /\ Len(q.chain) \in Nat
      /\ q.attempts \in Nat /\ q.called \in Seq(Models)
      /\ Active(q) /\ Active(p)
  BY ChainFacts DEF Request, RequestInv, ChainInv, Active
<1>2. Current(q) \notin Before(q) /\ Current(q) \in Models
  BY <1>1, CurrentIsNew
<1>3. /\ Before(p) = Before(q) /\ Current(p) = Current(q)
      /\ Tried(q) = Before(q) /\ Tried(p) = Before(q) \union {Current(q)}
      /\ \A a : RowsOf(p, a) = RowsOf(q, a)
  BY DEF Before, Current, Tried, RowsOf
<1>4. ChainInv(p)
  BY <1>1, <1>3 DEF ChainInv
<1>5. CallInv(p)
  <2>1. /\ Len(q.called) = q.attempts /\ IsInjective(q.called)
        /\ ToSet(q.called) \subseteq Before(q)
    BY <1>3 DEF RequestInv, CallInv
  <2>2. /\ DOMAIN q.called = 1..q.attempts /\ DOMAIN p.called = 1..(q.attempts + 1)
        /\ Len(p.called) = q.attempts + 1
        /\ \A i \in 1..q.attempts : p.called[i] = q.called[i]
        /\ p.called[q.attempts + 1] = Current(q)
    BY <1>1, <1>2, <2>1
  <2>3. \A i \in 1..q.attempts : q.called[i] \in Before(q)
    BY <2>1, <2>2 DEF ToSet
  <2>4. IsInjective(p.called)
    <3>1. ASSUME NEW i \in 1..(q.attempts + 1), NEW j \in 1..(q.attempts + 1),
                 p.called[i] = p.called[j]
          PROVE  i = j
      <4>1. CASE i \in 1..q.attempts /\ j \in 1..q.attempts
        BY <2>1, <2>2, <3>1, <4>1 DEF IsInjective
      <4>2. CASE i \notin 1..q.attempts \/ j \notin 1..q.attempts
        BY <1>1, <1>2, <2>2, <2>3, <3>1, <4>2
      <4>3. QED
        BY <4>1, <4>2
    <3>2. QED
      BY <2>2, <3>1 DEF IsInjective
  <2>5. ToSet(p.called) \subseteq Tried(p)
    BY <1>1, <1>3, <2>2, <2>3 DEF ToSet
  <2>6. p.called = MeteredModels(p.metered) \o <<Current(p)>>
    <3>1. q.called = MeteredModels(q.metered) \o <<>>
      BY DEF RequestInv, CallInv, MeteredModels
    <3>2. MeteredModels(q.metered) \in Seq(Models)
      <4>1. q.metered \in Seq([model : Models, ok : BOOLEAN])
        BY DEF Request
      <4>2. PICK x \in [model : Models, ok : BOOLEAN] : x = [model |-> Current(q), ok |-> TRUE]
        BY <1>2
      <4>3. QED
        BY <4>1, <4>2, EventAppended
    <3>3. q.called = MeteredModels(q.metered)
      BY <3>1, <3>2
    <3>4. QED
      BY <1>1, <1>2, <1>3, <3>3, AppendIsConcat
  <2>7. Len(p.called) = p.attempts /\ p.attempts <= MaxAttempts
    BY <1>1, <2>2, PipelineAssumption
  <2>8. QED
    BY <2>4, <2>5, <2>6, <2>7 DEF CallInv, MeteredModels
<1>6. LimitInv(p)
  <2>1. RowsOf(p, LimitRow) \subseteq Before(p)
    BY <1>1, <1>3 DEF RequestInv, LimitInv
  <2>2. Current(q) \in Tried(p) /\ Current(q) \notin RowsOf(p, LimitRow)
    BY <1>2, <1>3, <2>1
  <2>3. QED
    BY <2>1, <2>2 DEF LimitInv
<1>7. ServeInv(p)
  <2>1. ASSUME NEW m \in Before(p) PROVE PassedOver(p, m)
    BY <1>1, <1>3, StillPassedOver DEF RequestInv, ServeInv
  <2>2. RowsOf(p, ChatRow) = {}
    BY <1>1, <1>3 DEF RequestInv, ServeInv
  <2>3. QED
    BY <2>1, <2>2 DEF ServeInv
<1>8. DoneInv(p)
  BY DEF DoneInv
<1>9. QED
  BY <1>4, <1>5, <1>6, <1>7, <1>8 DEF RequestInv

\* What is said of a request that ends with the answer of its current model.
LEMMA AnswerIsTold ==
  ASSUME NEW p \in Request, p.chain \in Chains \ {<<>>}, p.next <= Len(p.chain),
         RowsOf(p, LimitRow) \subseteq Before(p),
         \A m \in Before(p) : PassedOver(p, m),
         RowsOf(p, ChatRow) = {Current(p)},
         p.result = Answer(Current(p), p.chain[1])
  PROVE  LimitTold(p) /\ FirstServes(p) /\ GaveUpLast(p)
<1>1. /\ p.next \in 1..Len(p.chain) /\ DOMAIN p.chain = 1..Len(p.chain)
      /\ Current(p) = p.chain[p.next]
  BY ChainFacts DEF Request, Current
<1>2. Current(p) \in ToSet(p.chain) /\ Current(p) \notin Before(p)
  BY <1>1, CurrentIsNew DEF ToSet
<1>3. p.result.kind = "ok"
  BY DEF Answer
<1>4. LimitTold(p) /\ GaveUpLast(p)
  BY <1>2, <1>3 DEF LimitTold, GaveUpLast
<1>5. \A j \in 1..(p.next - 1) : PassedOver(p, p.chain[j])
  BY DEF Before
<1>6. FirstServes(p)
  BY <1>1, <1>5 DEF FirstServes
<1>7. QED
  BY <1>4, <1>6

\* A call succeeds; the answer is still to be cached, or there is no cache.
LEMMA IsServed ==
  ASSUME NEW q \in Request, RequestInv(q), q.pc = "calling",
         NEW p \in Request, p.pc \in {"store", "done"}, p.chain = q.chain,
         p.next = q.next, p.limitedAll = q.limitedAll, p.attempts = q.attempts,
         p.called = q.called, p.called = MeteredModels(p.metered),
         p.result = Answer(Current(q), q.chain[1]),
         RowsOf(p, ChatRow) = RowsOf(q, ChatRow) \union {Current(q)},
         RowsOf(p, LimitRow) = RowsOf(q, LimitRow),
         \A a : RowsOf(q, a) \subseteq RowsOf(p, a)
  PROVE  RequestInv(p)
<1>1. /\ q.next \in Nat \ {0} /\ q.chain \in Chains \ {<<>>} /\ Len(q.chain) \in Nat
      /\ Active(q) /\ q.next <= Len(q.chain)
  BY ChainFacts DEF Request, RequestInv, ChainInv, Active
<1>2. Before(p) = Before(q) /\ Current(p) = Current(q)
  BY DEF Before, Current
<1>3. ChainInv(p)
  BY <1>1 DEF ChainInv
<1>4. CallInv(p)
  <2>1. p.called = MeteredModels(p.metered) \o <<>>
    BY DEF Request
  <2>2. QED
    BY <2>1 DEF RequestInv, CallInv, MeteredModels
<1>5. RowsOf(p, LimitRow) = RowsOf(q, LimitRow) /\ ~q.limitedAll
  BY <1>1 DEF RequestInv, LimitInv
<1>6. LimitInv(p)
  <2>1. RowsOf(p, LimitRow) \subseteq Before(p)
    BY <1>1, <1>2, <1>5 DEF RequestInv, LimitInv
  <2>2. p.pc = "store" => Current(p) \in Tried(p)
    BY DEF Tried
  <2>3. Current(p) \notin Before(p)
    BY <1>1, <1>2, CurrentIsNew
  <2>4. QED
    BY <1>5, <2>1, <2>2, <2>3 DEF LimitInv, Active
<1>7. RowsOf(p, ChatRow) = {Current(p)}
  BY <1>1, <1>2 DEF RequestInv, ServeInv
<1>8. ASSUME NEW m \in Before(p) PROVE PassedOver(p, m)
  BY <1>1, <1>2, StillPassedOver DEF RequestInv, ServeInv
<1>9. ServeInv(p)
  BY <1>2, <1>7, <1>8 DEF ServeInv, Active
<1>10. DoneInv(p)
  <2>1. RowsOf(p, LimitRow) \subseteq Before(p)
    BY <1>1, <1>2, <1>5 DEF RequestInv, LimitInv
  <2>2. QED
    BY <1>1, <1>2, <1>7, <1>8, <2>1, AnswerIsTold DEF DoneInv
<1>11. QED
  BY <1>3, <1>4, <1>6, <1>9, <1>10 DEF RequestInv

\* The answer is cached.
LEMMA IsStored ==
  ASSUME NEW q \in Request, RequestInv(q), q.pc = "store",
         NEW p \in Request, p = [q EXCEPT !.pc = "done"]
  PROVE  RequestInv(p)
<1>1. /\ p.pc = "done" /\ p.chain = q.chain /\ p.next = q.next
      /\ p.attempts = q.attempts /\ p.audit = q.audit /\ p.result = q.result
      /\ p.called = q.called /\ p.metered = q.metered
  BY DEF Request
<1>2. /\ Before(p) = Before(q) /\ Current(p) = Current(q)
      /\ Active(q) /\ ~Active(p) /\ \A a : RowsOf(p, a) = RowsOf(q, a)
  BY <1>1 DEF Before, Current, RowsOf, Active
<1>3. ChainInv(p) /\ LimitInv(p) /\ ServeInv(p)
  BY <1>1, <1>2 DEF ChainInv, LimitInv, ServeInv
<1>4. CallInv(p)
  BY <1>1 DEF RequestInv, CallInv
<1>5. DoneInv(p)
  <2>1. /\ p.chain \in Chains \ {<<>>} /\ p.next <= Len(p.chain)
        /\ RowsOf(p, LimitRow) \subseteq Before(p)
        /\ RowsOf(p, ChatRow) = {Current(p)}
        /\ p.result = Answer(Current(p), p.chain[1])
    BY <1>1, <1>2 DEF RequestInv, ChainInv, LimitInv, ServeInv
  <2>2. ASSUME NEW m \in Before(p) PROVE PassedOver(p, m)
    BY <1>2, StillPassedOver DEF RequestInv, ServeInv
  <2>3. QED
    BY <2>1, <2>2, AnswerIsTold DEF DoneInv
<1>6. QED
  BY <1>3, <1>4, <1>5 DEF RequestInv

\* The loop ends: calls or chain are spent.
LEMMA IsGivenUp ==
  ASSUME NEW q \in Request, RequestInv(q), q.pc = "loop",
         q.attempts >= MaxAttempts \/ q.next > Len(q.chain),
         NEW p \in Request, p.pc = "done", p.chain = q.chain, p.next = q.next,
         p.attempts = q.attempts, p.audit = q.audit,
         p.called = q.called, p.metered = q.metered,
         p.result = Failure(IF q.limitedAll THEN "429" ELSE "502")
  PROVE  RequestInv(p)
<1>1. /\ q.next \in Nat \ {0} /\ q.chain \in Chains \ {<<>>} /\ Len(q.chain) \in Nat
      /\ q.attempts \in Nat /\ q.limitedAll \in BOOLEAN
      /\ q.next - 1 <= Len(q.chain) /\ Active(q) /\ ~Active(p)
  BY ChainFacts DEF Request, RequestInv, ChainInv, Active
<1>2. Before(p) = Before(q) /\ \A a : RowsOf(p, a) = RowsOf(q, a)
  BY DEF Before, RowsOf
<1>3. ChainInv(p) /\ LimitInv(p) /\ ServeInv(p)
  BY <1>1 DEF ChainInv, LimitInv, ServeInv
<1>4. CallInv(p)
  BY DEF RequestInv, CallInv
<1>5. Tried(q) = Before(q) /\ Tried(q) \subseteq ToSet(q.chain)
  BY <1>1, TriedIsInChain DEF Tried
<1>6. q.next > Len(q.chain) => Before(q) = ToSet(q.chain)
  BY <1>1, BeforeIsAll
<1>7. LimitTold(p)
  <2>1. CASE q.limitedAll
    <3>1. q.attempts = 0 /\ RowsOf(q, LimitRow) = Before(q)
      BY <1>1, <2>1 DEF RequestInv, LimitInv
    <3>2. RowsOf(q, LimitRow) = ToSet(q.chain)
      BY <1>1, <1>6, <3>1, PipelineAssumption
    <3>3. p.result.kind = "429" /\ p.chain # <<>>
      BY <1>1, <2>1 DEF Failure
    <3>4. QED
      BY <1>2, <3>2, <3>3 DEF LimitTold
  <2>2. CASE ~q.limitedAll
    <3>1. RowsOf(q, LimitRow) # ToSet(q.chain)
      BY <1>1, <1>5, <2>2 DEF RequestInv, LimitInv
    <3>2. p.result.kind # "429"
      BY <2>2 DEF Failure
    <3>3. QED
      BY <1>2, <3>1, <3>2 DEF LimitTold
  <2>3. QED
    BY <2>1, <2>2
<1>8. FirstServes(p)
  BY <1>1, <1>2 DEF RequestInv, ServeInv, FirstServes
<1>9. GaveUpLast(p)
  <2>1. CASE q.attempts >= MaxAttempts
    <3>1. Len(p.called) = MaxAttempts
      BY <1>1, <2>1, PipelineAssumption DEF RequestInv, CallInv
    <3>2. QED
      BY <3>1 DEF GaveUpLast
  <2>2. CASE q.next > Len(q.chain)
    <3>1. ASSUME NEW m \in Before(q) PROVE PassedOver(p, m)
      BY <1>1, <1>2, StillPassedOver DEF RequestInv, ServeInv
    <3>2. QED
      BY <1>6, <2>2, <3>1 DEF GaveUpLast
  <2>3. QED
    BY <2>1, <2>2
<1>10. QED
  BY <1>3, <1>4, <1>7, <1>8, <1>9 DEF RequestInv, DoneInv

----------------------------------------------------------------------------
(* Steps of a request *)

\* A row, and what it does to the rows.
LEMMA RowTyped ==
  ASSUME NEW action \in Actions, NEW m \in Models \union {NoModel},
         NEW q \in Request
  PROVE  /\ Row(action, m) \in Seq(AuditRow)
         /\ q.audit \o Row(action, m) \in Seq(AuditRow)
<1>1. [action |-> action, model |-> m] \in AuditRow
  BY DEF AuditRow
<1>2. Row(action, m) \in Seq(AuditRow)
  BY <1>1 DEF Row
<1>3. QED
  BY <1>2 DEF Request

AddsRow(q, p, action, m) == p.audit = q.audit \o Row(action, m)

LEMMA RowAdded ==
  ASSUME NEW action \in Actions, NEW m \in Models \union {NoModel},
         NEW q \in Request, NEW p \in Request, AddsRow(q, p, action, m)
  PROVE  /\ RowsOf(p, action) = RowsOf(q, action) \union {m}
         /\ \A a : a # action => RowsOf(p, a) = RowsOf(q, a)
         /\ \A a : RowsOf(q, a) \subseteq RowsOf(p, a)
<1> DEFINE x == [action |-> action, model |-> m]
<1>1. x \in AuditRow /\ x.action = action /\ x.model = m
  BY DEF AuditRow
<1>2. p.audit = q.audit \o <<x>>
  BY DEF Row, AddsRow
<1> HIDE DEF x
<1>3. QED
  BY <1>1, <1>2, RowsAppended

\* A request that goes on.
LEMMA ContinuedFields ==
  ASSUME TypeOK, NEW r \in Requests, NEW rows \in Seq(AuditRow)
  PROVE  LET p == Continued(r, rows)
             q == req[r]
         IN  /\ p \in Request
             /\ p.pc = "loop" /\ p.chain = q.chain /\ p.next = q.next + 1
             /\ p.attempts = q.attempts /\ p.limitedAll = q.limitedAll
             /\ p.audit = q.audit \o rows /\ p.called = q.called
             /\ p.metered = q.metered
<1>1. req[r] \in Request
  BY DEF TypeOK
<1>2. req[r].audit \o rows \in Seq(AuditRow) /\ req[r].next + 1 \in Nat \ {0}
  BY <1>1 DEF Request
<1>3. QED
  BY <1>1, <1>2 DEF Continued, Request

\* What becomes of one request is the business of no other.
LEMMA BecomesOnly ==
  ASSUME TypeOK, NEW r \in Requests, NEW q \in Request, Becomes(r, q)
  PROVE  /\ req' \in [Requests -> Request] /\ req'[r] = q
         /\ \A s \in Requests \ {r} : req'[s] = req[s]
BY DEF TypeOK, Becomes

\* The request of a step, its new record and the others.
Moves(r) ==
  /\ req' \in [Requests -> Request]
  /\ \A s \in Requests \ {r} : req'[s] = req[s]
  /\ RequestInv(req'[r])

\* Where the loop looks at its next model.
LEMMA LoopFacts ==
  ASSUME IInv, NEW r \in Requests, InLoop(r) \/ At(r, "calling")
  PROVE  /\ req[r] \in Request /\ RequestInv(req[r]) /\ req[r].next <= Len(req[r].chain)
         /\ req[r].pc \in {"loop", "calling"}
         /\ Model(r) = Current(req[r]) /\ Model(r) \in Models
         /\ req[r].called \in Seq(Models) /\ req[r].attempts \in Nat
         /\ req[r].metered \in Seq([model : Models, ok : BOOLEAN])
<1>1. req[r] \in Request /\ RequestInv(req[r])
  BY DEF IInv, TypeOK
<1>2. req[r].next <= Len(req[r].chain) /\ req[r].chain \in Chains \ {<<>>}
  BY <1>1 DEF InLoop, At, RequestInv, ChainInv, Active
<1>3. Model(r) = Current(req[r]) /\ Model(r) \in Models
  BY <1>1, <1>2, CurrentIsNew DEF Model, Current
<1>4. QED
  BY <1>1, <1>2, <1>3 DEF InLoop, At, Request

\* In the loop every call has returned.
LEMMA LoopMetered ==
  ASSUME IInv, NEW r \in Requests, InLoop(r)
  PROVE  req[r].called = MeteredModels(req[r].metered)
<1>1. /\ req[r].pc = "loop" /\ RequestInv(req[r]) /\ Model(r) \in Models
      /\ req[r].metered \in Seq([model : Models, ok : BOOLEAN])
  BY LoopFacts DEF InLoop, At
<1>2. req[r].called = MeteredModels(req[r].metered) \o <<>>
  BY <1>1 DEF RequestInv, CallInv, MeteredModels
<1>3. Metered(r, TRUE) \in [model : Models, ok : BOOLEAN]
  BY <1>1 DEF Metered
<1>4. QED
  BY <1>1, <1>2, <1>3, EventAppended

\* While a call is under way its event is all that is missing.
LEMMA CallMetered ==
  ASSUME IInv, NEW r \in Requests, At(r, "calling"), NEW ok \in BOOLEAN
  PROVE  /\ Append(req[r].metered, Metered(r, ok)) \in Seq([model : Models, ok : BOOLEAN])
         /\ req[r].called = MeteredModels(Append(req[r].metered, Metered(r, ok)))
<1>1. /\ req[r].pc = "calling" /\ RequestInv(req[r])
      /\ Model(r) = Current(req[r]) /\ Model(r) \in Models
      /\ req[r].metered \in Seq([model : Models, ok : BOOLEAN])
  BY LoopFacts DEF At
<1>2. req[r].called = MeteredModels(req[r].metered) \o <<Current(req[r])>>
  BY <1>1 DEF RequestInv, CallInv, MeteredModels
<1>3. /\ Metered(r, ok) \in [model : Models, ok : BOOLEAN]
      /\ Metered(r, ok).model = Current(req[r])
  BY <1>1 DEF Metered
<1>4. MeteredModels(Append(req[r].metered, Metered(r, ok)))
        = MeteredModels(req[r].metered) \o <<Metered(r, ok).model>>
  BY <1>1, <1>3, EventAppended
<1>5. QED
  BY <1>1, <1>2, <1>3, <1>4

\* Before the loop.
LEMMA EarlyMoves ==
  ASSUME IInv, NEW r \in Requests,
         Rejected(r) \/ CacheHit(r) \/ NotRouted(r) \/ Routed(r)
  PROVE  Moves(r)
<1> DEFINE q == req[r]
<1>1. TypeOK /\ q = NewRequest /\ q \in Request
  BY DEF IInv, TypeOK, RequestInv, ChainInv, Rejected, CacheHit, NotRouted, Routed, At
<1>2. /\ q.chain = <<>> /\ q.attempts = 0 /\ q.audit = <<>>
      /\ q.called = <<>> /\ q.metered = <<>>
  BY <1>1 DEF NewRequest
<1>3. RowsOf(q, ChatRow) = {}
  BY <1>2 DEF RowsOf, ToSet
<1>4. ASSUME NEW answer \in Answers \union [kind : {"none", "400", "404", "429", "502"}],
             answer.kind \in {"ok", "400", "404"},
             NEW action \in {RiskRow, CacheRow, RouteRow},
             NEW m \in Models \union {NoModel}, Ends(r, answer, Row(action, m))
      PROVE  Moves(r)
  <2> DEFINE p == [q EXCEPT !.pc = "done", !.result = answer,
                            !.audit = @ \o Row(action, m)]
  <2>1. q.audit \o Row(action, m) \in Seq(AuditRow)
    BY <1>1, RowTyped DEF Actions
  <2>2. /\ p \in Request /\ p.pc = "done" /\ p.chain = <<>> /\ p.attempts = 0
        /\ p.called = <<>> /\ p.metered = <<>> /\ p.result = answer
        /\ p.audit = q.audit \o Row(action, m)
    BY <1>1, <1>2, <2>1 DEF Request
  <2>4. Becomes(r, p)
    BY <1>4 DEF Ends
  <2> HIDE DEF p
  <2>3. RowsOf(p, ChatRow) = {}
    <3>1. action \in Actions /\ action # ChatRow
      BY RowNames DEF Actions
    <3>2. AddsRow(q, p, action, m) /\ p \in Request
      BY <2>2 DEF AddsRow
    <3>3. RowsOf(p, ChatRow) = RowsOf(q, ChatRow)
      BY <1>1, <3>1, <3>2, RowAdded
    <3>4. QED
      BY <1>3, <3>3
  <2>5. RequestInv(p)
    BY <1>4, <2>2, <2>3, EndsEarly
  <2>6. QED
    BY <1>1, <2>2, <2>4, <2>5, BecomesOnly DEF Moves
<1>5. CASE Rejected(r)
  <2>1. Failure("400") \in [kind : {"none", "400", "404", "429", "502"}]
        /\ Failure("400").kind = "400"
    BY DEF Failure
  <2>2. QED
    BY <1>4, <1>5, <2>1 DEF Rejected
<1>6. CASE CacheHit(r)
  <2>1. cache[CacheKey[r]] \in Answers
    BY <1>1, <1>6 DEF CacheHit, Cached, TypeOK
  <2>2. cache[CacheKey[r]].kind = "ok" /\ cache[CacheKey[r]].model \in Models
    BY <2>1 DEF Answers
  <2>3. QED
    BY <1>4, <1>6, <2>1, <2>2 DEF CacheHit
<1>7. CASE NotRouted(r)
  <2>1. Failure("404") \in [kind : {"none", "400", "404", "429", "502"}]
        /\ Failure("404").kind = "404"
    BY DEF Failure
  <2>2. QED
    BY <1>4, <1>7, <2>1 DEF NotRouted
<1>8. CASE Routed(r)
  <2>1. PICK c \in Chains \ {<<>>} : Becomes(r, [q EXCEPT !.pc = "loop", !.chain = c])
    BY <1>8 DEF Routed
  <2>2. [q EXCEPT !.pc = "loop", !.chain = c] \in Request
    BY <1>1 DEF Request
  <2>3. RequestInv([q EXCEPT !.pc = "loop", !.chain = c])
    BY <1>1, <2>2, EntersLoop
  <2>4. QED
    BY <1>1, <2>1, <2>2, <2>3, BecomesOnly DEF Moves
<1>9. QED
  BY <1>5, <1>6, <1>7, <1>8

\* A model is refused, or has no provider.
LEMMA RefusedMoves ==
  ASSUME IInv, NEW r \in Requests, Limited(r) \/ BreakerRefused(r) \/ NoProvider(r)
  PROVE  Moves(r)
<1> DEFINE q == req[r]
<1>1. InLoop(r) /\ TypeOK
  BY DEF IInv, Limited, BreakerRefused, NoProvider
<1>2. /\ q \in Request /\ RequestInv(q) /\ q.next <= Len(q.chain) /\ q.pc = "loop"
      /\ Model(r) = Current(q) /\ Model(r) \in Models
      /\ q.called = MeteredModels(q.metered)
  BY <1>1, LoopFacts, LoopMetered DEF InLoop, At
<1>3. CASE Limited(r)
  <2> DEFINE p == Continued(r, Row(LimitRow, Model(r)))
  <2>0. LimitRow \in Actions
    BY DEF Actions
  <2>1. Row(LimitRow, Model(r)) \in Seq(AuditRow)
    BY <1>2, <2>0, RowTyped
  <2>2. /\ p \in Request /\ p.pc = "loop" /\ p.chain = q.chain /\ p.next = q.next + 1
        /\ p.attempts = q.attempts /\ p.limitedAll = q.limitedAll
        /\ p.audit = q.audit \o Row(LimitRow, Model(r))
        /\ p.called = q.called /\ p.metered = q.metered
    BY <1>1, <2>1, ContinuedFields
  <2>3. Becomes(r, p)
    BY <1>3 DEF Limited
  <2> HIDE DEF p
  <2>4. /\ RowsOf(p, LimitRow) = RowsOf(q, LimitRow) \union {Current(q)}
        /\ RowsOf(p, ChatRow) = RowsOf(q, ChatRow)
        /\ \A a : RowsOf(q, a) \subseteq RowsOf(p, a)
    <3>1. ChatRow # LimitRow /\ Model(r) \in Models \union {NoModel}
      BY <1>2, RowNames
    <3>2. AddsRow(q, p, LimitRow, Model(r))
      BY <2>2 DEF AddsRow
    <3>3. QED
      BY <1>2, <2>0, <2>2, <3>1, <3>2, RowAdded
  <2>5. PassedOver(p, Current(q))
    BY <2>4 DEF PassedOver
  <2>6. RequestInv(p)
    BY <1>2, <2>2, <2>4, <2>5, GoesOn
  <2>7. QED
    BY <1>1, <2>2, <2>3, <2>6, BecomesOnly DEF Moves
<1>4. CASE BreakerRefused(r)
  <2> DEFINE c == Continued(r, Row(BreakerRow, Model(r)))
             p == [c EXCEPT !.limitedAll = FALSE]
  <2>0. BreakerRow \in Actions
    BY DEF Actions
  <2>1. Row(BreakerRow, Model(r)) \in Seq(AuditRow)
    BY <1>2, <2>0, RowTyped
  <2>2. /\ c \in Request /\ c.pc = "loop" /\ c.chain = q.chain /\ c.next = q.next + 1
        /\ c.attempts = q.attempts
        /\ c.audit = q.audit \o Row(BreakerRow, Model(r))
        /\ c.called = q.called /\ c.metered = q.metered
    BY <1>1, <2>1, ContinuedFields
  <2>3. Becomes(r, p)
    BY <1>4 DEF BreakerRefused
  <2> HIDE DEF c
  <2>4. /\ p \in Request /\ p.pc = "loop" /\ p.chain = q.chain /\ p.next = q.next + 1
        /\ p.attempts = q.attempts /\ ~p.limitedAll
        /\ p.audit = q.audit \o Row(BreakerRow, Model(r))
        /\ p.called = q.called /\ p.metered = q.metered
    BY <2>2 DEF Request
  <2> HIDE DEF p
  <2>5. /\ RowsOf(p, BreakerRow) = RowsOf(q, BreakerRow) \union {Current(q)}
        /\ RowsOf(p, LimitRow) = RowsOf(q, LimitRow)
        /\ RowsOf(p, ChatRow) = RowsOf(q, ChatRow)
        /\ \A a : RowsOf(q, a) \subseteq RowsOf(p, a)
    <3>1. /\ LimitRow # BreakerRow /\ ChatRow # BreakerRow
          /\ Model(r) \in Models \union {NoModel}
      BY <1>2, RowNames
    <3>2. AddsRow(q, p, BreakerRow, Model(r))
      BY <2>4 DEF AddsRow
    <3>3. QED
      BY <1>2, <2>0, <2>4, <3>1, <3>2, RowAdded
  <2>6. PassedOver(p, Current(q))
    BY <2>5 DEF PassedOver
  <2>7. RequestInv(p)
    BY <1>2, <2>4, <2>5, <2>6, GoesOn
  <2>8. QED
    BY <1>1, <2>3, <2>4, <2>7, BecomesOnly DEF Moves
<1>5. CASE NoProvider(r)
  <2> DEFINE c == Continued(r, <<>>)
             p == [c EXCEPT !.limitedAll = FALSE]
  <2>1. <<>> \in Seq(AuditRow) /\ q.audit \o <<>> = q.audit
    BY <1>2 DEF Request
  <2>2. /\ c \in Request /\ c.pc = "loop" /\ c.chain = q.chain /\ c.next = q.next + 1
        /\ c.attempts = q.attempts /\ c.audit = q.audit
        /\ c.called = q.called /\ c.metered = q.metered
    BY <1>1, <2>1, ContinuedFields
  <2>3. Becomes(r, p)
    BY <1>5 DEF NoProvider
  <2> HIDE DEF c
  <2>4. /\ p \in Request /\ p.pc = "loop" /\ p.chain = q.chain /\ p.next = q.next + 1
        /\ p.attempts = q.attempts /\ ~p.limitedAll /\ p.audit = q.audit
        /\ p.called = q.called /\ p.metered = q.metered
    BY <2>2 DEF Request
  <2> HIDE DEF p
  <2>5. \A a : RowsOf(p, a) = RowsOf(q, a)
    BY <2>4 DEF RowsOf
  <2>6. PassedOver(p, Current(q))
    BY <1>2, <1>5 DEF PassedOver, NoProvider
  <2>7. RequestInv(p)
    BY <1>2, <2>4, <2>5, <2>6, GoesOn
  <2>8. QED
    BY <1>1, <2>3, <2>4, <2>7, BecomesOnly DEF Moves
<1>6. QED
  BY <1>3, <1>4, <1>5

\* A provider is called.
LEMMA CalledMoves ==
  ASSUME IInv, NEW r \in Requests, Called(r)
  PROVE  Moves(r) /\ At(r, "calling")' /\ Model(r)' = Model(r)
<1> DEFINE q == req[r]
           p == [q EXCEPT !.pc = "calling", !.limitedAll = FALSE,
                          !.attempts = @ + 1, !.called = Append(@, Model(r))]
<1>1. InLoop(r) /\ TypeOK /\ Becomes(r, p)
  BY DEF IInv, Called
<1>2. /\ q \in Request /\ RequestInv(q) /\ q.next <= Len(q.chain)
      /\ q.pc = "loop" /\ q.attempts < MaxAttempts
      /\ Model(r) = Current(q) /\ Model(r) \in Models
      /\ q.called \in Seq(Models) /\ q.attempts \in Nat /\ Current(q) \in Registered
  BY <1>1, LoopFacts DEF InLoop, At, Called
<1>3. Append(q.called, Model(r)) \in Seq(Models) /\ q.attempts + 1 \in Nat
  BY <1>2
<1>4. /\ p \in Request /\ p.pc = "calling" /\ p.chain = q.chain /\ p.next = q.next
      /\ ~p.limitedAll /\ p.attempts = q.attempts + 1 /\ p.audit = q.audit
      /\ p.called = Append(q.called, Current(q)) /\ p.metered = q.metered
  BY <1>2, <1>3 DEF Request
<1> HIDE DEF p
<1>5. RequestInv(p)
  BY <1>2, <1>4, StartsCall
<1>6. /\ req' \in [Requests -> Request] /\ req'[r] = p
      /\ \A s \in Requests \ {r} : req'[s] = req[s]
  BY <1>1, <1>4, BecomesOnly
<1>7. QED
  BY <1>4, <1>5, <1>6 DEF Moves, At, Model

\* A call fails.
LEMMA FailedMoves ==
  ASSUME IInv, NEW r \in Requests, Failed(r)
  PROVE  Moves(r)
<1> DEFINE q == req[r]
           c == Continued(r, Row(UpstreamRow, Model(r)))
           e == Append(c.metered, Metered(r, FALSE))
           p == [c EXCEPT !.metered = e]
<1>1. At(r, "calling") /\ TypeOK /\ Becomes(r, p)
  BY DEF IInv, Failed
<1>2. /\ q \in Request /\ RequestInv(q) /\ q.next <= Len(q.chain) /\ q.pc = "calling"
      /\ Model(r) = Current(q) /\ Model(r) \in Models
  BY <1>1, LoopFacts DEF At
<1>3. UpstreamRow \in Actions /\ Model(r) \in Models \union {NoModel}
  BY <1>2 DEF Actions
<1>4. Row(UpstreamRow, Model(r)) \in Seq(AuditRow)
  BY <1>2, <1>3, RowTyped
<1>5. /\ c \in Request /\ c.pc = "loop" /\ c.chain = q.chain /\ c.next = q.next + 1
      /\ c.attempts = q.attempts /\ c.audit = q.audit \o Row(UpstreamRow, Model(r))
      /\ c.called = q.called /\ c.metered = q.metered /\ c.limitedAll = q.limitedAll
  BY <1>1, <1>4, ContinuedFields
<1> HIDE DEF c
<1>6. e \in Seq([model : Models, ok : BOOLEAN]) /\ q.called = MeteredModels(e)
  BY <1>1, <1>5, CallMetered
<1> HIDE DEF e
<1>7. /\ p \in Request /\ p.pc = "loop" /\ p.chain = q.chain /\ p.next = q.next + 1
      /\ p.attempts = q.attempts /\ p.audit = q.audit \o Row(UpstreamRow, Model(r))
      /\ p.called = q.called /\ p.metered = e /\ p.limitedAll = q.limitedAll
  BY <1>5, <1>6 DEF Request
<1> HIDE DEF p
<1>8. AddsRow(q, p, UpstreamRow, Model(r)) /\ p \in Request /\ q \in Request
  BY <1>2, <1>7 DEF AddsRow
<1>9. ChatRow # UpstreamRow /\ LimitRow # UpstreamRow
  BY RowNames
<1>10. /\ RowsOf(p, UpstreamRow) = RowsOf(q, UpstreamRow) \union {Model(r)}
       /\ RowsOf(p, ChatRow) = RowsOf(q, ChatRow)
       /\ RowsOf(p, LimitRow) = RowsOf(q, LimitRow)
       /\ \A a : RowsOf(q, a) \subseteq RowsOf(p, a)
  BY <1>3, <1>8, <1>9, RowAdded
<1>11. PassedOver(p, Current(q))
  BY <1>2, <1>10 DEF PassedOver
<1>12. ~q.limitedAll
  BY <1>2 DEF RequestInv, LimitInv, Active
<1>13. RequestInv(p)
  BY <1>2, <1>6, <1>7, <1>10, <1>11, <1>12, GoesOn
<1>14. QED
  BY <1>1, <1>7, <1>13, BecomesOnly DEF Moves

\* A call succeeds.
LEMMA SucceededMoves ==
  ASSUME IInv, NEW r \in Requests, Succeeded(r)
  PROVE  Moves(r)
<1> DEFINE q == req[r]
           e == Append(q.metered, Metered(r, TRUE))
           p == [q EXCEPT !.pc = IF CacheEnabled THEN "store" ELSE "done",
                          !.result = OwnAnswer(r), !.metered = e,
                          !.audit = @ \o Row(ChatRow, Model(r))]
<1>1. At(r, "calling") /\ TypeOK /\ Becomes(r, p)
  BY DEF IInv, Succeeded
<1>2. /\ q \in Request /\ RequestInv(q) /\ q.next <= Len(q.chain) /\ q.pc = "calling"
      /\ Model(r) = Current(q) /\ Model(r) \in Models
  BY <1>1, LoopFacts DEF At
<1>3. ChatRow \in Actions /\ Model(r) \in Models \union {NoModel}
  BY <1>2 DEF Actions
<1>4. q.audit \o Row(ChatRow, Model(r)) \in Seq(AuditRow)
  BY <1>2, <1>3, RowTyped
<1>5. e \in Seq([model : Models, ok : BOOLEAN]) /\ q.called = MeteredModels(e)
  BY <1>1, CallMetered
<1> HIDE DEF e
<1>6. OwnAnswer(r) = Answer(Current(q), q.chain[1]) /\ OwnAnswer(r) \in Answers
  <2>1. q.chain \in Chains \ {<<>>}
    BY <1>2 DEF RequestInv, ChainInv, Active
  <2>2. Head(q.chain) = q.chain[1] /\ q.chain[1] \in Models
    BY <2>1, ChainFacts
  <2>3. QED
    BY <1>2, <2>2 DEF OwnAnswer, Answer, Answers
<1>7. /\ p \in Request /\ p.pc \in {"store", "done"} /\ p.chain = q.chain
      /\ p.next = q.next /\ p.limitedAll = q.limitedAll /\ p.attempts = q.attempts
      /\ p.audit = q.audit \o Row(ChatRow, Model(r)) /\ p.called = q.called
      /\ p.metered = e /\ p.result = OwnAnswer(r)
  BY <1>2, <1>4, <1>5, <1>6 DEF Request
<1> HIDE DEF p
<1>8. AddsRow(q, p, ChatRow, Model(r)) /\ p \in Request /\ q \in Request
  BY <1>2, <1>7 DEF AddsRow
<1>9. LimitRow # ChatRow
  BY RowNames
<1>10. /\ RowsOf(p, ChatRow) = RowsOf(q, ChatRow) \union {Model(r)}
       /\ RowsOf(p, LimitRow) = RowsOf(q, LimitRow)
       /\ \A a : RowsOf(q, a) \subseteq RowsOf(p, a)
  BY <1>3, <1>8, <1>9, RowAdded
<1>11. RequestInv(p)
  BY <1>2, <1>5, <1>6, <1>7, <1>10, IsServed
<1>12. QED
  BY <1>1, <1>7, <1>11, BecomesOnly DEF Moves

\* The answer is cached, or there is none.
LEMMA LateMoves ==
  ASSUME IInv, NEW r \in Requests, Stored(r) \/ LoopEnds(r)
  PROVE  Moves(r)
<1> DEFINE q == req[r]
<1>1. TypeOK /\ q \in Request /\ RequestInv(q)
  BY DEF IInv, TypeOK
<1>2. CASE Stored(r)
  <2> DEFINE p == [q EXCEPT !.pc = "done"]
  <2>1. q.pc = "store" /\ Becomes(r, p)
    BY <1>2 DEF Stored, At
  <2>2. p \in Request
    BY <1>1 DEF Request
  <2>3. RequestInv(p)
    BY <1>1, <2>1, <2>2, IsStored
  <2>4. QED
    BY <1>1, <2>1, <2>2, <2>3, BecomesOnly DEF Moves
<1>3. CASE LoopEnds(r)
  <2> DEFINE answer == Failure(IF q.limitedAll THEN "429" ELSE "502")
             p == [q EXCEPT !.pc = "done", !.result = answer, !.audit = @ \o <<>>]
  <2>1. /\ q.pc = "loop" /\ Becomes(r, p)
        /\ ~(q.attempts < MaxAttempts /\ q.next <= Len(q.chain))
    BY <1>3 DEF LoopEnds, At, Ends, InLoop
  <2>2. answer \in [kind : {"none", "400", "404", "429", "502"}]
    BY DEF Failure
  <2>3. q.audit \o <<>> = q.audit
    BY <1>1 DEF Request
  <2> HIDE DEF answer
  <2>4. /\ p \in Request /\ p.pc = "done" /\ p.chain = q.chain /\ p.next = q.next
        /\ p.attempts = q.attempts /\ p.audit = q.audit /\ p.called = q.called
        /\ p.metered = q.metered /\ p.result = answer
    BY <1>1, <2>2, <2>3 DEF Request
  <2> HIDE DEF p
  <2>5. q.attempts >= MaxAttempts \/ q.next > Len(q.chain)
    <3>1. q.attempts \in Nat /\ q.next \in Nat /\ MaxAttempts \in Nat
      BY <1>1, PipelineAssumption DEF Request
    <3>2. Len(q.chain) \in Nat
      BY <1>1, <2>1, ChainFacts DEF RequestInv, ChainInv, Active
    <3>3. QED
      BY <2>1, <3>1, <3>2
  <2>6. RequestInv(p)
    BY <1>1, <2>1, <2>4, <2>5, IsGivenUp DEF answer
  <2>7. QED
    BY <1>1, <2>1, <2>4, <2>6, BecomesOnly DEF Moves
<1>4. QED
  BY <1>2, <1>3

\* Every step of a request moves that request alone, which had not ended.
LEMMA StepMoves ==
  ASSUME IInv, NEW r \in Requests, Step(r)
  PROVE  Moves(r) /\ ~At(r, "done") /\ now' = now
<1>1. Moves(r)
  BY EarlyMoves, RefusedMoves, CalledMoves, FailedMoves, SucceededMoves, LateMoves DEF Step
<1>2. ~At(r, "done")
  BY DEF Step, Rejected, CacheHit, NotRouted, Routed, Limited, BreakerRefused, NoProvider,
         Called, Failed, Succeeded, Stored, LoopEnds, InLoop, At
<1>3. now' = now
  BY DEF Step, Rejected, CacheHit, NotRouted, Routed, Limited, BreakerRefused, NoProvider,
         Called, Failed, Succeeded, Stored, LoopEnds
<1>4. QED
  BY <1>1, <1>2, <1>3

----------------------------------------------------------------------------
(* Entries and cache *)

\* A step that asks the breaker for a model without a provider finds it closed.
LEMMA EntriesStay ==
  ASSUME IInv, NEW r \in Requests, Step(r), ~Called(r), ~Failed(r), ~Succeeded(r)
  PROVE  breakers' = breakers /\ ~At(r, "calling")
<1>1. CASE NoProvider(r)
  <2>1. Model(r) \in Models \ Registered
    BY <1>1, LoopFacts DEF NoProvider
  <2>2. breakers[Model(r)].state = Closed
    BY <2>1 DEF IInv, EntriesInv
  <2>3. AfterAllow(breakers[Model(r)]) = breakers[Model(r)]
    BY <2>2 DEF AfterAllow, Closed, Opened, HalfOpen
  <2>4. breakers \in [Models -> Entry]
    BY DEF IInv, TypeOK
  <2>5. breakers' = breakers
    BY <1>1, <2>3, <2>4 DEF NoProvider
  <2>6. QED
    BY <1>1, <2>5 DEF NoProvider, InLoop, At
<1>2. CASE ~NoProvider(r)
  BY <1>2 DEF Step, Rejected, CacheHit, NotRouted, Routed, Limited, BreakerRefused,
              Stored, LoopEnds, InLoop, At
<1>3. QED
  BY <1>1, <1>2

\* What an admitted call does to the entry.
LEMMA AfterAllowFields ==
  ASSUME NEW e \in Entry, e.probes <= 1, NEW t \in Nat, Admits(e, t)
  PROVE  /\ AfterAllow(e) \in Entry
         /\ AfterAllow(e).probes <= 1
         /\ e.state = Closed => AfterAllow(e) = e
         /\ e.state # Closed => AfterAllow(e).state = HalfOpen
         /\ e.state = Opened => AfterAllow(e).probes = 0
         /\ e.state = HalfOpen => e.probes = 0 /\ AfterAllow(e).probes = 1
<1>0. Closed # Opened /\ Closed # HalfOpen /\ Opened # HalfOpen
  BY DEF Closed, Opened, HalfOpen
<1>1. CASE e.state = Closed
  BY <1>0, <1>1 DEF AfterAllow
<1>2. CASE e.state = Opened
  <2>1. AfterAllow(e) = [e EXCEPT !.state = HalfOpen, !.probes = 0]
    BY <1>0, <1>2 DEF AfterAllow, HalfOpened
  <2>2. [e EXCEPT !.state = HalfOpen, !.probes = 0] \in Entry
    BY DEF Entry
  <2>3. AfterAllow(e).state = HalfOpen /\ AfterAllow(e).probes = 0
    BY <2>1 DEF Entry
  <2>4. QED
    BY <1>0, <1>2, <2>1, <2>2, <2>3
<1>3. CASE e.state = HalfOpen
  <2>1. AfterAllow(e) = [e EXCEPT !.probes = @ + 1] /\ e.probes = 0
    BY <1>0, <1>3 DEF AfterAllow, Admits, Entry
  <2>2. QED
    BY <1>0, <1>3, <2>1 DEF Entry
<1>4. QED
  BY <1>1, <1>2, <1>3 DEF Entry

\* No outcome leaves an entry half open, or moves one that is open.
LEMMA RecordDecides ==
  ASSUME NEW e \in Entry, e.probes <= 1, NEW success \in BOOLEAN, NEW t \in Nat
  PROVE  LET f == AfterRecord(e, success, t)
         IN  /\ f \in Entry /\ f.probes <= 1 /\ f.state # HalfOpen
             /\ e.state = Opened => f = e
<1> DEFINE f == AfterRecord(e, success, t)
           c == Counted(e, success)
<1>0. Closed # Opened /\ Closed # HalfOpen /\ Opened # HalfOpen
  BY DEF Closed, Opened, HalfOpen
<1>1. \A d \in Entry : /\ Open(d, t) \in Entry /\ Open(d, t).state = Opened
                       /\ Open(d, t).probes = d.probes
                       /\ Reset(d) \in Entry /\ Reset(d).state = Closed
                       /\ Reset(d).probes = 0
  BY DEF Open, Reset, Entry, Closed, Opened, HalfOpen
<1>2. c \in Entry /\ c.state = e.state /\ c.probes = e.probes
  <2>1. ASSUME NEW n \in Nat, NEW s \in Nat, NEW b \in Nat
        PROVE  [e EXCEPT !.total = n, !.successes = s, !.failures = b] \in Entry
    BY DEF Entry
  <2> DEFINE good == IF success THEN e.successes + 1 ELSE e.successes
             bad  == IF success THEN e.failures ELSE e.failures + 1
  <2>2. e.total + 1 \in Nat /\ good \in Nat /\ bad \in Nat
    BY DEF Entry
  <2>3. c = [e EXCEPT !.total = @ + 1, !.successes = good, !.failures = bad]
    BY DEF Counted
  <2> HIDE DEF c, good, bad
  <2>4. c.state = e.state /\ c.probes = e.probes
    BY <2>3 DEF Entry
  <2>5. QED
    BY <2>1, <2>2, <2>3, <2>4
<1>3. CASE e.state = HalfOpen
  BY <1>0, <1>1, <1>3 DEF AfterRecord, Decided
<1>4. CASE e.state = Opened
  BY <1>0, <1>4 DEF AfterRecord
<1>5. CASE e.state = Closed
  <2>1. f = IF OverThreshold(c.failures, c.total) THEN Open(c, t) ELSE c
    BY <1>0, <1>5 DEF AfterRecord, Evaluated
  <2> HIDE DEF f, c
  <2>2. QED
    BY <1>0, <1>1, <1>2, <1>5, <2>1 DEF f
<1>6. QED
  BY <1>3, <1>4, <1>5 DEF Entry

\* The other steps change the entry of the request's model, which has a provider.
LEMMA EntryMoves ==
  ASSUME IInv, NEW r \in Requests, Called(r) \/ Failed(r) \/ Succeeded(r)
  PROVE  LET m == Model(r)
         IN  /\ m \in Models /\ m \in Registered
             /\ breakers' \in [Models -> Entry]
             /\ \A o \in Models \ {m} : breakers'[o] = breakers[o]
             /\ breakers'[m].probes <= 1
             /\ Called(r) => breakers'[m] = AfterAllow(breakers[m]) /\ Admits(breakers[m], now)
             /\ ~Called(r) => /\ breakers'[m].state # HalfOpen
                              /\ breakers[m].state = Opened => breakers'[m] = breakers[m]
<1> DEFINE m == Model(r)
<1>0. Closed # Opened /\ Closed # HalfOpen /\ Opened # HalfOpen
  BY DEF Closed, Opened, HalfOpen
<1>1. /\ breakers \in [Models -> Entry] /\ now \in Nat
      /\ \A o \in Models : breakers[o].probes <= 1
  BY DEF IInv, TypeOK, EntriesInv
<1>2. m \in Models /\ breakers[m] \in Entry /\ breakers[m].probes <= 1
  BY <1>1, LoopFacts DEF Called, Failed, Succeeded
<1>3. CASE Called(r)
  <2>1. /\ breakers' = [breakers EXCEPT ![m] = AfterAllow(@)]
        /\ Admits(breakers[m], now) /\ m \in Registered
    BY <1>3 DEF Called
  <2>2. AfterAllow(breakers[m]) \in Entry /\ AfterAllow(breakers[m]).probes <= 1
    BY <1>1, <1>2, <2>1, AfterAllowFields
  <2>3. QED
    BY <1>1, <1>2, <1>3, <2>1, <2>2
<1>4. ASSUME NEW success \in BOOLEAN, At(r, "calling"),
             breakers' = [breakers EXCEPT ![m] = AfterRecord(@, success, now)]
      PROVE  /\ m \in Registered /\ breakers' \in [Models -> Entry]
             /\ \A o \in Models \ {m} : breakers'[o] = breakers[o]
             /\ breakers'[m].probes <= 1 /\ breakers'[m].state # HalfOpen
             /\ breakers[m].state = Opened => breakers'[m] = breakers[m]
  <2> DEFINE f == AfterRecord(breakers[m], success, now)
  <2>1. f \in Entry /\ f.probes <= 1 /\ f.state # HalfOpen
        /\ (breakers[m].state = Opened => f = breakers[m])
    BY <1>1, <1>2, RecordDecides
  <2>2. m \in Registered
    BY <1>4, LoopFacts DEF RequestInv, ChainInv, At
  <2> HIDE DEF f
  <2>3. breakers' = [breakers EXCEPT ![m] = f]
    BY <1>4 DEF f
  <2>4. QED
    BY <1>1, <1>2, <2>1, <2>2, <2>3
<1>5. CASE Failed(r)
  <2>1. ~Called(r)
    BY <1>5 DEF Called, Failed, InLoop, At
  <2>2. QED
    BY <1>2, <1>4, <1>5, <2>1 DEF Failed
<1>6. CASE Succeeded(r)
  <2>1. ~Called(r)
    BY <1>6 DEF Called, Succeeded, InLoop, At
  <2>2. QED
    BY <1>2, <1>4, <1>6, <2>1 DEF Succeeded
<1>7. QED
  BY <1>3, <1>5, <1>6

\* The cache changes where an answer is stored.
LEMMA CacheMoves ==
  ASSUME IInv, NEW r \in Requests, Step(r)
  PROVE  \/ cache' = cache
         \/ /\ Stored(r) /\ req[r].result \in Answers
            /\ req[r].result.model \in RowsOf(req[r], ChatRow)
            /\ req'[r].pc = "done" /\ req'[r].result = req[r].result
            /\ req'[r].audit = req[r].audit
            /\ DOMAIN cache' = DOMAIN cache \union {CacheKey[r]}
            /\ cache'[CacheKey[r]] = req[r].result
            /\ \A k \in DOMAIN cache \ {CacheKey[r]} : cache'[k] = cache[k]
<1>1. CASE Stored(r)
  <2> DEFINE q == req[r]
             p == [q EXCEPT !.pc = "done"]
  <2>1. q \in Request /\ RequestInv(q) /\ TypeOK /\ q.pc = "store" /\ Becomes(r, p)
    BY <1>1 DEF IInv, TypeOK, Stored, At
  <2>2. /\ q.chain \in Chains \ {<<>>} /\ q.next <= Len(q.chain)
        /\ RowsOf(q, ChatRow) = {Current(q)} /\ q.result = Answer(Current(q), q.chain[1])
    BY <2>1 DEF RequestInv, ChainInv, ServeInv, Active
  <2>3. Current(q) \in Models /\ q.chain[1] \in Models
    BY <2>1, <2>2, CurrentIsNew, ChainFacts
  <2>4. q.result \in Answers /\ q.result.model \in RowsOf(q, ChatRow)
    BY <2>2, <2>3 DEF Answer, Answers
  <2>5. p \in Request /\ p.pc = "done" /\ p.result = q.result /\ p.audit = q.audit
    BY <2>1 DEF Request
  <2>6. req'[r] = p
    BY <2>1, <2>5, BecomesOnly
  <2>7. /\ DOMAIN cache' = DOMAIN cache \union {CacheKey[r]}
        /\ cache'[CacheKey[r]] = q.result
        /\ \A k \in DOMAIN cache \ {CacheKey[r]} : cache'[k] = cache[k]
    BY <1>1 DEF Stored
  <2>8. QED
    BY <1>1, <2>4, <2>5, <2>6, <2>7
<1>2. CASE ~Stored(r)
  BY <1>2 DEF Step, Rejected, CacheHit, NotRouted, Routed, Limited, BreakerRefused,
              NoProvider, Called, Failed, Succeeded, LoopEnds
<1>3. QED
  BY <1>1, <1>2

\* Types are kept.
LEMMA TypesKept ==
  ASSUME IInv, NEW r \in Requests, Step(r)
  PROVE  TypeOK'
<1>1. TypeOK /\ req' \in [Requests -> Request] /\ now' \in 0..MaxTime
  BY StepMoves DEF IInv, TypeOK, Moves
<1>2. breakers' \in [Models -> Entry]
  <2>1. CASE Called(r) \/ Failed(r) \/ Succeeded(r)
    BY <2>1, EntryMoves
  <2>2. CASE ~(Called(r) \/ Failed(r) \/ Succeeded(r))
    BY <1>1, <2>2, EntriesStay DEF TypeOK
  <2>3. QED
    BY <2>1, <2>2
<1>3. /\ DOMAIN cache' \subseteq {CacheKey[s] : s \in Requests}
      /\ \A k \in DOMAIN cache' : cache'[k] \in Answers
  <2>1. /\ DOMAIN cache \subseteq {CacheKey[s] : s \in Requests}
        /\ \A k \in DOMAIN cache : cache[k] \in Answers
    BY <1>1 DEF TypeOK
  <2>2. CASE cache' = cache
    BY <2>1, <2>2
  <2>3. CASE cache' # cache
    <3>1. /\ req[r].result \in Answers
          /\ DOMAIN cache' = DOMAIN cache \union {CacheKey[r]}
          /\ cache'[CacheKey[r]] = req[r].result
          /\ \A k \in DOMAIN cache \ {CacheKey[r]} : cache'[k] = cache[k]
      BY <2>3, CacheMoves
    <3>2. DOMAIN cache' \subseteq {CacheKey[s] : s \in Requests}
      BY <2>1, <3>1
    <3>3. ASSUME NEW k \in DOMAIN cache' PROVE cache'[k] \in Answers
      BY <2>1, <3>1
    <3>4. QED
      BY <3>2, <3>3
  <2>4. QED
    BY <2>2, <2>3
<1>4. QED
  BY <1>1, <1>2, <1>3 DEF TypeOK

\* Entries without a provider stay closed, and none counts a second probe.
LEMMA EntriesKept ==
  ASSUME IInv, NEW r \in Requests, Step(r)
  PROVE  EntriesInv'
<1>1. EntriesInv
  BY DEF IInv
<1>2. CASE Called(r) \/ Failed(r) \/ Succeeded(r)
  BY <1>1, <1>2, EntryMoves DEF EntriesInv
<1>3. CASE ~(Called(r) \/ Failed(r) \/ Succeeded(r))
  BY <1>1, <1>3, EntriesStay DEF EntriesInv
<1>4. QED
  BY <1>2, <1>3

\* A half-open entry keeps a call: the step's own, or that of another request.
LEMMA CallKept ==
  ASSUME IInv, NEW r \in Requests, Step(r)
  PROVE  HalfOpenHasCall'
<1>1. HalfOpenHasCall /\ Moves(r)
  BY StepMoves DEF IInv
<1>2. ASSUME NEW s \in Requests \ {r}, At(s, "calling")
      PROVE  At(s, "calling")' /\ Model(s)' = Model(s)
  <2>1. req'[s] = req[s]
    BY <1>1, <1>2 DEF Moves
  <2>2. QED
    BY <1>2, <2>1 DEF At, Model
<1>3. SUFFICES ASSUME NEW m \in Models, breakers'[m].state = HalfOpen
               PROVE  \E s \in Requests : At(s, "calling")' /\ Model(s)' = m
  BY DEF HalfOpenHasCall
<1>4. CASE Called(r) /\ m = Model(r)
  <2>1. At(r, "calling")' /\ Model(r)' = Model(r)
    BY <1>4, CalledMoves
  <2>2. QED
    BY <1>4, <2>1
<1>5. CASE Called(r) /\ m # Model(r)
  <2>1. breakers'[m] = breakers[m] /\ ~At(r, "calling")
    BY <1>5, EntryMoves DEF Called, InLoop, At
  <2>2. PICK s \in Requests : At(s, "calling") /\ Model(s) = m
    BY <1>1, <1>3, <2>1 DEF HalfOpenHasCall
  <2>3. QED
    BY <1>2, <2>1, <2>2
<1>6. CASE Failed(r) \/ Succeeded(r)
  <2>0. ~Called(r)
    BY <1>6 DEF Called, Failed, Succeeded, InLoop, At
  <2>1. m # Model(r)
    BY <1>3, <1>6, <2>0, EntryMoves
  <2>2. breakers'[m] = breakers[m]
    BY <1>6, <2>1, EntryMoves
  <2>3. PICK s \in Requests : At(s, "calling") /\ Model(s) = m
    BY <1>1, <1>3, <2>2 DEF HalfOpenHasCall
  <2>4. s # r
    BY <2>1, <2>3
  <2>5. QED
    BY <1>2, <2>3, <2>4
<1>7. CASE ~(Called(r) \/ Failed(r) \/ Succeeded(r))
  <2>1. breakers' = breakers /\ ~At(r, "calling")
    BY <1>7, EntriesStay
  <2>2. PICK s \in Requests : At(s, "calling") /\ Model(s) = m
    BY <1>1, <1>3, <2>1 DEF HalfOpenHasCall
  <2>3. QED
    BY <1>2, <2>1, <2>2
<1>8. QED
  BY <1>4, <1>5, <1>6, <1>7

\* A cached answer keeps the request it was given to.
LEMMA CacheKept ==
  ASSUME IInv, NEW r \in Requests, Step(r)
  PROVE  CachedAnswersAreReal'
<1>1. CachedAnswersAreReal /\ Moves(r) /\ ~At(r, "done")
  BY StepMoves DEF IInv
<1>2. ASSUME NEW k \in DOMAIN cache, cache'[k] = cache[k]
      PROVE  \E s \in Requests :
               /\ CacheKey[s] = k /\ At(s, "done")' /\ req'[s].result = cache'[k]
               /\ cache'[k].model \in RowsOf(req'[s], ChatRow)
  <2>1. PICK s \in Requests :
          /\ CacheKey[s] = k /\ At(s, "done") /\ req[s].result = cache[k]
          /\ cache[k].model \in RowsOf(req[s], ChatRow)
    BY <1>1 DEF CachedAnswersAreReal
  <2>2. req'[s] = req[s]
    BY <1>1, <2>1 DEF Moves
  <2>3. QED
    BY <1>2, <2>1, <2>2 DEF At
<1>3. CASE cache' = cache
  BY <1>2, <1>3 DEF CachedAnswersAreReal
<1>4. CASE cache' # cache
  <2>1. /\ req[r].result.model \in RowsOf(req[r], ChatRow)
        /\ req'[r].pc = "done" /\ req'[r].result = req[r].result
        /\ req'[r].audit = req[r].audit
        /\ DOMAIN cache' = DOMAIN cache \union {CacheKey[r]}
        /\ cache'[CacheKey[r]] = req[r].result
        /\ \A k \in DOMAIN cache \ {CacheKey[r]} : cache'[k] = cache[k]
    BY <1>4, CacheMoves
  <2>2. RowsOf(req'[r], ChatRow) = RowsOf(req[r], ChatRow)
    BY <2>1 DEF RowsOf
  <2>3. /\ At(r, "done")' /\ req'[r].result = cache'[CacheKey[r]]
        /\ cache'[CacheKey[r]].model \in RowsOf(req'[r], ChatRow)
    BY <2>1, <2>2 DEF At
  <2>4. ASSUME NEW k \in DOMAIN cache'
        PROVE  \E s \in Requests :
                 /\ CacheKey[s] = k /\ At(s, "done")' /\ req'[s].result = cache'[k]
                 /\ cache'[k].model \in RowsOf(req'[s], ChatRow)
    <3>1. CASE k = CacheKey[r]
      BY <2>3, <3>1
    <3>2. CASE k # CacheKey[r]
      BY <1>2, <2>1, <3>2
    <3>3. QED
      BY <3>1, <3>2
  <2>5. QED
    BY <2>4 DEF CachedAnswersAreReal
<1>5. QED
  BY <1>3, <1>4

----------------------------------------------------------------------------
(* The invariant *)

\* Nothing has been asked.
LEMMA InitIInv == Init => IInv
<1> SUFFICES ASSUME Init PROVE IInv
  OBVIOUS
<1> DEFINE q == NewRequest
<1>1. q \in Request
  BY DEF NewRequest, Request, Failure
<1>2. /\ q.pc = "new" /\ q.chain = <<>> /\ q.next = 1 /\ q.attempts = 0 /\ q.audit = <<>>
      /\ q.called = <<>> /\ q.metered = <<>>
  BY DEF NewRequest
<1>3. RequestInv(q)
  <2>1. ChainInv(q) /\ LimitInv(q) /\ ServeInv(q) /\ DoneInv(q)
    BY <1>2 DEF ChainInv, LimitInv, ServeInv, DoneInv, Active
  <2>2. /\ Len(q.called) = 0 /\ 0 <= MaxAttempts /\ IsInjective(q.called)
        /\ [i \in DOMAIN q.metered |-> q.metered[i].model] \o <<>> = <<>>
    BY <1>2, PipelineAssumption DEF IsInjective
  <2>3. CallInv(q)
    BY <1>2, <2>2 DEF CallInv
  <2>4. QED
    BY <2>1, <2>3 DEF RequestInv
<1>4. NewEntry \in Entry /\ NewEntry.state = Closed /\ NewEntry.probes <= 1
  BY DEF NewEntry, Entry
<1>5. DOMAIN cache = {}
  BY DEF Init
<1>6. TypeOK
  BY <1>1, <1>4, <1>5, PipelineAssumption DEF Init, TypeOK
<1>7. \A r \in Requests : RequestInv(req[r])
  BY <1>3 DEF Init
<1>8. EntriesInv
  BY <1>4, PipelineAssumption DEF Init, EntriesInv
<1>9. HalfOpenHasCall
  BY <1>4 DEF Init, HalfOpenHasCall, Closed, HalfOpen
<1>10. CachedAnswersAreReal
  BY <1>5 DEF CachedAnswersAreReal
<1>11. QED
  BY <1>6, <1>7, <1>8, <1>9, <1>10 DEF IInv

\* Every step keeps the invariant.
LEMMA NextIInv == IInv /\ [Next]_vars => IInv'
<1> SUFFICES ASSUME IInv, [Next]_vars PROVE IInv'
  OBVIOUS
<1>1. ASSUME NEW r \in Requests, Step(r) PROVE IInv'
  <2>1. ASSUME NEW s \in Requests PROVE RequestInv(req'[s])
    <3>1. CASE s = r
      BY <1>1, <3>1, StepMoves DEF Moves
    <3>2. CASE s # r
      <4>1. req'[s] = req[s]
        BY <1>1, <3>2, StepMoves DEF Moves
      <4>2. QED
        BY <4>1 DEF IInv
    <3>3. QED
      BY <3>1, <3>2
  <2>2. QED
    BY <1>1, <2>1, TypesKept, EntriesKept, CallKept, CacheKept DEF IInv
<1>2. CASE UNCHANGED <<req, breakers, cache>> /\ now' \in 0..MaxTime
  <2>1. TypeOK'
    BY <1>2 DEF IInv, TypeOK
  <2>2. EntriesInv' /\ HalfOpenHasCall' /\ CachedAnswersAreReal'
    BY <1>2 DEF IInv, EntriesInv, HalfOpenHasCall, CachedAnswersAreReal, At, Model
  <2>3. QED
    BY <1>2, <2>1, <2>2 DEF IInv
<1>3. CASE Tick
  BY <1>2, <1>3, PipelineAssumption DEF Tick, IInv, TypeOK
<1>4. CASE UNCHANGED vars
  BY <1>2, <1>4 DEF vars, IInv, TypeOK
<1>5. QED
  BY <1>1, <1>3, <1>4 DEF Next

\* The inductive invariant holds in every reachable state.
THEOREM Invariance == Spec => []IInv
BY InitIInv, NextIInv, PTL DEF Spec

----------------------------------------------------------------------------
(* The properties *)

\* Every variable keeps its type.
THEOREM TypeCorrect == Spec => []TypeOK
BY Invariance, PTL DEF IInv

\* No path through the loop takes a half-open entry's permission and leaves nobody
\* to report back, however requests overlap.
THEOREM HalfOpenIsNeverOrphaned == Spec => []HalfOpenHasCall
BY Invariance, PTL DEF IInv

\* 429 is answered exactly to a request whose whole chain the limiter refused.
THEOREM LimitsAreToldHonestly == Spec => []TooManyRequestsIsHonest
<1>1. IInv => TooManyRequestsIsHonest
  BY DEF IInv, TooManyRequestsIsHonest, At, RequestInv, DoneInv, LimitTold
<1>2. QED
  BY <1>1, Invariance, PTL

\* No request calls more providers than it may, or one of them twice.
THEOREM CallsStayBounded == Spec => []CallsAreBounded
<1>1. IInv => CallsAreBounded
  BY DEF IInv, CallsAreBounded, RequestInv, CallInv
<1>2. QED
  BY <1>1, Invariance, PTL

\* Each call that has returned has its event, in the order of the calls.
THEOREM EveryCallIsMetered == Spec => []CallsAreMetered
<1>1. IInv => CallsAreMetered
  BY DEF IInv, CallsAreMetered, At, Model, RequestInv, CallInv, Current
<1>2. QED
  BY <1>1, Invariance, PTL

\* The answer is that of the first model of the chain that was not passed over.
THEOREM FirstModelAnswers == Spec => []AnswerIsFirstToServe
<1>1. IInv => AnswerIsFirstToServe
  BY DEF IInv, AnswerIsFirstToServe, At, RequestInv, DoneInv, FirstServes
<1>2. QED
  BY <1>1, Invariance, PTL

\* 429 and 502 come after the last call or the last model, never before.
THEOREM NobodyGivesUpEarly == Spec => []GivesUpLast
<1>1. IInv => GivesUpLast
  BY DEF IInv, GivesUpLast, At, RequestInv, DoneInv, GaveUpLast
<1>2. QED
  BY <1>1, Invariance, PTL

\* Only answers of providers to requests of the same key are cached.
THEOREM CacheIsTrue == Spec => []CachedAnswersAreReal
BY Invariance, PTL DEF IInv

\* The entry of the watched model, under any number of requests, takes only steps of
\* the breaker's contract.
THEOREM PipelineKeepsContract == Spec => Contract!Init /\ [][Contract!Next]_(Contract!vars)
<1>0. Closed # Opened /\ Closed # HalfOpen /\ Opened # HalfOpen
  BY DEF Closed, Opened, HalfOpen
<1> USE DEF Contract!vars, Contract!Next, Contract!Trip, Contract!FirstTrial,
            Contract!NextTrial, Contract!Decide
<1> DEFINE e == breakers[Watched]
<1>w. Watched \in Models
  BY PipelineAssumption
<1>1. Init => Contract!Init
  BY <1>w DEF Init, NewEntry, Contract!Init, Closed, HalfOpen
<1>2. IInv /\ IInv' /\ [Next]_vars => [Contract!Next]_(Contract!vars)
  <2> SUFFICES ASSUME IInv, IInv', [Next]_vars
               PROVE  [Contract!Next]_(Contract!vars)
    OBVIOUS
  <2>t. /\ e \in Entry /\ e' \in Entry /\ e.probes <= 1 /\ e'.probes <= 1 /\ now \in Nat
        /\ e.state \in {Closed, Opened, HalfOpen} /\ e'.state \in {Closed, Opened, HalfOpen}
    BY <1>w DEF IInv, TypeOK, EntriesInv, Entry
  <2>1. CASE e' = e
    BY <2>1
  <2>2. ASSUME NEW r \in Requests, Step(r), e' # e
        PROVE  [Contract!Next]_(Contract!vars)
    <3>1. (Called(r) \/ Failed(r) \/ Succeeded(r)) /\ Model(r) = Watched
      BY <1>w, <2>2, EntriesStay, EntryMoves
    <3>2. CASE Called(r)
      <4>1. e' = AfterAllow(e) /\ Admits(e, now)
        BY <3>1, <3>2, EntryMoves
      <4>2. /\ e.state # Closed
            /\ e'.state = HalfOpen
            /\ e.state = Opened => e'.probes = 0
            /\ e.state = HalfOpen => e.probes = 0 /\ e'.probes = 1
        BY <2>t, <2>2, <4>1, AfterAllowFields
      <4>3. CASE e.state = Opened
        BY <1>0, <4>2, <4>3 DEF Opened, HalfOpen
      <4>4. CASE e.state = HalfOpen
        BY <1>0, <4>2, <4>4 DEF HalfOpen
      <4>5. QED
        BY <2>t, <4>2, <4>3, <4>4
    <3>3. CASE ~Called(r)
      <4>1. e'.state \in {Closed, Opened} /\ e.state # Opened
        BY <2>t, <2>2, <3>1, <3>3, EntryMoves
      <4>2. CASE e.state = HalfOpen
        BY <1>0, <4>1, <4>2 DEF Closed, Opened, HalfOpen
      <4>3. CASE e.state = Closed
        BY <1>0, <4>1, <4>3 DEF Closed, Opened, HalfOpen
      <4>4. QED
        BY <2>t, <4>1, <4>2, <4>3
    <3>4. QED
      BY <3>2, <3>3
  <2>3. QED
    BY <2>1, <2>2 DEF Next, Tick, vars
<1>3. QED
  BY <1>1, <1>2, Invariance, PTL DEF Spec
=============================================================================
