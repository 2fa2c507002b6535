----------------------------- MODULE ChatPipeline -----------------------------
(***************************************************************************)
(* application/chat: Complete, run by concurrent requests.                 *)
(*                                                                         *)
(* A request is inspected, looked up in the cache, routed to a chain of    *)
(* models and offered to them in turn: quota, breaker, provider.  Requests *)
(* share the cache, the breaker's entries, the audit trail and the meter.  *)
(* Each access to the cache or to the breaker is a step; what a request    *)
(* does with its own variables belongs to the step before or after.  The   *)
(* audit trail and the meter only grow and nothing here reads them, so a   *)
(* request's rows and events are kept with the request and added in the    *)
(* step of the access they stand beside.                                   *)
(*                                                                         *)
(* The verdicts of risk control, the router and the rate limiter are free  *)
(* choices here: what they depend on is modelled elsewhere or not at all,  *)
(* and no state of this module depends on when in its step they are given. *)
(* A quota that is not checked, because the catalog no longer finds the    *)
(* model's card, is a quota that is passed.                                *)
(***************************************************************************)
EXTENDS BreakerEntry, Sequences, SequencesExt, FiniteSets

CONSTANTS
  Requests,
  Models,
  Registered,   \* models whose provider adapter is in the registry
  Chains,       \* what the router may decide; <<>> stands for no viable model
  CacheKey,     \* the key of each request: tenant, capability and messages
  CacheEnabled,
  MaxAttempts,  \* provider calls one request may make
  MaxTime,      \* bound of the clock
  Watched       \* the model whose entry KeepsContract looks at

ASSUME PipelineAssumption ==
  /\ Registered \subseteq Models
  /\ \A c \in Chains : c \in Seq(Models) /\ IsInjective(c)   \* Resolve removes duplicates
  /\ Requests \subseteq DOMAIN CacheKey
  /\ CacheEnabled \in BOOLEAN
  /\ MaxAttempts \in Nat \ {0}
  /\ MaxTime \in Nat
  /\ Watched \in Models

VARIABLES
  req,          \* the local state of each request, its audit rows and its events
  breakers,     \* the breaker's entry of each model
  cache,        \* cached answers by key
  now           \* the clock

vars == <<req, breakers, cache, now>>

\* An answer and the model it was routed from, if another.
Answer(model, preferred) ==
  [kind |-> "ok", model |-> model,
   routedFrom |-> IF model = preferred THEN <<>> ELSE <<preferred>>]

Failure(status) == [kind |-> status]

NewRequest ==
  [pc |-> "new", chain |-> <<>>, next |-> 1, attempts |-> 0, limitedAll |-> TRUE,
   audit |-> <<>>, called |-> <<>>, metered |-> <<>>,
   result |-> Failure("none")]

Init ==
  /\ req = [r \in Requests |-> NewRequest]
  /\ breakers = [m \in Models |-> NewEntry]
  /\ cache = <<>>              \* nothing cached
  /\ now = 0

At(r, pc) == req[r].pc = pc

\* The actions that audit rows name.
RiskRow     == "risk"
CacheRow    == "cache"
RouteRow    == "route"
LimitRow    == "ratelimit"
BreakerRow  == "breaker"
UpstreamRow == "upstream"
ChatRow     == "chat"

Actions == {RiskRow, CacheRow, RouteRow, LimitRow, BreakerRow, UpstreamRow, ChatRow}

\* The model a request names before it is routed is not told apart.
NoModel == "none"

Row(action, model) == <<[action |-> action, model |-> model]>>

Becomes(r, q) == req' = [req EXCEPT ![r] = q]

Ends(r, answer, rows) ==
  Becomes(r, [req[r] EXCEPT !.pc = "done", !.result = answer, !.audit = @ \o rows])

\* The request when the loop goes on with the next model of the chain.
Continued(r, rows) ==
  [req[r] EXCEPT !.pc = "loop", !.next = @ + 1, !.audit = @ \o rows]

Model(r) == req[r].chain[req[r].next]

InLoop(r) ==
  At(r, "loop") /\ req[r].attempts < MaxAttempts /\ req[r].next <= Len(req[r].chain)

----------------------------------------------------------------------------
(* Before the loop *)

\* The request carries an injection attempt: 400.
Rejected(r) ==
  /\ At(r, "new")
  /\ Ends(r, Failure("400"), Row(RiskRow, NoModel))
  /\ UNCHANGED <<breakers, cache, now>>

Cached(r) == CacheEnabled /\ CacheKey[r] \in DOMAIN cache

CacheHit(r) ==
  /\ At(r, "new")
  /\ Cached(r)
  /\ LET answer == cache[CacheKey[r]] IN Ends(r, answer, Row(CacheRow, answer.model))
  /\ UNCHANGED <<breakers, cache, now>>

\* No viable model: 404.
NotRouted(r) ==
  /\ At(r, "new")
  /\ ~Cached(r)
  /\ <<>> \in Chains
  /\ Ends(r, Failure("404"), Row(RouteRow, NoModel))
  /\ UNCHANGED <<breakers, cache, now>>

Routed(r) ==
  /\ At(r, "new")
  /\ ~Cached(r)
  /\ \E c \in Chains \ {<<>>} : Becomes(r, [req[r] EXCEPT !.pc = "loop", !.chain = c])
  /\ UNCHANGED <<breakers, cache, now>>

----------------------------------------------------------------------------
(* The loop *)

\* Operators named Faulty... are plausible slips in the definition after them,
\* kept to show which property notices each slip.  Nothing else uses them.
FaultyLimitedEndsTheLoop(r) ==
  /\ InLoop(r)
  /\ Ends(r, Failure("429"), Row(LimitRow, Model(r)))
  /\ UNCHANGED <<breakers, cache, now>>

\* The limiter refuses the model.
Limited(r) ==
  /\ InLoop(r)
  /\ Becomes(r, Continued(r, Row(LimitRow, Model(r))))
  /\ UNCHANGED <<breakers, cache, now>>

FaultyBreakerRefusedIsLimited(r) ==
  /\ InLoop(r)
  /\ ~Admits(breakers[Model(r)], now)
  /\ Becomes(r, Continued(r, Row(BreakerRow, Model(r))))
  /\ UNCHANGED <<breakers, cache, now>>

\* The limiter passes the model and the breaker refuses it.
BreakerRefused(r) ==
  /\ InLoop(r)
  /\ ~Admits(breakers[Model(r)], now)
  /\ Becomes(r, [Continued(r, Row(BreakerRow, Model(r)))
                   EXCEPT !.limitedAll = FALSE])
  /\ UNCHANGED <<breakers, cache, now>>

\* Limiter and breaker pass the model, but the registry holds no adapter for it.
NoProvider(r) ==
  /\ InLoop(r)
  /\ Admits(breakers[Model(r)], now)
  /\ Model(r) \notin Registered
  /\ breakers' = [breakers EXCEPT ![Model(r)] = AfterAllow(@)]
  /\ Becomes(r, [Continued(r, <<>>) EXCEPT !.limitedAll = FALSE])
  /\ UNCHANGED <<cache, now>>

\* The provider is called; the request waits for it outside every lock.
Called(r) ==
  /\ InLoop(r)
  /\ Admits(breakers[Model(r)], now)
  /\ Model(r) \in Registered
  /\ breakers' = [breakers EXCEPT ![Model(r)] = AfterAllow(@)]
  /\ Becomes(r, [req[r] EXCEPT !.pc = "calling", !.limitedAll = FALSE,
                                !.attempts = @ + 1, !.called = Append(@, Model(r))])
  /\ UNCHANGED <<cache, now>>

Metered(r, ok) == [model |-> Model(r), ok |-> ok]

FaultyFailedSkipsRecord(r) ==
  /\ At(r, "calling")
  /\ \E cancelled \in BOOLEAN :
       breakers' = IF cancelled THEN breakers
                   ELSE [breakers EXCEPT ![Model(r)] = AfterRecord(@, FALSE, now)]
  /\ Becomes(r, [Continued(r, Row(UpstreamRow, Model(r)))
                   EXCEPT !.metered = Append(@, Metered(r, FALSE))])
  /\ UNCHANGED <<cache, now>>

FaultyFailedSkipsMeter(r) ==
  /\ At(r, "calling")
  /\ breakers' = [breakers EXCEPT ![Model(r)] = AfterRecord(@, FALSE, now)]
  /\ Becomes(r, Continued(r, Row(UpstreamRow, Model(r))))
  /\ UNCHANGED <<cache, now>>

FaultyFailedTriesAgain(r) ==
  /\ At(r, "calling")
  /\ breakers' = [breakers EXCEPT ![Model(r)] = AfterRecord(@, FALSE, now)]
  /\ Becomes(r, [req[r] EXCEPT !.pc = "loop", !.metered = Append(@, Metered(r, FALSE)),
                                !.audit = @ \o Row(UpstreamRow, Model(r))])
  /\ UNCHANGED <<cache, now>>

\* The call fails, by the provider's own fault or because the client has gone
\* and the request's context is cancelled: Record, meter and audit take both alike.
Failed(r) ==
  /\ At(r, "calling")
  /\ breakers' = [breakers EXCEPT ![Model(r)] = AfterRecord(@, FALSE, now)]
  /\ Becomes(r, [Continued(r, Row(UpstreamRow, Model(r)))
                   EXCEPT !.metered = Append(@, Metered(r, FALSE))])
  /\ UNCHANGED <<cache, now>>

FaultyAnswerIsThePreferred(r) == Answer(req[r].chain[1], req[r].chain[1])

OwnAnswer(r) == Answer(Model(r), Head(req[r].chain))

\* The call succeeds.
Succeeded(r) ==
  /\ At(r, "calling")
  /\ breakers' = [breakers EXCEPT ![Model(r)] = AfterRecord(@, TRUE, now)]
  /\ Becomes(r, [req[r] EXCEPT !.pc = IF CacheEnabled THEN "store" ELSE "done",
                                !.result = OwnAnswer(r),
                                !.metered = Append(@, Metered(r, TRUE)),
                                !.audit = @ \o Row(ChatRow, Model(r))])
  /\ UNCHANGED <<cache, now>>

FaultyStoredLosesOrigin(r) ==
  /\ At(r, "store")
  /\ cache' = [k \in DOMAIN cache \union {CacheKey[r]} |->
                  IF k = CacheKey[r] THEN Answer(Model(r), Model(r)) ELSE cache[k]]
  /\ Becomes(r, [req[r] EXCEPT !.pc = "done"])
  /\ UNCHANGED <<breakers, now>>

FaultyStoredKeepsTheLock(r) ==
  /\ At(r, "store")
  /\ cache = <<>>
  /\ cache' = [k \in {CacheKey[r]} |-> req[r].result]
  /\ Becomes(r, [req[r] EXCEPT !.pc = "done"])
  /\ UNCHANGED <<breakers, now>>

\* The answer is cached and returned.
Stored(r) ==
  /\ At(r, "store")
  /\ cache' = [k \in DOMAIN cache \union {CacheKey[r]} |->
                  IF k = CacheKey[r] THEN req[r].result ELSE cache[k]]
  /\ Becomes(r, [req[r] EXCEPT !.pc = "done"])
  /\ UNCHANGED <<breakers, now>>

\* The loop ends without an answer: 429 when every model of the chain was
\* refused by the limiter, whose error is then in lastErr, and else 502.
LoopEnds(r) ==
  /\ At(r, "loop") /\ ~InLoop(r)
  /\ Ends(r, Failure(IF req[r].limitedAll THEN "429" ELSE "502"), <<>>)
  /\ UNCHANGED <<breakers, cache, now>>

----------------------------------------------------------------------------

Tick ==
  /\ now < MaxTime
  /\ now' = now + 1
  /\ UNCHANGED <<req, breakers, cache>>

Step(r) ==
  \/ Rejected(r)
  \/ CacheHit(r)
  \/ NotRouted(r)
  \/ Routed(r)
  \/ Limited(r)
  \/ BreakerRefused(r)
  \/ NoProvider(r)
  \/ Called(r)
  \/ Failed(r)
  \/ Succeeded(r)
  \/ Stored(r)
  \/ LoopEnds(r)

Next ==
  \/ \E r \in Requests : Step(r)
  \/ Tick

\* A request's goroutine runs on; nothing in Complete blocks but the provider
\* call, which the HTTP client ends after a minute.
Spec == Init /\ [][Next]_vars /\ \A r \in Requests : WF_vars(Step(r))

----------------------------------------------------------------------------
(* Properties *)

AuditRow == [action : Actions, model : Models \union {NoModel}]

Answers ==
  [kind : {"ok"}, model : Models, routedFrom : {<<>>} \union {<<m>> : m \in Models}]

Request ==
  [ pc         : {"new", "loop", "calling", "store", "done"},
    chain      : Chains \union {<<>>},
    next       : Nat \ {0},
    attempts   : Nat,
    limitedAll : BOOLEAN,
    audit      : Seq(AuditRow),
    called     : Seq(Models),
    metered    : Seq([model : Models, ok : BOOLEAN]),
    result     : Answers \union [kind : {"none", "400", "404", "429", "502"}] ]

\* Every variable has its type.
TypeOK ==
  /\ req \in [Requests -> Request]
  /\ breakers \in [Models -> Entry]
  /\ DOMAIN cache \subseteq {CacheKey[r] : r \in Requests}
  /\ \A k \in DOMAIN cache : cache[k] \in Answers
  /\ now \in 0..MaxTime

\* The models of a request's audit rows with an action.
RowsOf(q, action) == {row.model : row \in {x \in ToSet(q.audit) : x.action = action}}

\* A half-open entry has a provider call under way that will decide it: no path
\* through the loop takes the breaker's permission and fails to report back.
HalfOpenHasCall ==
  \A m \in Models : breakers[m].state = HalfOpen =>
    \E r \in Requests : At(r, "calling") /\ Model(r) = m

\* A request is answered 429 exactly when it was routed and the limiter refused
\* every model of its chain; a breaker, a missing provider or a failed call
\* anywhere in the chain makes it another answer.
TooManyRequestsIsHonest ==
  \A r \in Requests : At(r, "done") =>
    (req[r].result.kind = "429" <=>
       req[r].chain # <<>> /\ ToSet(req[r].chain) = RowsOf(req[r], LimitRow))

\* A request makes at most MaxAttempts provider calls, no two to one model.
CallsAreBounded ==
  \A r \in Requests : Len(req[r].called) <= MaxAttempts /\ IsInjective(req[r].called)

\* Every provider call is metered once, in order, when it has returned.
CallsAreMetered ==
  \A r \in Requests :
    LET models == [i \in DOMAIN req[r].metered |-> req[r].metered[i].model]
    IN  req[r].called = models \o (IF At(r, "calling") THEN <<Model(r)>> ELSE <<>>)

\* Why a model of the chain did not answer.
PassedOver(q, m) ==
  \/ m \in RowsOf(q, LimitRow) \union RowsOf(q, BreakerRow) \union RowsOf(q, UpstreamRow)
  \/ m \notin Registered

\* An answer of the request's own comes from the first model of its chain that
\* was not passed over, and names the preferred model if that is another.
AnswerIsFirstToServe ==
  \A r \in Requests : At(r, "done") /\ RowsOf(req[r], ChatRow) # {} =>
    \E i \in DOMAIN req[r].chain :
      /\ req[r].result = Answer(req[r].chain[i], req[r].chain[1])
      /\ RowsOf(req[r], ChatRow) = {req[r].chain[i]}
      /\ \A j \in 1..(i - 1) : PassedOver(req[r], req[r].chain[j])

\* A request gives up only when its calls are spent or its chain is.
GivesUpLast ==
  \A r \in Requests : At(r, "done") /\ req[r].result.kind \in {"429", "502"} =>
    \/ Len(req[r].called) = MaxAttempts
    \/ \A m \in ToSet(req[r].chain) : PassedOver(req[r], m)

\* What the cache holds for a key was answered by a provider to a request with
\* that key.
CachedAnswersAreReal ==
  \A k \in DOMAIN cache : \E r \in Requests :
    CacheKey[r] = k /\ At(r, "done") /\ req[r].result = cache[k]
    /\ cache[k].model \in RowsOf(req[r], ChatRow)

\* Every request ends.
EveryRequestEnds == \A r \in Requests : <>At(r, "done")

\* The entry of a model keeps the breaker's contract under the pipeline too.
Contract == INSTANCE BreakerContract WITH
  MaxTrials <- 2, phase <- breakers[Watched].state,
  trials <- IF breakers[Watched].state = HalfOpen THEN breakers[Watched].probes + 1 ELSE 0

KeepsContract == Contract!Spec
=============================================================================
