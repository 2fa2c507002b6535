-------------------------------- MODULE Router --------------------------------
(***************************************************************************)
(* application/routing: one call of Resolve.                               *)
(*                                                                         *)
(* Resolve takes no snapshot of the catalog.  It asks it again for every   *)
(* candidate it filters, for every model it splits by source and for both  *)
(* models of every comparison of the insertion sort.  On PostgreSQL each   *)
(* of these questions is a query that may fail, and a Get that fails looks *)
(* like a model that is not there; the sort does not look whether it is.   *)
(*                                                                         *)
(* A card says what it says to the request at hand: whether it has the     *)
(* capability asked for, whether it allows the tenant.  Bootstrap wires    *)
(* neither ForceSelfHost nor QuotaExceeded, and the decision's Reason only *)
(* words a message: all three are left out.                                *)
(***************************************************************************)
EXTENDS Integers, Sequences, SequencesExt, FiniteSets

CONSTANTS
  Models,
  Cards,        \* what the catalog may say of a model
  Asked,        \* request model and fallback chain, as requests may have them
  Defaults,     \* default model and fallback chain of the configuration
  MaxFailures   \* bound of the queries that fail

ASSUME RouterAssumption ==
  /\ IsFiniteSet(Models)
  /\ Asked \subseteq Seq(Models) /\ Defaults \in Seq(Models)
  /\ Cards \subseteq [capable : BOOLEAN, allowed : BOOLEAN, selfHosted : BOOLEAN,
                      health : {"healthy", "degraded", "down"}, price : Nat]
  /\ MaxFailures \in Nat

VARIABLES
  catalog,      \* the cards, which do not change during the call
  costAware,    \* the configuration's costAware
  candidates,   \* the request's models and the configuration's, once each
  pc,           \* "filter", "split", "sort" or "done"
  jumped,       \* whether the catalog has been listed for want of candidates
  todo,         \* models still to be looked at in this part
  viable,       \* models kept by the filter
  selfHosted,   \* the two lists of stableCostSort
  thirdParty,
  upto, at,     \* i and j of the insertion sort, counted from 1
  decision,     \* Preferred and then FallbackChain
  failures      \* queries that have failed

given == <<catalog, costAware, candidates>>
lists == <<selfHosted, thirdParty, upto, at>>
vars == <<given, pc, jumped, todo, viable, lists, decision, failures>>

dedupe(seq) ==
  FoldLeft(LAMBDA out, m : IF m \in ToSet(out) THEN out ELSE Append(out, m), <<>>, seq)

Init ==
  /\ \E known \in SUBSET Models : catalog \in [known -> Cards]
  /\ costAware \in BOOLEAN
  /\ \E asked \in Asked : candidates = dedupe(asked \o Defaults)
  /\ pc = "filter" /\ jumped = FALSE
  /\ todo = candidates /\ viable = <<>>
  /\ selfHosted = <<>> /\ thirdParty = <<>> /\ upto = 2 /\ at = 2
  /\ decision = <<>>
  /\ failures = 0

----------------------------------------------------------------------------
(* The catalog *)

\* The empty card that Get returns beside "not found".
ZeroCard ==
  [capable |-> FALSE, allowed |-> TRUE, selfHosted |-> FALSE, health |-> "", price |-> 0]

Card(m) == IF m \in DOMAIN catalog THEN catalog[m] ELSE ZeroCard

\* What Get may return for a model.
Get(m) == {Card(m)} \union (IF failures < MaxFailures THEN {ZeroCard} ELSE {})

Failed(m, card) == IF card = Card(m) THEN 0 ELSE 1

\* What ListByCapability may return: the models with the capability that allow the
\* tenant, in any order, since the in-memory catalog goes through a Go map.  A query
\* that fails returns none, and rows that cannot be read are passed over.
Suitable == {m \in DOMAIN catalog : catalog[m].capable /\ catalog[m].allowed}
Listings == SetToAllKPermutations(Suitable)

----------------------------------------------------------------------------
(* The filter, for the candidates and after a capability jump *)

\* Operators named Faulty... are plausible slips in the definition after them,
\* kept to show which property notices each slip.  Nothing else uses them.
FaultyKeep(card) == card.capable /\ card.health # "down"

Keep(card) == card.capable /\ card.allowed /\ card.health # "down"

Filter ==
  /\ pc = "filter" /\ todo # <<>>
  /\ jumped => Head(todo) \notin ToSet(candidates)
  /\ LET m == Head(todo) IN
       \E card \in Get(m) :
         /\ viable' = IF Keep(card) THEN Append(viable, m) ELSE viable
         /\ failures' = failures + Failed(m, card)
  /\ todo' = Tail(todo)
  /\ UNCHANGED <<given, pc, jumped, lists, decision>>

\* No candidate is viable: the models of the catalog are looked at.
CapabilityJump ==
  /\ pc = "filter" /\ todo = <<>> /\ viable = <<>> /\ ~jumped
  /\ jumped' = TRUE
  /\ todo' \in Listings
  /\ failures' = IF ToSet(todo') = Suitable THEN failures ELSE failures + 1
  /\ failures' <= MaxFailures
  /\ UNCHANGED <<given, pc, viable, lists, decision>>

\* But for those that were candidates.
SkipCandidate ==
  /\ pc = "filter" /\ todo # <<>> /\ jumped /\ Head(todo) \in ToSet(candidates)
  /\ todo' = Tail(todo)
  /\ UNCHANGED <<given, pc, jumped, viable, lists, decision, failures>>

Sorts == costAware /\ Len(viable) > 1

Filtered == pc = "filter" /\ todo = <<>> /\ (viable # <<>> \/ jumped)

Unsorted ==
  /\ Filtered /\ ~Sorts
  /\ pc' = "done" /\ decision' = viable
  /\ UNCHANGED <<given, jumped, todo, viable, lists, failures>>

----------------------------------------------------------------------------
(* stableCostSort *)

StartSort ==
  /\ Filtered /\ Sorts
  /\ pc' = "split" /\ todo' = viable
  /\ UNCHANGED <<given, jumped, viable, lists, decision, failures>>

Split ==
  /\ pc = "split"
  /\ LET m == Head(todo) IN
       \E card \in Get(m) :
         /\ IF card.selfHosted
            THEN selfHosted' = Append(selfHosted, m) /\ UNCHANGED thirdParty
            ELSE thirdParty' = Append(thirdParty, m) /\ UNCHANGED selfHosted
         /\ failures' = failures + Failed(m, card)
  /\ todo' = Tail(todo)
  /\ pc' = IF Len(todo) = 1 THEN "sort" ELSE "split"
  /\ UNCHANGED <<given, jumped, viable, upto, at, decision>>

FaultyCheaper(b, a) == b.price <= a.price

Cheaper(b, a) == b.price < a.price

Swapped(seq, j) == [seq EXCEPT ![j - 1] = seq[j], ![j] = seq[j - 1]]

\* One turn of the inner loop: a cheaper model moves one place to the front.
Compare ==
  /\ pc = "sort" /\ upto <= Len(thirdParty) /\ at > 1
  /\ \E a \in Get(thirdParty[at - 1]), b \in Get(thirdParty[at]) :
       /\ failures' = failures + Failed(thirdParty[at - 1], a) + Failed(thirdParty[at], b)
       /\ failures' <= MaxFailures
       /\ IF Cheaper(b, a)
          THEN thirdParty' = Swapped(thirdParty, at) /\ at' = at - 1 /\ UNCHANGED upto
          ELSE upto' = upto + 1 /\ at' = upto + 1 /\ UNCHANGED thirdParty
  /\ UNCHANGED <<given, pc, jumped, todo, viable, selfHosted, decision>>

\* It has arrived at the front.
AtFront ==
  /\ pc = "sort" /\ upto <= Len(thirdParty) /\ at = 1
  /\ upto' = upto + 1 /\ at' = upto + 1
  /\ UNCHANGED <<given, pc, jumped, todo, viable, selfHosted, thirdParty, decision, failures>>

FaultyJoined == thirdParty

Joined == selfHosted \o thirdParty

Sorted ==
  /\ pc = "sort" /\ upto > Len(thirdParty)
  /\ pc' = "done" /\ decision' = Joined
  /\ UNCHANGED <<given, jumped, todo, viable, lists, failures>>

Next ==
  \/ Filter \/ CapabilityJump \/ SkipCandidate \/ Unsorted
  \/ StartSort \/ Split \/ Compare \/ AtFront \/ Sorted

\* The request's goroutine runs on: a query answers or fails.
Spec == Init /\ [][Next]_vars /\ WF_vars(Next)

----------------------------------------------------------------------------
(* Properties *)

\* The catalog lets the request use the model.
MayUse(m) ==
  /\ m \in DOMAIN catalog
  /\ catalog[m].capable /\ catalog[m].allowed /\ catalog[m].health \in {"healthy", "degraded"}

\* Whatever queries fail, a model in the decision has the capability, allows the
\* tenant and is not down: no path around the filter, by way of the capability jump
\* or of the empty card, leads a request to a model it may not use.  And no model is
\* in the decision twice, so that a retry is a retry elsewhere.
OnlyViableModels ==
  /\ \A m \in ToSet(decision) : MayUse(m)
  /\ IsInjective(decision)

ViableOf(models) == {m \in models : MayUse(m)}

\* Without a failure every viable candidate is in the decision, and when there is
\* none every viable model of the catalog.  Sorting loses no model in either case,
\* nor when a query that it makes fails.
NoViableModelIsLost ==
  pc = "done" =>
    /\ ToSet(decision) = ToSet(viable)
    /\ failures = 0 =>
         ToSet(decision) = IF ViableOf(ToSet(candidates)) # {} THEN ViableOf(ToSet(candidates))
                           ELSE ViableOf(DOMAIN catalog)

\* A model is offered before another when it is self-hosted and the other is not,
\* or when both are third-party and it is cheaper; else they keep their order.
CostsLess(a, b) ==
  \/ catalog[a].selfHosted /\ ~catalog[b].selfHosted
  \/ ~catalog[a].selfHosted /\ ~catalog[b].selfHosted /\ catalog[a].price < catalog[b].price

\* Without a failure the decision is in that order if costs count, and else in the
\* order of the candidates.
CostOrder ==
  pc = "done" /\ failures = 0 =>
    \A i, j \in DOMAIN decision : i < j =>
      LET a == decision[i]
          b == decision[j]
      IN  \/ costAware /\ CostsLess(a, b)
          \/ /\ costAware => ~CostsLess(b, a)
             /\ \E k, l \in DOMAIN viable : k < l /\ viable[k] = a /\ viable[l] = b
=============================================================================
