------------------------------ MODULE UsagePage ------------------------------
(***************************************************************************)
(* GET /usage beside the metering that feeds it: the handler, the adapter  *)
(* main.go gives it and the billing client's queries.                      *)
(*                                                                         *)
(* A page is put together from three readings at three times: the totals   *)
(* of the sink, the cost and the budget the billing service has for the    *)
(* tenant.  Each request has a goroutine of its own, so pages are put      *)
(* together at the same time.  Billing prices every successful call at     *)
(* one; the amount of the budget is left out.                              *)
(***************************************************************************)
EXTENDS MeteringReporter

CONSTANT MaxPages   \* bound of the requests for a page

VARIABLE page       \* each request's page: how far it is and what it shows

\* The requests are numbered as they come.
Pages == 1..MaxPages

\* Of the fields of a page, due and before are history: the figure it must show
\* at least, and the pages that had been answered when it was asked for.
PageInit ==
  /\ Init
  /\ page = [p \in Pages |-> [pc |-> "new", used |-> 0, cost |-> 0, source |-> "none",
                              due |-> 0, before |-> {}]]

\* The totals are read first.  All accepted calls but those that may be in the
\* channel or in the worker's hands are due.
Ask(p) ==
  /\ page[p].pc = "new" /\ \A q \in 1..(p - 1) : page[q].pc # "new"
  /\ page' = [page EXCEPT ![p] =
       [pc |-> "cost", used |-> tokens, cost |-> 0, source |-> "gateway",
        due |-> Successes(SubSeq(accepted, 1, Len(accepted) - (Buffer + 1))),
        before |-> {q \in Pages : page[q].pc = "done"}]]

CostAnswered(p) ==
  /\ page[p].pc = "cost"
  /\ page' = [page EXCEPT ![p].pc = "budget", ![p].cost = Successes(billed)]

FaultyCostFails(p) ==
  /\ page[p].pc = "cost"
  /\ page' = [page EXCEPT ![p].pc = "done", ![p].used = 0]

\* Billing is down or slow, answers with an error or something else, or the reader
\* has gone: the page is what the gateway knows itself, and its cost is 0.
CostFails(p) ==
  /\ page[p].pc = "cost"
  /\ page' = [page EXCEPT ![p].pc = "done"]

FaultyBudgetAnswered(p) ==
  /\ page[p].pc = "budget"
  /\ \E pc \in {"done", "cost"} :
       page' = [page EXCEPT ![p].pc = pc, ![p].source = "billing"]

\* An error of this query counts as no budget; the cost is shown all the same.
BudgetAnswered(p) ==
  /\ page[p].pc = "budget"
  /\ page' = [page EXCEPT ![p].pc = "done", ![p].source = "billing"]

Billing(p) == CostAnswered(p) \/ CostFails(p) \/ BudgetAnswered(p)

PageNext ==
  \/ Next /\ UNCHANGED page
  \/ (\E p \in Pages : Ask(p) \/ Billing(p)) /\ UNCHANGED vars

\* The worker as before; a query ends after five seconds at most.
PageSpec ==
  /\ PageInit /\ [][PageNext]_<<vars, page>>
  /\ WF_vars(Worker /\ UNCHANGED page) /\ WF_vars(CloseReturns /\ UNCHANGED page)
  /\ \A p \in Pages : WF_page(Billing(p) /\ UNCHANGED vars)

----------------------------------------------------------------------------
(* Properties *)

\* A reader sees no figure go back, however many pages are put together at a time.
\* The token figure is never blanked by billing: a page, with or without billing's
\* part, shows what was due when it was asked for, and no less than a page that
\* had been answered by then.  Nor is a cost that billing gave smaller than on such
\* a page.  (A page without billing's part shows 0, with the gateway as its source.)
PagesNeverGoBack ==
  \A p \in Pages : page[p].pc = "done" =>
    /\ page[p].used >= page[p].due
    /\ \A q \in page[p].before :
         /\ page[p].used >= page[q].used
         /\ page[p].source = "billing" => page[p].cost >= page[q].cost

\* A page that is asked for is answered, whatever billing does.
PagesAreAnswered == \A p \in Pages : page[p].pc = "cost" ~> page[p].pc = "done"
=============================================================================
