---------------------------- MODULE AgentAuthoring ----------------------------
(***************************************************************************)
(* EU-05 authoring: the agent handlers, the session service and the two    *)
(* agent repositories, under concurrent requests, failing statements and   *)
(* restarts of the gateway.                                                *)
(*                                                                         *)
(* A request is one to three accesses of the repository or the catalog,    *)
(* each atomic (a lock, or one SQL statement), with nothing that holds     *)
(* them together.  At every start the gateway takes the repository anew:   *)
(* PostgreSQL if it is configured and answers, else an empty map.          *)
(*                                                                         *)
(* A specification is its tenant, its status and the request its other     *)
(* fields are from.  Ids are clock readings.                               *)
(***************************************************************************)
EXTENDS Integers

CONSTANTS
  Requests,     \* requests, each handled once
  Tenants,
  Kinds,        \* repositories a start may find: "memory", "postgres"
  Cataloged,    \* ids the platform may publish in the catalog
  MaxClock,     \* bound of the clock
  MaxRestarts,  \* bound of the restarts
  Absent        \* no specification

Ids == 1..MaxClock
Repositories == {"memory", "postgres"}
AgentSpec == [tenant : Tenants, by : Requests, status : {"draft", "published"}]
Keep == "keep"  \* the empty status of an update

ASSUME AuthoringAssumption ==
  /\ Kinds \subseteq Repositories
  /\ Cataloged \subseteq Ids
  /\ MaxClock \in Nat \ {0} /\ MaxRestarts \in Nat
  /\ Absent \notin AgentSpec

VARIABLES
  kind,         \* the repository in use
  store,        \* the contents of each repository
  catalog,      \* status of the agents the platform has put into the catalog
  clock,        \* nanoseconds
  restarts,
  req,          \* the local state of each request
  ideal,        \* history: the contents if every request took effect at one instant
  overlapped,   \* history: agents for which two writing requests were under way at once
  during        \* history: what the repository held for each id during each request

historyVars == <<ideal, overlapped, during>>
serverVars == <<kind, catalog, clock, restarts>>
vars == <<serverVars, store, req, historyVars>>

Writing == {"create", "update", "delete"}
At(r, pc) == req[r].pc = pc
UnderWay(r) == req[r].pc \notin {"new", "done", "gone"}
Writes(r, id) == UnderWay(r) /\ req[r].op \in Writing /\ req[r].id = id
Empty == [id \in Ids |-> Absent]
NoCatalog == [id \in Cataloged |-> "none"]

Init ==
  /\ kind \in Kinds
  /\ store = [k \in Repositories |-> Empty]
  /\ catalog = NoCatalog
  /\ clock = 1 /\ restarts = 0
  /\ req = [r \in Requests |->
       [pc |-> "new", op |-> "none", id |-> 1, tenant |-> Absent, status |-> Keep,
        spec |-> Absent, rows |-> {}, more |-> {}, failed |-> FALSE, result |-> "none"]]
  /\ ideal = store
  /\ overlapped = {}
  /\ during = [r \in Requests |-> [id \in Ids |-> {}]]

\* Every step of request r ends so, with what it makes of the repository.
Goes(r, now, contents) ==
  /\ req' = [req EXCEPT ![r] = now]
  /\ store' = [store EXCEPT ![kind] = contents]
  /\ during' = [q \in Requests |-> [id \in Ids |->
       during[q][id] \union (IF UnderWay(q) \/ q = r THEN {contents[id]} ELSE {})]]
  /\ UNCHANGED serverVars

Answers(r, result) == [req[r] EXCEPT !.pc = "done", !.result = result]
Reads(r, now) == Goes(r, now, store[kind]) /\ UNCHANGED <<ideal, overlapped>>

----------------------------------------------------------------------------
(* The handlers *)

Starts(r, now) ==
  /\ At(r, "new")
  /\ Goes(r, now, store[kind])
  /\ overlapped' = overlapped \union
       {id \in Ids : now.op \in Writing /\ now.id = id /\ \E q \in Requests : Writes(q, id)}
  /\ UNCHANGED ideal

\* The wrong method, no tenant, a body that is no JSON, a name or an id missing.
Refused(r) == At(r, "new") /\ Reads(r, Answers(r, "refused"))

NewAgent(r, tenant) == [tenant |-> tenant, by |-> r, status |-> "draft"]

\* The id is the reading of the clock.  Two creations under way at once may read the
\* same; a creation takes longer than the clock needs to go on.
CreateAgent(r, tenant) ==
  /\ \A q \in Requests : At(q, "done") /\ req[q].op = "create" => req[q].id # clock
  /\ Starts(r, [req[r] EXCEPT !.pc = "save", !.op = "create", !.id = clock,
       !.spec = NewAgent(r, tenant)])

\* GET, PATCH and DELETE of an id that was given out.
AgentByID(r, op, id, status) ==
  /\ id <= clock
  /\ op # "update" => status = Keep
  /\ Starts(r, [req[r] EXCEPT !.pc = "lookup", !.op = op, !.id = id, !.status = status])

ListAgents(r, tenant) ==
  Starts(r, [req[r] EXCEPT !.pc = "list", !.op = "list", !.tenant = tenant])

----------------------------------------------------------------------------
(* The service, on either repository *)

\* Operators named Faulty... are plausible slips in the definition after them,
\* kept to show which property notices each slip.  Nothing else uses them.
FaultyUpdated(spec, r) ==
  [spec EXCEPT !.by = r, !.status = IF req[r].status = Keep THEN "draft" ELSE req[r].status]

FaultyUpdatedReplaces(spec, r) ==
  [spec EXCEPT !.tenant = CHOOSE t \in Tenants : t # spec.tenant, !.by = r]

\* The fields are the request's; the status too, if it names one.
Updated(spec, r) ==
  [spec EXCEPT !.by = r, !.status = IF req[r].status = Keep THEN spec.status ELSE req[r].status]

Found(r, spec) ==
  \/ req[r].op = "get" /\ Reads(r, [Answers(r, "ok") EXCEPT !.spec = spec])
  \/ req[r].op = "update" /\ Reads(r, [req[r] EXCEPT !.pc = "save", !.spec = Updated(spec, r)])
  \/ req[r].op = "delete" /\ Reads(r, [req[r] EXCEPT !.pc = "delete"])

\* GetAgent tries the catalog next; the others give up.
NotFound(r, failed) ==
  Reads(r, [(IF req[r].op = "get" THEN [req[r] EXCEPT !.pc = "catalog"] ELSE Answers(r, "404"))
            EXCEPT !.failed = failed])

FaultyGet(r) ==
  /\ At(r, "lookup")
  /\ LET spec == store["memory"][req[r].id]
     IN  IF spec # Absent THEN Found(r, spec) ELSE NotFound(r, FALSE)

Get(r) ==
  /\ At(r, "lookup")
  /\ LET spec == store[kind][req[r].id]
     IN  IF spec # Absent THEN Found(r, spec) ELSE NotFound(r, FALSE)

\* A query that fails looks like a row that is not there.
GetFails(r) == At(r, "lookup") /\ kind = "postgres" /\ NotFound(r, TRUE)

\* The agent is written whole, whatever it was when it was read.
Written(r) == IF req[r].op = "delete" THEN Absent ELSE req[r].spec

\* What the request would make of the agent if it read and wrote it at this instant.
Ideally(r, spec) ==
  IF req[r].op = "create" THEN req[r].spec
  ELSE IF req[r].op = "delete" \/ spec = Absent THEN Absent
  ELSE [tenant |-> spec.tenant, by |-> r,
        status |-> IF req[r].status = Keep THEN spec.status ELSE req[r].status]

Effect(r, result) ==
  /\ Goes(r, Answers(r, result), [store[kind] EXCEPT ![req[r].id] = Written(r)])
  /\ ideal' = [ideal EXCEPT ![kind][req[r].id] = Ideally(r, ideal[kind][req[r].id])]
  /\ UNCHANGED overlapped

Save(r) == At(r, "save") /\ Effect(r, "ok")

Delete(r) == At(r, "delete") /\ Effect(r, "ok")

\* The statement fails, or the connection when the statement has taken effect.
ExecFails(r, committed) ==
  /\ At(r, "save") \/ At(r, "delete")
  /\ kind = "postgres"
  /\ IF committed THEN Effect(r, "error") ELSE Reads(r, Answers(r, "error"))

----------------------------------------------------------------------------
(* The listing, and the catalog behind the repository *)

RowsOf(contents, tenant) ==
  {<<id, contents[id]>> : id \in {i \in Ids : contents[i] # Absent /\ contents[i].tenant = tenant}}

List(r) ==
  /\ At(r, "list")
  /\ Reads(r, [req[r] EXCEPT !.pc = "merge", !.rows = RowsOf(store[kind], req[r].tenant)])

\* A query that fails looks like a tenant without agents.
ListFails(r) ==
  /\ At(r, "list") /\ kind = "postgres"
  /\ Reads(r, [req[r] EXCEPT !.pc = "merge", !.failed = TRUE])

ListAvailable == {id \in Cataloged : catalog[id] = "published"}

FaultyMerge(r) == At(r, "merge") /\ Reads(r, [Answers(r, "ok") EXCEPT !.more = ListAvailable])

\* The handler adds what the catalog has under other ids.
Merge(r) ==
  /\ At(r, "merge")
  /\ Reads(r, [Answers(r, "ok") EXCEPT !.more = ListAvailable \ {row[1] : row \in req[r].rows}])

\* GetAgent falls back on the catalog.
FromCatalog(r) ==
  /\ At(r, "catalog")
  /\ Reads(r, Answers(r, IF req[r].id \in ListAvailable THEN "summary" ELSE "404"))

\* The platform sends an agent, or what has become of it.
Put(id, status) ==
  /\ catalog' = [catalog EXCEPT ![id] = status]
  /\ UNCHANGED <<kind, clock, restarts, store, req, historyVars>>

----------------------------------------------------------------------------
(* The process *)

\* The gateway stops, whatever requests are under way, and starts again.  Maps are
\* lost, and PostgreSQL may not answer this time.  A statement that was sent has been
\* executed before or never is.
Restart(k) ==
  /\ restarts < MaxRestarts
  /\ restarts' = restarts + 1
  /\ kind' = k
  /\ store' = [store EXCEPT !["memory"] = Empty]
  /\ ideal' = [ideal EXCEPT !["memory"] = Empty]
  /\ catalog' = NoCatalog
  /\ req' = [r \in Requests |-> IF UnderWay(r) THEN [req[r] EXCEPT !.pc = "gone"] ELSE req[r]]
  /\ UNCHANGED <<clock, overlapped, during>>

Tick ==
  /\ clock < MaxClock
  /\ clock' = clock + 1
  /\ UNCHANGED <<kind, catalog, restarts, store, req, historyVars>>

Step(r) ==
  \/ Refused(r)
  \/ \E tenant \in Tenants : CreateAgent(r, tenant) \/ ListAgents(r, tenant)
  \/ \E op \in {"get", "update", "delete"}, id \in Ids, status \in {Keep, "published"} :
       AgentByID(r, op, id, status)
  \/ Get(r)
  \/ GetFails(r)
  \/ Save(r)
  \/ Delete(r)
  \/ \E committed \in BOOLEAN : ExecFails(r, committed)
  \/ List(r)
  \/ ListFails(r)
  \/ Merge(r)
  \/ FromCatalog(r)

Next ==
  \/ \E r \in Requests : Step(r)
  \/ \E id \in Cataloged, status \in {"draft", "published"} : Put(id, status)
  \/ \E k \in Kinds : Restart(k)
  \/ Tick

Spec == Init /\ [][Next]_vars

----------------------------------------------------------------------------
(* Properties *)

Contents == [Ids -> AgentSpec \union {Absent}]

Request ==
  [pc : {"new", "lookup", "save", "delete", "list", "merge", "catalog", "done", "gone"},
   op : Writing \union {"get", "list", "none"},
   id : Ids, tenant : Tenants \union {Absent}, status : {Keep, "published"},
   spec : AgentSpec \union {Absent}, rows : SUBSET (Ids \X AgentSpec), more : SUBSET Ids,
   failed : BOOLEAN, result : {"none", "ok", "404", "summary", "refused", "error"}]

\* Every variable has its type; a request that saves has something to save.
TypeOK ==
  /\ kind \in Repositories
  /\ store \in [Repositories -> Contents] /\ ideal \in [Repositories -> Contents]
  /\ catalog \in [Cataloged -> {"none", "draft", "published"}]
  /\ clock \in Ids /\ restarts \in Nat
  /\ overlapped \subseteq Ids
  /\ req \in [Requests -> Request]
  /\ during \in [Requests -> [Ids -> SUBSET (AgentSpec \union {Absent})]]
  /\ \A r \in Requests : At(r, "save") => req[r].spec # Absent

\* As long as no two writing requests for an agent were ever under way at once, the
\* agent is in each repository exactly what the requests that took effect made of it,
\* one after the other: through failing statements, requests cut off by a restart
\* and starts on the other repository.
QuietAgentIsExact ==
  \A k \in Repositories : \A id \in Ids \ overlapped : store[k][id] = ideal[k][id]

\* However requests overlap, an agent that was created and not deleted is there, with
\* a tenant that created it and the fields of the last request that wrote it: what an
\* overlap can do is lose a status, or bring a deleted agent back.
AgentsAreNotLost ==
  \A k \in Repositories : \A id \in Ids :
    ideal[k][id] # Absent =>
      /\ store[k][id] # Absent
      /\ store[k][id].by = ideal[k][id].by
      /\ \E r \in Requests :
           req[r].op = "create" /\ req[r].id = id /\ req[r].spec.tenant = store[k][id].tenant

\* A request is told that there is no agent, or served from the catalog, only when
\* the agent was absent at some time during the request or a query failed; what a read
\* returns was there during it; and a write that is confirmed was there to be read.
AnswersAreHonest ==
  \A r \in Requests : At(r, "done") =>
    /\ req[r].result \in {"404", "summary"} => Absent \in during[r][req[r].id] \/ req[r].failed
    /\ req[r].op # "list" /\ req[r].result = "ok" => Written(r) \in during[r][req[r].id]

\* A listing whose query did not fail shows every agent of the tenant that was there
\* all the time, none that was never there, and none twice.
ListingIsHonest ==
  \A r \in Requests : At(r, "done") /\ req[r].op = "list" =>
    /\ req[r].more \intersect {row[1] : row \in req[r].rows} = {}
    /\ \A row \in req[r].rows : row[2] \in during[r][row[1]] /\ row[2].tenant = req[r].tenant
    /\ \A id \in Ids :
         ~req[r].failed /\ Absent \notin during[r][id]
           /\ (\A spec \in during[r][id] : spec.tenant = req[r].tenant) =>
             id \in {row[1] : row \in req[r].rows}
=============================================================================
