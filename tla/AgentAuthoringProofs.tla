------------------------- MODULE AgentAuthoringProofs -------------------------
(***************************************************************************)
(* Proofs about AgentAuthoring for every set of requests and tenants, every *)
(* clock and every number of restarts.                                     *)
(***************************************************************************)
EXTENDS AgentAuthoring, TLAPS

Local == {"new", "lookup", "save", "delete", "list", "merge", "catalog", "done", "gone"}

\* What a request does goes with what it was asked to do.
OpsMatch ==
  \A r \in Requests :
    /\ At(r, "new") => req[r].op = "none"
    /\ At(r, "lookup") => req[r].op \in {"get", "update", "delete"}
    /\ At(r, "save") => req[r].op \in {"create", "update"}
    /\ At(r, "delete") => req[r].op = "delete"
    /\ At(r, "list") \/ At(r, "merge") => req[r].op = "list"
    /\ At(r, "catalog") => req[r].op = "get"

TypeInv == TypeOK /\ OpsMatch

----------------------------------------------------------------------------
(* The shape of a step *)

\* What every step of a request leaves of the variables.
LEMMA GoesFacts ==
  ASSUME TypeOK, NEW r \in Requests, NEW now \in Request, NEW contents \in Contents,
         Goes(r, now, contents)
  PROVE  /\ req' \in [Requests -> Request]
         /\ req'[r] = now /\ \A q \in Requests \ {r} : req'[q] = req[q]
         /\ store' \in [Repositories -> Contents]
         /\ store'[kind] = contents /\ \A k \in Repositories \ {kind} : store'[k] = store[k]
         /\ during' \in [Requests -> [Ids -> SUBSET (AgentSpec \union {Absent})]]
         /\ \A q \in Requests, id \in Ids :
              during'[q][id] =
                during[q][id] \union (IF UnderWay(q) \/ q = r THEN {contents[id]} ELSE {})
         /\ kind' = kind /\ catalog' = catalog /\ clock' = clock /\ restarts' = restarts
<1>1. req' = [req EXCEPT ![r] = now] /\ store' = [store EXCEPT ![kind] = contents]
  BY DEF Goes
<1>2. req' \in [Requests -> Request]
         /\ req'[r] = now /\ \A q \in Requests \ {r} : req'[q] = req[q]
  BY <1>1 DEF TypeOK
<1>3. store' \in [Repositories -> Contents]
         /\ store'[kind] = contents /\ \A k \in Repositories \ {kind} : store'[k] = store[k]
  BY <1>1 DEF TypeOK
<1>4. during' = [q \in Requests |-> [id \in Ids |->
       during[q][id] \union (IF UnderWay(q) \/ q = r THEN {contents[id]} ELSE {})]]
  BY DEF Goes
<1>5. \A q \in Requests, id \in Ids : during[q][id] \in SUBSET (AgentSpec \union {Absent})
  BY DEF TypeOK
<1>6. \A id \in Ids : contents[id] \in AgentSpec \union {Absent}
  BY DEF Contents
<1>7. during' \in [Requests -> [Ids -> SUBSET (AgentSpec \union {Absent})]]
  BY <1>4, <1>5, <1>6
<1>8. \A q \in Requests, id \in Ids :
              during'[q][id] =
                during[q][id] \union (IF UnderWay(q) \/ q = r THEN {contents[id]} ELSE {})
  BY <1>4
<1>9. kind' = kind /\ catalog' = catalog /\ clock' = clock /\ restarts' = restarts
  BY DEF Goes, serverVars
<1>10. QED
  BY <1>2, <1>3, <1>7, <1>8, <1>9

\* The state a request goes on from, for each step that only reads.
ReadStep(r, now) ==
  \/ At(r, "new") /\ now = Answers(r, "refused")
  \/ \E spec \in AgentSpec :
       /\ At(r, "lookup") /\ spec = store[kind][req[r].id]
       /\ \/ req[r].op = "get" /\ now = [Answers(r, "ok") EXCEPT !.spec = spec]
          \/ req[r].op = "update" /\ now = [req[r] EXCEPT !.pc = "save", !.spec = Updated(spec, r)]
          \/ req[r].op = "delete" /\ now = [req[r] EXCEPT !.pc = "delete"]
  \/ \E failed \in BOOLEAN :
       /\ At(r, "lookup") /\ (failed \/ store[kind][req[r].id] = Absent)
       /\ \/ req[r].op = "get" /\ now = [req[r] EXCEPT !.pc = "catalog", !.failed = failed]
          \/ req[r].op # "get" /\ now = [Answers(r, "404") EXCEPT !.failed = failed]
  \/ (At(r, "save") \/ At(r, "delete")) /\ now = Answers(r, "error")
  \/ At(r, "list") /\ now = [req[r] EXCEPT !.pc = "merge", !.rows = RowsOf(store[kind], req[r].tenant)]
  \/ At(r, "list") /\ now = [req[r] EXCEPT !.pc = "merge", !.failed = TRUE]
  \/ /\ At(r, "merge")
     /\ now = [Answers(r, "ok") EXCEPT !.more = ListAvailable \ {row[1] : row \in req[r].rows}]
  \/ At(r, "catalog") /\ \E result \in {"summary", "404"} : now = Answers(r, result)

\* And of a request that comes.
FirstStep(r, now) ==
  /\ At(r, "new")
  /\ \/ \E tenant \in Tenants :
          now = [req[r] EXCEPT !.pc = "save", !.op = "create", !.id = clock,
                               !.spec = NewAgent(r, tenant)]
     \/ \E tenant \in Tenants : now = [req[r] EXCEPT !.pc = "list", !.op = "list", !.tenant = tenant]
     \/ \E op \in {"get", "update", "delete"}, id \in Ids, status \in {Keep, "published"} :
          now = [req[r] EXCEPT !.pc = "lookup", !.op = op, !.id = id, !.status = status]

\* Rows of a listing are ids with specifications.
LEMMA RowsType ==
  ASSUME NEW contents \in Contents, NEW tenant
  PROVE  RowsOf(contents, tenant) \in SUBSET (Ids \X AgentSpec)
<1>1. \A id \in Ids : contents[id] # Absent => <<id, contents[id]>> \in Ids \X AgentSpec
  BY DEF Contents
<1>2. QED
  BY <1>1 DEF RowsOf

\* An updated specification is a specification.
LEMMA UpdatedType ==
  ASSUME TypeOK, NEW r \in Requests, NEW spec \in AgentSpec
  PROVE  /\ Updated(spec, r) \in AgentSpec
         /\ Updated(spec, r).by = r
         /\ Updated(spec, r).tenant = spec.tenant
         /\ Updated(spec, r).status = IF req[r].status = Keep THEN spec.status ELSE req[r].status
<1>1. req[r].status \in {Keep, "published"}
  BY DEF TypeOK, Request
<1>2. QED
  BY <1>1 DEF Updated, AgentSpec, Keep

\* A request that is answered is a request.
LEMMA AnswersType ==
  ASSUME TypeInv, NEW r \in Requests, NEW result \in {"ok", "404", "summary", "refused", "error"}
  PROVE  Answers(r, result) \in Request
<1>1. req[r] \in Request
  BY DEF TypeInv, TypeOK
<1>2. QED
  BY <1>1 DEF Answers, Request

\* Every step of a request is a first step, one that only reads, or an effect.
LEMMA StepShape ==
  ASSUME TypeInv, NEW r \in Requests, Step(r)
  PROVE  \/ \E now \in Request : FirstStep(r, now) /\ Starts(r, now)
         \/ \E now \in Request : ReadStep(r, now) /\ Reads(r, now)
         \/ \E result \in {"ok", "error"} : (At(r, "save") \/ At(r, "delete")) /\ Effect(r, result)
<1>0. /\ req[r] \in Request /\ kind \in Repositories /\ store[kind] \in Contents /\ clock \in Ids
      /\ req[r].id \in Ids
  BY DEF TypeInv, TypeOK, Request
<1>1. ASSUME Refused(r)
      PROVE  \E now \in Request : ReadStep(r, now) /\ Reads(r, now)
  <2>1. Answers(r, "refused") \in Request
    BY AnswersType
  <2>2. ReadStep(r, Answers(r, "refused")) /\ Reads(r, Answers(r, "refused"))
    BY <1>1 DEF Refused, ReadStep
  <2>3. QED
    BY <2>1, <2>2
<1>2. ASSUME NEW tenant \in Tenants, CreateAgent(r, tenant) \/ ListAgents(r, tenant)
      PROVE  \E now \in Request : FirstStep(r, now) /\ Starts(r, now)
  <2> DEFINE creating == [req[r] EXCEPT !.pc = "save", !.op = "create", !.id = clock,
                                        !.spec = NewAgent(r, tenant)]
             listing  == [req[r] EXCEPT !.pc = "list", !.op = "list", !.tenant = tenant]
  <2>1. creating \in Request /\ listing \in Request
    BY <1>0 DEF Request, NewAgent, AgentSpec, Writing
  <2>2. CASE CreateAgent(r, tenant)
    <3>1. Starts(r, creating) /\ At(r, "new")
      BY <2>2 DEF CreateAgent, Starts
    <3>2. FirstStep(r, creating)
      BY <3>1 DEF FirstStep
    <3>3. QED
      BY <2>1, <3>1, <3>2
  <2>3. CASE ListAgents(r, tenant)
    <3>1. Starts(r, listing) /\ At(r, "new")
      BY <2>3 DEF ListAgents, Starts
    <3>2. FirstStep(r, listing)
      BY <3>1 DEF FirstStep
    <3>3. QED
      BY <2>1, <3>1, <3>2
  <2>4. QED
    BY <1>2, <2>2, <2>3
<1>3. ASSUME NEW op \in {"get", "update", "delete"}, NEW id \in Ids,
             NEW status \in {Keep, "published"}, AgentByID(r, op, id, status)
      PROVE  \E now \in Request : FirstStep(r, now) /\ Starts(r, now)
  <2> DEFINE now == [req[r] EXCEPT !.pc = "lookup", !.op = op, !.id = id, !.status = status]
  <2>1. now \in Request
    BY <1>0 DEF Request, Writing
  <2>2. Starts(r, now) /\ At(r, "new")
    BY <1>3 DEF AgentByID, Starts
  <2>3. FirstStep(r, now)
    BY <2>2 DEF FirstStep
  <2>4. QED
    BY <2>1, <2>2, <2>3
<1>4. ASSUME NEW failed \in BOOLEAN, At(r, "lookup"), failed \/ store[kind][req[r].id] = Absent,
             NotFound(r, failed)
      PROVE  \E now \in Request : ReadStep(r, now) /\ Reads(r, now)
  <2> DEFINE trying == [req[r] EXCEPT !.pc = "catalog", !.failed = failed]
             giving == [Answers(r, "404") EXCEPT !.failed = failed]
  <2>1. trying \in Request /\ giving \in Request
    BY <1>0 DEF Request, Answers
  <2>2. CASE req[r].op = "get"
    <3>1. [[req[r] EXCEPT !.pc = "catalog"] EXCEPT !.failed = failed] = trying
      BY <1>0 DEF Request
    <3>2. Reads(r, trying)
      BY <1>4, <2>2, <3>1 DEF NotFound
    <3>3. ReadStep(r, trying)
      BY <1>4, <2>2 DEF ReadStep
    <3>4. QED
      BY <2>1, <3>2, <3>3
  <2>3. CASE req[r].op # "get"
    <3>1. Reads(r, giving)
      BY <1>4, <2>3 DEF NotFound
    <3>2. ReadStep(r, giving)
      BY <1>4, <2>3 DEF ReadStep
    <3>3. QED
      BY <2>1, <3>1, <3>2
  <2>4. QED
    BY <2>2, <2>3
<1>5. ASSUME Get(r)
      PROVE  \E now \in Request : ReadStep(r, now) /\ Reads(r, now)
  <2> DEFINE spec == store[kind][req[r].id]
  <2>1. spec \in AgentSpec \union {Absent}
    BY <1>0 DEF Contents
  <2>2. CASE spec = Absent
    BY <1>4, <1>5, <2>2 DEF Get
  <2>3. CASE spec # Absent
    <3>1. spec \in AgentSpec /\ Found(r, spec) /\ At(r, "lookup")
      BY <1>5, <2>1, <2>3 DEF Get
    <3>2. Updated(spec, r) \in AgentSpec
      BY <3>1, UpdatedType DEF TypeInv
    <3> DEFINE got      == [Answers(r, "ok") EXCEPT !.spec = spec]
               changing == [req[r] EXCEPT !.pc = "save", !.spec = Updated(spec, r)]
               deleting == [req[r] EXCEPT !.pc = "delete"]
    <3>3. got \in Request /\ changing \in Request /\ deleting \in Request
      BY <1>0, <3>1, <3>2 DEF Request, Answers
    <3>4. \/ req[r].op = "get" /\ Reads(r, got)
          \/ req[r].op = "update" /\ Reads(r, changing)
          \/ req[r].op = "delete" /\ Reads(r, deleting)
      BY <3>1 DEF Found
    <3> HIDE DEF spec
    <3>5. /\ req[r].op = "get" => ReadStep(r, got)
          /\ req[r].op = "update" => ReadStep(r, changing)
          /\ req[r].op = "delete" => ReadStep(r, deleting)
      BY <3>1 DEF ReadStep, spec
    <3>6. QED
      BY <3>3, <3>4, <3>5
  <2>4. QED
    BY <2>2, <2>3
<1>6. ASSUME GetFails(r)
      PROVE  \E now \in Request : ReadStep(r, now) /\ Reads(r, now)
  BY <1>4, <1>6 DEF GetFails
<1>7. ASSUME Save(r) \/ Delete(r)
      PROVE  (At(r, "save") \/ At(r, "delete")) /\ Effect(r, "ok")
  BY <1>7 DEF Save, Delete
<1>8. ASSUME NEW committed \in BOOLEAN, ExecFails(r, committed)
      PROVE  \/ \E now \in Request : ReadStep(r, now) /\ Reads(r, now)
             \/ (At(r, "save") \/ At(r, "delete")) /\ Effect(r, "error")
  <2>1. Answers(r, "error") \in Request
    BY AnswersType
  <2>2. CASE ~committed
    <3>1. Reads(r, Answers(r, "error")) /\ ReadStep(r, Answers(r, "error"))
      BY <1>8, <2>2 DEF ExecFails, ReadStep
    <3>2. QED
      BY <2>1, <3>1
  <2>3. CASE committed
    BY <1>8, <2>3 DEF ExecFails
  <2>4. QED
    BY <2>2, <2>3
<1>9. ASSUME List(r) \/ ListFails(r)
      PROVE  \E now \in Request : ReadStep(r, now) /\ Reads(r, now)
  <2> DEFINE listed == [req[r] EXCEPT !.pc = "merge", !.rows = RowsOf(store[kind], req[r].tenant)]
             empty  == [req[r] EXCEPT !.pc = "merge", !.failed = TRUE]
  <2>1. RowsOf(store[kind], req[r].tenant) \in SUBSET (Ids \X AgentSpec)
    BY <1>0, RowsType
  <2>2. listed \in Request /\ empty \in Request
    BY <1>0, <2>1 DEF Request
  <2>3. At(r, "list") /\ (Reads(r, listed) \/ Reads(r, empty))
    BY <1>9 DEF List, ListFails
  <2>4. ReadStep(r, listed) /\ ReadStep(r, empty)
    BY <2>3 DEF ReadStep
  <2>5. QED
    BY <2>2, <2>3, <2>4
<1>10. ASSUME Merge(r)
       PROVE  \E now \in Request : ReadStep(r, now) /\ Reads(r, now)
  <2> DEFINE rest == ListAvailable \ {row[1] : row \in req[r].rows}
             now  == [Answers(r, "ok") EXCEPT !.more = rest]
  <2>1. ListAvailable \subseteq Ids
    BY AuthoringAssumption DEF ListAvailable
  <2>2. rest \in SUBSET Ids
    BY <2>1
  <2>3. Reads(r, now) /\ ReadStep(r, now)
    BY <1>10 DEF Merge, ReadStep
  <2> HIDE DEF rest
  <2>4. now \in Request
    BY <1>0, <2>2 DEF Request, Answers
  <2>5. QED
    BY <2>3, <2>4
<1>11. ASSUME FromCatalog(r)
       PROVE  \E now \in Request : ReadStep(r, now) /\ Reads(r, now)
  <2>1. Answers(r, "summary") \in Request /\ Answers(r, "404") \in Request
    BY AnswersType
  <2>2. At(r, "catalog") /\ (Reads(r, Answers(r, "summary")) \/ Reads(r, Answers(r, "404")))
    BY <1>11 DEF FromCatalog
  <2>3. ReadStep(r, Answers(r, "summary")) /\ ReadStep(r, Answers(r, "404"))
    BY <2>2 DEF ReadStep
  <2>4. QED
    BY <2>1, <2>2, <2>3
<1>12. QED
  BY <1>1, <1>2, <1>3, <1>5, <1>6, <1>7, <1>8, <1>9, <1>10, <1>11 DEF Step

----------------------------------------------------------------------------
(* Types *)

\* What TypeInv says of one request.
LocalInv(rec) ==
  /\ rec.pc = "new" => rec.op = "none"
  /\ rec.pc = "lookup" => rec.op \in {"get", "update", "delete"}
  /\ rec.pc = "save" => rec.op \in {"create", "update"} /\ rec.spec # Absent
  /\ rec.pc = "delete" => rec.op = "delete"
  /\ rec.pc \in {"list", "merge"} => rec.op = "list"
  /\ rec.pc = "catalog" => rec.op = "get"

\* What the type invariant says of each request.
LEMMA LocalInvs ==
  TypeInv => \A r \in Requests : LocalInv(req[r])
BY DEF TypeInv, TypeOK, OpsMatch, LocalInv, At

\* What each step that only reads makes of the request.
LEMMA ReadStepShape ==
  ASSUME TypeInv, NEW r \in Requests, NEW now \in Request, ReadStep(r, now)
  PROVE  /\ now.op = req[r].op /\ now.id = req[r].id /\ now.status = req[r].status
         /\ now.tenant = req[r].tenant
         /\ ~At(r, "lookup") => now.spec = req[r].spec
         /\ \/ /\ At(r, "new") \/ At(r, "save") \/ At(r, "delete")
               /\ now.pc = "done" /\ now.result \in {"refused", "error"}
            \/ /\ At(r, "lookup") /\ now.pc = "done" /\ now.result = "ok" /\ now.op = "get"
               /\ now.spec = store[kind][now.id]
            \/ /\ At(r, "lookup") /\ now.pc = "save" /\ now.op = "update"
               /\ store[kind][now.id] \in AgentSpec /\ now.spec = Updated(store[kind][now.id], r)
            \/ At(r, "lookup") /\ now.pc = "delete" /\ now.op = "delete"
            \/ /\ At(r, "lookup") /\ (now.failed \/ store[kind][now.id] = Absent)
               /\ \/ now.pc = "catalog" /\ now.op = "get"
                  \/ now.pc = "done" /\ now.result = "404"
            \/ /\ At(r, "catalog") /\ now.pc = "done" /\ now.result \in {"summary", "404"}
               /\ now.failed = req[r].failed
            \/ /\ At(r, "list") /\ now.pc = "merge" /\ now.op = "list" /\ now.failed = req[r].failed
               /\ now.rows = RowsOf(store[kind], now.tenant)
            \/ /\ At(r, "list") /\ now.pc = "merge" /\ now.op = "list" /\ now.failed
               /\ now.rows = req[r].rows
            \/ /\ At(r, "merge") /\ now.pc = "done" /\ now.op = "list" /\ now.result = "ok"
               /\ now.failed = req[r].failed /\ now.rows = req[r].rows
               /\ now.more \intersect {row[1] : row \in now.rows} = {}
<1>0. req[r] \in Request /\ LocalInv(req[r])
  BY LocalInvs DEF TypeInv, TypeOK
<1>1. /\ Answers(r, "ok") = [req[r] EXCEPT !.pc = "done", !.result = "ok"]
      /\ Answers(r, "404") = [req[r] EXCEPT !.pc = "done", !.result = "404"]
  BY DEF Answers
<1>2. CASE /\ At(r, "new") \/ At(r, "save") \/ At(r, "delete")
           /\ \E result \in {"refused", "error"} : now = Answers(r, result)
  <2>1. PICK result \in {"refused", "error"} : now = [req[r] EXCEPT !.pc = "done", !.result = result]
    BY <1>2 DEF Answers
  <2>2. /\ now.op = req[r].op /\ now.id = req[r].id /\ now.status = req[r].status
        /\ now.tenant = req[r].tenant /\ now.spec = req[r].spec /\ now.pc = "done" /\ now.result = result
    BY <1>0, <2>1 DEF Request
  <2>3. QED
    BY <1>2, <2>2
<1>3. ASSUME NEW spec \in AgentSpec, At(r, "lookup"), spec = store[kind][req[r].id],
             req[r].op = "get", now = [Answers(r, "ok") EXCEPT !.spec = spec]
      PROVE  /\ now.op = "get" /\ now.id = req[r].id /\ now.status = req[r].status
             /\ now.tenant = req[r].tenant
             /\ now.pc = "done" /\ now.result = "ok" /\ now.spec = spec
  <2>1. now = [[req[r] EXCEPT !.pc = "done", !.result = "ok"] EXCEPT !.spec = spec]
    BY <1>1, <1>3
  <2>2. [req[r] EXCEPT !.pc = "done", !.result = "ok"] \in Request
    BY <1>1, AnswersType
  <2>3. QED
    BY <1>0, <1>3, <2>1, <2>2 DEF Request
<1>4. ASSUME NEW spec \in AgentSpec, At(r, "lookup"), spec = store[kind][req[r].id],
             req[r].op = "update", now = [req[r] EXCEPT !.pc = "save", !.spec = Updated(spec, r)]
      PROVE  /\ now.op = "update" /\ now.id = req[r].id /\ now.status = req[r].status
             /\ now.tenant = req[r].tenant
             /\ now.pc = "save" /\ now.spec = Updated(spec, r)
  BY <1>0, <1>4 DEF Request
<1>5. CASE At(r, "lookup") /\ req[r].op = "delete" /\ now = [req[r] EXCEPT !.pc = "delete"]
  BY <1>0, <1>5 DEF Request
<1>6. ASSUME NEW failed \in BOOLEAN, At(r, "lookup"), failed \/ store[kind][req[r].id] = Absent,
             req[r].op = "get", now = [req[r] EXCEPT !.pc = "catalog", !.failed = failed]
      PROVE  /\ now.op = "get" /\ now.id = req[r].id /\ now.status = req[r].status
             /\ now.tenant = req[r].tenant /\ now.pc = "catalog" /\ now.failed = failed
  BY <1>0, <1>6 DEF Request
<1>7. ASSUME NEW failed \in BOOLEAN, At(r, "lookup"), failed \/ store[kind][req[r].id] = Absent,
             now = [Answers(r, "404") EXCEPT !.failed = failed]
      PROVE  /\ now.op = req[r].op /\ now.id = req[r].id /\ now.status = req[r].status
             /\ now.tenant = req[r].tenant
             /\ now.pc = "done" /\ now.result = "404" /\ now.failed = failed
  <2>1. now = [[req[r] EXCEPT !.pc = "done", !.result = "404"] EXCEPT !.failed = failed]
    BY <1>1, <1>7
  <2>2. [req[r] EXCEPT !.pc = "done", !.result = "404"] \in Request
    BY <1>1, AnswersType
  <2>3. QED
    BY <1>0, <1>7, <2>1, <2>2 DEF Request
<1>8. CASE At(r, "list") /\ now = [req[r] EXCEPT !.pc = "merge", !.rows = RowsOf(store[kind], req[r].tenant)]
  BY <1>0, <1>8 DEF Request, LocalInv, At
<1>9. CASE At(r, "list") /\ now = [req[r] EXCEPT !.pc = "merge", !.failed = TRUE]
  <2>1. /\ now.op = req[r].op /\ now.id = req[r].id /\ now.status = req[r].status
        /\ now.tenant = req[r].tenant /\ now.spec = req[r].spec
        /\ now.pc = "merge" /\ now.rows = req[r].rows
    BY <1>0, <1>9 DEF Request
  <2>2. now.failed
    BY <1>0, <1>9 DEF Request
  <2>3. QED
    BY <1>0, <1>9, <2>1, <2>2 DEF LocalInv, At
<1>10. CASE /\ At(r, "merge")
            /\ now = [Answers(r, "ok") EXCEPT !.more = ListAvailable \ {row[1] : row \in req[r].rows}]
  <2> DEFINE ids  == {row[1] : row \in req[r].rows}
             more == ListAvailable \ ids
  <2>1. more \intersect ids = {}
    OBVIOUS
  <2> HIDE DEF more
  <2>2. now = [req[r] EXCEPT !.pc = "done", !.result = "ok", !.more = more]
    BY <1>0, <1>1, <1>10 DEF more, Request
  <2>3. /\ now.op = req[r].op /\ now.id = req[r].id /\ now.status = req[r].status
        /\ now.tenant = req[r].tenant /\ now.spec = req[r].spec
        /\ now.pc = "done" /\ now.result = "ok" /\ now.more = more
        /\ now.failed = req[r].failed /\ now.rows = req[r].rows
    BY <1>0, <2>2 DEF Request
  <2>4. req[r].op = "list"
    BY <1>0, <1>10 DEF LocalInv, At
  <2>5. QED
    BY <1>10, <2>1, <2>3, <2>4
<1>11. CASE At(r, "catalog") /\ \E result \in {"summary", "404"} : now = Answers(r, result)
  <2>1. PICK result \in {"summary", "404"} : now = [req[r] EXCEPT !.pc = "done", !.result = result]
    BY <1>11 DEF Answers
  <2>2. /\ now.op = req[r].op /\ now.id = req[r].id /\ now.status = req[r].status
        /\ now.tenant = req[r].tenant /\ now.spec = req[r].spec
        /\ now.pc = "done" /\ now.result = result /\ now.failed = req[r].failed
    BY <1>0, <2>1 DEF Request
  <2>3. QED
    BY <1>11, <2>2
<1>12. CASE \E spec \in AgentSpec :
              /\ At(r, "lookup") /\ spec = store[kind][req[r].id]
              /\ \/ req[r].op = "get" /\ now = [Answers(r, "ok") EXCEPT !.spec = spec]
                 \/ req[r].op = "update" /\ now = [req[r] EXCEPT !.pc = "save", !.spec = Updated(spec, r)]
                 \/ req[r].op = "delete" /\ now = [req[r] EXCEPT !.pc = "delete"]
  <2>1. PICK spec \in AgentSpec :
              /\ At(r, "lookup") /\ spec = store[kind][req[r].id]
              /\ \/ req[r].op = "get" /\ now = [Answers(r, "ok") EXCEPT !.spec = spec]
                 \/ req[r].op = "update" /\ now = [req[r] EXCEPT !.pc = "save", !.spec = Updated(spec, r)]
                 \/ req[r].op = "delete" /\ now = [req[r] EXCEPT !.pc = "delete"]
    BY <1>12
  <2>2. CASE req[r].op = "get"
    BY <1>3, <2>1, <2>2
  <2>3. CASE req[r].op = "update"
    BY <1>4, <2>1, <2>3
  <2>4. CASE req[r].op = "delete"
    BY <1>5, <2>1, <2>4
  <2>5. QED
    BY <2>1, <2>2, <2>3, <2>4
<1>13. CASE \E failed \in BOOLEAN :
              /\ At(r, "lookup") /\ (failed \/ store[kind][req[r].id] = Absent)
              /\ \/ req[r].op = "get" /\ now = [req[r] EXCEPT !.pc = "catalog", !.failed = failed]
                 \/ req[r].op # "get" /\ now = [Answers(r, "404") EXCEPT !.failed = failed]
  <2>1. PICK failed \in BOOLEAN :
              /\ At(r, "lookup") /\ (failed \/ store[kind][req[r].id] = Absent)
              /\ \/ req[r].op = "get" /\ now = [req[r] EXCEPT !.pc = "catalog", !.failed = failed]
                 \/ req[r].op # "get" /\ now = [Answers(r, "404") EXCEPT !.failed = failed]
    BY <1>13
  <2>2. CASE req[r].op = "get"
    BY <1>6, <2>1, <2>2
  <2>3. CASE req[r].op # "get"
    BY <1>7, <2>1, <2>3
  <2>4. QED
    BY <2>2, <2>3
<1>14. QED
  BY <1>2, <1>8, <1>9, <1>10, <1>11, <1>12, <1>13 DEF ReadStep

\* And each first step.
LEMMA FirstStepShape ==
  ASSUME TypeInv, NEW r \in Requests, NEW now \in Request, FirstStep(r, now)
  PROVE  /\ now.failed = req[r].failed /\ now.rows = req[r].rows /\ now.result = req[r].result
         /\ \/ now.pc = "save" /\ now.op = "create" /\ now.spec \in AgentSpec
            \/ now.pc = "list" /\ now.op = "list"
            \/ now.pc = "lookup" /\ now.op \in {"get", "update", "delete"}
<1>0. req[r] \in Request
  BY DEF TypeInv, TypeOK
<1>1. \A tenant \in Tenants : NewAgent(r, tenant) \in AgentSpec
  BY DEF NewAgent, AgentSpec
<1>2. CASE \E tenant \in Tenants :
             now = [req[r] EXCEPT !.pc = "save", !.op = "create", !.id = clock,
                                  !.spec = NewAgent(r, tenant)]
  BY <1>0, <1>1, <1>2 DEF Request
<1>3. CASE \E tenant \in Tenants :
             now = [req[r] EXCEPT !.pc = "list", !.op = "list", !.tenant = tenant]
  BY <1>0, <1>3 DEF Request
<1>4. CASE \E op \in {"get", "update", "delete"}, id \in Ids, status \in {Keep, "published"} :
             now = [req[r] EXCEPT !.pc = "lookup", !.op = op, !.id = id, !.status = status]
  BY <1>0, <1>4 DEF Request
<1>5. QED
  BY <1>2, <1>3, <1>4 DEF FirstStep

\* A step leaves its request as TypeInv wants it.
LEMMA StepLocal ==
  ASSUME TypeInv, NEW r \in Requests, NEW now \in Request, FirstStep(r, now) \/ ReadStep(r, now)
  PROVE  LocalInv(now)
<1>1. CASE FirstStep(r, now)
  BY <1>1, FirstStepShape, AuthoringAssumption DEF LocalInv
<1>2. CASE ReadStep(r, now)
  <2>1. \A spec \in AgentSpec : Updated(spec, r) # Absent
    BY UpdatedType, AuthoringAssumption DEF TypeInv
  <2>2. QED
    BY <1>2, <2>1, ReadStepShape DEF LocalInv
<1>3. QED
  BY <1>1, <1>2

\* What a request writes, really or ideally, is a specification or none.
LEMMA WrittenTypes ==
  ASSUME TypeInv, NEW r \in Requests, At(r, "save") \/ At(r, "delete"),
         NEW spec \in AgentSpec \union {Absent}
  PROVE  /\ Written(r) \in AgentSpec \union {Absent}
         /\ Ideally(r, spec) \in AgentSpec \union {Absent}
<1>1. req[r] \in Request
  BY DEF TypeInv, TypeOK
<1>2. QED
  BY <1>1 DEF Written, Ideally, Request, AgentSpec, Keep

\* What an effect makes of the variables.
LEMMA EffectFacts ==
  ASSUME TypeInv, NEW r \in Requests, NEW result \in {"ok", "error"},
         At(r, "save") \/ At(r, "delete"), Effect(r, result)
  PROVE  LET contents == [store[kind] EXCEPT ![req[r].id] = Written(r)]
         IN  /\ Answers(r, result) \in Request /\ contents \in Contents
             /\ Goes(r, Answers(r, result), contents)
             /\ ideal' = [ideal EXCEPT ![kind][req[r].id] = Ideally(r, ideal[kind][req[r].id])]
             /\ ideal' \in [Repositories -> Contents]
             /\ overlapped' = overlapped
<1> DEFINE contents == [store[kind] EXCEPT ![req[r].id] = Written(r)]
<1>0. /\ req[r] \in Request /\ kind \in Repositories /\ store[kind] \in Contents
      /\ ideal \in [Repositories -> Contents] /\ req[r].id \in Ids
  BY DEF TypeInv, TypeOK, Request
<1>1. Answers(r, result) \in Request
  BY AnswersType
<1>2. ideal[kind][req[r].id] \in AgentSpec \union {Absent}
  BY <1>0 DEF Contents
<1>3. /\ Written(r) \in AgentSpec \union {Absent}
      /\ Ideally(r, ideal[kind][req[r].id]) \in AgentSpec \union {Absent}
  BY <1>2, WrittenTypes
<1>4. contents \in Contents
  BY <1>0, <1>3 DEF Contents
<1>5. /\ Goes(r, Answers(r, result), contents)
      /\ ideal' = [ideal EXCEPT ![kind][req[r].id] = Ideally(r, ideal[kind][req[r].id])]
      /\ overlapped' = overlapped
  BY DEF Effect
<1>6. ideal' \in [Repositories -> Contents]
  BY <1>0, <1>3, <1>5 DEF Contents
<1>7. QED
  BY <1>1, <1>4, <1>5, <1>6

\* The type invariant holds at the start.
LEMMA InitTypeInv == Init => TypeInv
<1> SUFFICES ASSUME Init PROVE TypeInv
  OBVIOUS
<1>1. Empty \in Contents /\ NoCatalog \in [Cataloged -> {"none", "draft", "published"}]
  BY DEF Empty, Contents, NoCatalog
<1>2. 1 \in Ids
  BY AuthoringAssumption DEF Ids
<1>3. /\ kind \in Repositories
      /\ store \in [Repositories -> Contents] /\ ideal \in [Repositories -> Contents]
      /\ catalog \in [Cataloged -> {"none", "draft", "published"}]
      /\ clock \in Ids /\ restarts \in Nat /\ overlapped \subseteq Ids
  BY <1>1, <1>2, AuthoringAssumption DEF Init
<1>4. req \in [Requests -> Request] /\ \A r \in Requests : req[r].pc = "new" /\ req[r].op = "none"
  BY <1>2 DEF Init, Request
<1>5. during \in [Requests -> [Ids -> SUBSET (AgentSpec \union {Absent})]]
  BY DEF Init
<1>6. QED
  BY <1>3, <1>4, <1>5 DEF TypeInv, TypeOK, OpsMatch, At

\* A restart ends the requests that are under way.
LEMMA RestartEnds ==
  ASSUME TypeInv, NEW k \in Kinds, Restart(k), NEW r \in Requests
  PROVE  /\ req'[r] \in Request /\ req'[r].pc \in {"new", "done", "gone"}
         /\ req'[r] = req[r] \/ req'[r] = [req[r] EXCEPT !.pc = "gone"]
<1>1. req'[r] = IF UnderWay(r) THEN [req[r] EXCEPT !.pc = "gone"] ELSE req[r]
  BY DEF Restart
<1>2. req[r] \in Request
  BY DEF TypeInv, TypeOK
<1>3. QED
  BY <1>1, <1>2 DEF UnderWay, Request

\* The three kinds of step that are no request's.
LEMMA ServerTypeInv ==
  ASSUME TypeInv
  PROVE  /\ \A id \in Cataloged, status \in {"draft", "published"} : Put(id, status) => TypeInv'
         /\ \A k \in Kinds : Restart(k) => TypeInv'
         /\ Tick => TypeInv'
         /\ UNCHANGED vars => TypeInv'
<1>1. ASSUME NEW id \in Cataloged, NEW status \in {"draft", "published"}, Put(id, status)
      PROVE  TypeInv'
  BY <1>1 DEF Put, TypeInv, TypeOK, OpsMatch, At, historyVars
<1>2. ASSUME NEW k \in Kinds, Restart(k)
      PROVE  TypeInv'
  <2>1. Empty \in Contents /\ NoCatalog \in [Cataloged -> {"none", "draft", "published"}]
    BY DEF Empty, Contents, NoCatalog
  <2>2. /\ k \in Repositories /\ kind' = k
        /\ store' \in [Repositories -> Contents] /\ ideal' \in [Repositories -> Contents]
        /\ catalog' \in [Cataloged -> {"none", "draft", "published"}]
        /\ restarts' \in Nat /\ UNCHANGED <<clock, overlapped, during>>
    <3>1. store \in [Repositories -> Contents] /\ ideal \in [Repositories -> Contents] /\ restarts \in Nat
      BY DEF TypeInv, TypeOK
    <3>2. /\ kind' = k /\ catalog' = NoCatalog /\ restarts' = restarts + 1
          /\ store' = [store EXCEPT !["memory"] = Empty] /\ ideal' = [ideal EXCEPT !["memory"] = Empty]
          /\ UNCHANGED <<clock, overlapped, during>>
      BY <1>2 DEF Restart
    <3>3. k \in Repositories
      BY AuthoringAssumption
    <3>4. store' \in [Repositories -> Contents] /\ ideal' \in [Repositories -> Contents]
      BY <2>1, <3>1, <3>2
    <3>5. restarts' \in Nat
      BY <3>1, <3>2
    <3>6. QED
      BY <2>1, <3>2, <3>3, <3>4, <3>5
  <2>3. \A r \in Requests : req'[r] \in Request /\ LocalInv(req'[r]) /\ req'[r].pc # "save"
    <3> TAKE r \in Requests
    <3>1. LocalInv(req[r]) /\ req[r] \in Request
      BY LocalInvs DEF TypeInv, TypeOK
    <3>2. /\ req'[r] \in Request /\ req'[r].pc \in {"new", "done", "gone"}
          /\ req'[r] = req[r] \/ req'[r] = [req[r] EXCEPT !.pc = "gone"]
      BY <1>2, RestartEnds
    <3>3. QED
      BY <3>1, <3>2 DEF LocalInv, Request
  <2>4. req' \in [Requests -> Request]
    BY <1>2, <2>3 DEF Restart
  <2>5. QED
    BY <2>2, <2>3, <2>4 DEF TypeInv, TypeOK, OpsMatch, LocalInv, At
<1>3. ASSUME Tick
      PROVE  TypeInv'
  <2>1. clock' \in Ids
    BY <1>3, AuthoringAssumption DEF Tick, TypeInv, TypeOK, Ids
  <2>2. QED
    BY <1>3, <2>1 DEF Tick, TypeInv, TypeOK, OpsMatch, At, historyVars
<1>4. ASSUME UNCHANGED vars
      PROVE  TypeInv'
  BY <1>4 DEF vars, serverVars, historyVars, TypeInv, TypeOK, OpsMatch, At
<1>5. QED
  BY <1>1, <1>2, <1>3, <1>4

\* A step of a request keeps the type invariant.
LEMMA StepTypeInv ==
  ASSUME TypeInv, NEW r \in Requests, Step(r)
  PROVE  TypeInv'
<1>0. TypeOK /\ store[kind] \in Contents
  BY DEF TypeInv, TypeOK
<1>1. ASSUME NEW now \in Request, NEW contents \in Contents, Goes(r, now, contents), LocalInv(now),
             ideal' \in [Repositories -> Contents], overlapped' \subseteq Ids
      PROVE  TypeInv'
  <2>1. \A q \in Requests : LocalInv(req'[q])
    BY <1>0, <1>1, GoesFacts, LocalInvs
  <2>2. OpsMatch' /\ \A q \in Requests : At(q, "save")' => req'[q].spec # Absent
    BY <2>1 DEF LocalInv, OpsMatch, At
  <2>3. /\ req' \in [Requests -> Request] /\ store' \in [Repositories -> Contents]
        /\ during' \in [Requests -> [Ids -> SUBSET (AgentSpec \union {Absent})]]
        /\ UNCHANGED <<kind, catalog, clock, restarts>>
    BY <1>0, <1>1, GoesFacts
  <2>4. QED
    BY <1>0, <1>1, <2>2, <2>3 DEF TypeInv, TypeOK
<1>2. ASSUME NEW now \in Request, FirstStep(r, now), Starts(r, now)
      PROVE  TypeInv'
  <2>1. LocalInv(now)
    BY <1>2, StepLocal
  <2>2. Goes(r, now, store[kind]) /\ ideal' = ideal /\ overlapped' \subseteq Ids
    BY <1>0, <1>2 DEF Starts, TypeOK
  <2>3. QED
    BY <1>0, <1>1, <2>1, <2>2 DEF TypeOK
<1>3. ASSUME NEW now \in Request, ReadStep(r, now), Reads(r, now)
      PROVE  TypeInv'
  <2>1. LocalInv(now)
    BY <1>3, StepLocal
  <2>2. Goes(r, now, store[kind]) /\ ideal' = ideal /\ overlapped' = overlapped
    BY <1>3 DEF Reads
  <2>3. QED
    BY <1>0, <1>1, <2>1, <2>2 DEF TypeOK
<1>4. ASSUME NEW result \in {"ok", "error"}, At(r, "save") \/ At(r, "delete"), Effect(r, result)
      PROVE  TypeInv'
  <2> DEFINE contents == [store[kind] EXCEPT ![req[r].id] = Written(r)]
  <2>1. /\ Answers(r, result) \in Request /\ contents \in Contents
        /\ Goes(r, Answers(r, result), contents)
        /\ ideal' \in [Repositories -> Contents] /\ overlapped' = overlapped
    BY <1>4, EffectFacts
  <2>2. LocalInv(Answers(r, result))
    BY <1>0 DEF LocalInv, Answers, Request, TypeOK
  <2>3. QED
    BY <1>0, <1>1, <2>1, <2>2 DEF TypeOK
<1>5. QED
  BY <1>2, <1>3, <1>4, StepShape

\* Every step keeps the type invariant.
LEMMA NextTypeInv == TypeInv /\ [Next]_vars => TypeInv'
BY StepTypeInv, ServerTypeInv DEF Next

\* The types are kept, for every set of requests and tenants.
THEOREM TypeCorrect == Spec => []TypeOK
<1>1. TypeInv => TypeOK
  BY DEF TypeInv
<1>2. QED
  BY <1>1, InitTypeInv, NextTypeInv, PTL DEF Spec

----------------------------------------------------------------------------
(* Agents no two writers have overlapped on *)

\* Such an agent has one writer at a time,
Alone ==
  \A q, r \in Requests : \A id \in Ids \ overlapped : Writes(q, id) /\ Writes(r, id) => q = r

\* and what an update is about to save is made of what is there now.
ReadIsCurrent ==
  \A r \in Requests : At(r, "save") /\ req[r].op = "update" /\ req[r].id \notin overlapped =>
    /\ store[kind][req[r].id] \in AgentSpec
    /\ req[r].spec = Updated(store[kind][req[r].id], r)

QuietInv == QuietAgentIsExact /\ Alone /\ ReadIsCurrent

\* A request that comes marks the agents it overlaps on.
LEMMA QuietStarts ==
  ASSUME TypeInv, QuietInv, NEW r \in Requests, NEW now \in Request,
         FirstStep(r, now), Starts(r, now)
  PROVE  QuietInv'
<1>0. TypeOK /\ store[kind] \in Contents
  BY DEF TypeInv, TypeOK
<1>1. /\ Goes(r, now, store[kind]) /\ ideal' = ideal
      /\ overlapped' = overlapped \union
           {id \in Ids : now.op \in Writing /\ now.id = id /\ \E q \in Requests : Writes(q, id)}
  BY DEF Starts
<1>2. /\ req'[r] = now /\ \A q \in Requests \ {r} : req'[q] = req[q]
      /\ kind' = kind /\ \A k \in Repositories : store'[k] = store[k]
  BY <1>0, <1>1, GoesFacts
<1>3. QuietAgentIsExact'
  BY <1>1, <1>2 DEF QuietInv, QuietAgentIsExact
<1>4. \A q \in Requests \ {r}, id \in Ids : Writes(q, id)' = Writes(q, id)
  BY <1>2 DEF Writes, UnderWay
<1>5. ASSUME NEW id \in Ids \ overlapped', Writes(r, id)'
      PROVE  \A q \in Requests : ~Writes(q, id)
  BY <1>1, <1>2, <1>5 DEF Writes
<1>6. Alone'
  <2> SUFFICES ASSUME NEW p \in Requests, NEW q \in Requests, NEW id \in Ids \ overlapped',
                      Writes(p, id)', Writes(q, id)'
               PROVE  p = q
    BY DEF Alone
  <2>1. id \in Ids \ overlapped
    BY <1>1
  <2>2. CASE p # r /\ q # r
    BY <1>4, <2>1, <2>2 DEF QuietInv, Alone
  <2>3. CASE p = r \/ q = r
    BY <1>4, <1>5, <2>3
  <2>4. QED
    BY <2>2, <2>3
<1>7. ReadIsCurrent'
  <2> SUFFICES ASSUME NEW q \in Requests, At(q, "save")', req'[q].op = "update", req'[q].id \notin overlapped'
               PROVE  /\ store'[kind'][req'[q].id] \in AgentSpec
                      /\ req'[q].spec = Updated(store[kind][req[q].id], q)'
    BY DEF ReadIsCurrent
  <2>1. q # r
    BY <1>2, FirstStepShape DEF At
  <2>2. req'[q] = req[q] /\ req[q].id \notin overlapped
    BY <1>1, <1>2, <2>1
  <2>3. store[kind][req[q].id] \in AgentSpec /\ req[q].spec = Updated(store[kind][req[q].id], q)
    BY <2>2 DEF QuietInv, ReadIsCurrent, At
  <2>4. kind \in Repositories
    BY <1>0 DEF TypeOK
  <2>5. QED
    BY <1>2, <2>2, <2>3, <2>4 DEF Updated
<1>8. QED
  BY <1>3, <1>6, <1>7 DEF QuietInv

\* A step that only reads leaves agents and writers as they are, but for the update
\* that has read what it will change.
LEMMA QuietReads ==
  ASSUME TypeInv, QuietInv, NEW r \in Requests, NEW now \in Request,
         ReadStep(r, now), Reads(r, now)
  PROVE  QuietInv'
<1>0. TypeOK /\ store[kind] \in Contents /\ kind \in Repositories
  BY DEF TypeInv, TypeOK
<1>1. Goes(r, now, store[kind]) /\ ideal' = ideal /\ overlapped' = overlapped
  BY DEF Reads
<1>2. /\ req'[r] = now /\ \A q \in Requests \ {r} : req'[q] = req[q]
      /\ kind' = kind /\ \A k \in Repositories : store'[k] = store[k]
  BY <1>0, <1>1, GoesFacts
<1>3. QuietAgentIsExact'
  BY <1>1, <1>2 DEF QuietInv, QuietAgentIsExact
<1>4. now.op = req[r].op /\ now.id = req[r].id /\ now.status = req[r].status
  BY ReadStepShape
<1>5. UnderWay(r)' => UnderWay(r)
  BY <1>2, ReadStepShape DEF UnderWay, At
<1>6. \A q \in Requests, id \in Ids : Writes(q, id)' => Writes(q, id)
  BY <1>2, <1>4, <1>5 DEF Writes, UnderWay
<1>7. Alone'
  BY <1>1, <1>6 DEF QuietInv, Alone
<1>8. ReadIsCurrent'
  <2> SUFFICES ASSUME NEW q \in Requests, At(q, "save")', req'[q].op = "update", req'[q].id \notin overlapped'
               PROVE  /\ store'[kind'][req'[q].id] \in AgentSpec
                      /\ req'[q].spec = Updated(store[kind][req[q].id], q)'
    BY DEF ReadIsCurrent
  <2>1. CASE q # r
    <3>1. store[kind][req[q].id] \in AgentSpec /\ req[q].spec = Updated(store[kind][req[q].id], q)
      BY <1>1, <1>2, <2>1 DEF QuietInv, ReadIsCurrent, At
    <3>2. QED
      BY <1>0, <1>2, <2>1, <3>1 DEF Updated
  <2>2. CASE q = r
    <3>1. store[kind][now.id] \in AgentSpec /\ now.spec = Updated(store[kind][now.id], r)
      BY <1>2, <2>2, ReadStepShape DEF At
    <3>2. QED
      BY <1>0, <1>2, <1>4, <2>2, <3>1 DEF Updated
  <2>3. QED
    BY <2>1, <2>2
<1>9. QED
  BY <1>3, <1>7, <1>8 DEF QuietInv

\* An effect on such an agent makes of it what the request would make of it at once,
\* and concerns no other writer.
LEMMA QuietEffect ==
  ASSUME TypeInv, QuietInv, NEW r \in Requests, NEW result \in {"ok", "error"},
         At(r, "save") \/ At(r, "delete"), Effect(r, result)
  PROVE  QuietInv'
<1> DEFINE own      == req[r].id
           contents == [store[kind] EXCEPT ![own] = Written(r)]
<1>0. /\ TypeOK /\ req[r] \in Request /\ own \in Ids /\ kind \in Repositories
      /\ store[kind] \in Contents /\ ideal[kind] \in Contents /\ LocalInv(req[r])
  BY LocalInvs DEF TypeInv, TypeOK, Request
<1>1. /\ Answers(r, result) \in Request /\ contents \in Contents
      /\ Goes(r, Answers(r, result), contents)
      /\ ideal' = [ideal EXCEPT ![kind][own] = Ideally(r, ideal[kind][own])]
      /\ overlapped' = overlapped
  BY EffectFacts
<1>2. /\ req'[r] = Answers(r, result) /\ \A q \in Requests \ {r} : req'[q] = req[q]
      /\ kind' = kind /\ store'[kind] = contents
      /\ \A k \in Repositories \ {kind} : store'[k] = store[k]
  BY <1>0, <1>1, GoesFacts
<1>3. /\ store'[kind][own] = Written(r)
      /\ \A id \in Ids \ {own} : store'[kind][id] = store[kind][id]
  BY <1>0, <1>2 DEF Contents
<1>4. /\ ideal'[kind][own] = Ideally(r, ideal[kind][own])
      /\ \A id \in Ids \ {own} : ideal'[kind][id] = ideal[kind][id]
      /\ \A k \in Repositories \ {kind} : ideal'[k] = ideal[k]
  BY <1>0, <1>1 DEF TypeOK, Contents
<1>5. Writes(r, own)
  BY <1>0 DEF Writes, UnderWay, LocalInv, At, Writing
<1>6. req'[r].pc = "done"
  BY <1>0, <1>2 DEF Answers, Request
<1>7. ASSUME own \notin overlapped
      PROVE  Written(r) = Ideally(r, ideal[kind][own])
  <2>1. store[kind][own] = ideal[kind][own]
    BY <1>0, <1>7 DEF QuietInv, QuietAgentIsExact
  <2>2. CASE At(r, "delete")
    BY <1>0, <2>2 DEF LocalInv, At, Written, Ideally
  <2>3. CASE At(r, "save") /\ req[r].op = "create"
    BY <2>3 DEF Written, Ideally
  <2>4. CASE At(r, "save") /\ req[r].op = "update"
    <3> DEFINE spec == store[kind][own]
    <3>1. spec \in AgentSpec /\ req[r].spec = Updated(spec, r)
      BY <1>7, <2>4 DEF QuietInv, ReadIsCurrent
    <3>2. spec # Absent
      BY <3>1, AuthoringAssumption
    <3>3. Ideally(r, spec) =
            [tenant |-> spec.tenant, by |-> r,
             status |-> IF req[r].status = Keep THEN spec.status ELSE req[r].status]
      BY <2>4, <3>2 DEF Ideally
    <3>4. Written(r) = Updated(spec, r)
      BY <2>4, <3>1 DEF Written
    <3> HIDE DEF spec
    <3>5. Updated(spec, r) =
            [tenant |-> spec.tenant, by |-> r,
             status |-> IF req[r].status = Keep THEN spec.status ELSE req[r].status]
      BY <1>0, <3>1, UpdatedType DEF AgentSpec
    <3>6. QED
      BY <2>1, <3>3, <3>4, <3>5 DEF spec
  <2>5. QED
    BY <1>0, <2>2, <2>3, <2>4 DEF LocalInv, At
<1>8. QuietAgentIsExact'
  <2> SUFFICES ASSUME NEW k \in Repositories, NEW id \in Ids \ overlapped
               PROVE  store'[k][id] = ideal'[k][id]
    BY <1>1 DEF QuietAgentIsExact
  <2>1. store[k][id] = ideal[k][id]
    BY DEF QuietInv, QuietAgentIsExact
  <2>2. CASE k = kind /\ id = own
    BY <1>3, <1>4, <1>7, <2>2
  <2>3. CASE k # kind \/ id # own
    BY <1>2, <1>3, <1>4, <2>1, <2>3
  <2>4. QED
    BY <2>2, <2>3
<1>9. \A q \in Requests, id \in Ids : Writes(q, id)' => q # r /\ Writes(q, id)
  BY <1>2, <1>6 DEF Writes, UnderWay
<1>10. Alone'
  BY <1>1, <1>9 DEF QuietInv, Alone
<1>11. ReadIsCurrent'
  <2> SUFFICES ASSUME NEW q \in Requests, At(q, "save")', req'[q].op = "update", req'[q].id \notin overlapped'
               PROVE  /\ store'[kind'][req'[q].id] \in AgentSpec
                      /\ req'[q].spec = Updated(store[kind][req[q].id], q)'
    BY DEF ReadIsCurrent
  <2>1. q # r /\ req'[q] = req[q]
    BY <1>2, <1>6 DEF At
  <2>2. store[kind][req[q].id] \in AgentSpec /\ req[q].spec = Updated(store[kind][req[q].id], q)
    BY <1>1, <2>1 DEF QuietInv, ReadIsCurrent, At
  <2>3. Writes(q, req[q].id) /\ req[q].id \in Ids \ overlapped
    BY <1>0, <1>1, <2>1 DEF Writes, UnderWay, At, Writing, TypeOK, Request
  <2>4. req[q].id # own
    BY <1>5, <2>1, <2>3 DEF QuietInv, Alone
  <2>5. store'[kind'][req'[q].id] = store[kind][req[q].id]
    BY <1>2, <1>3, <2>1, <2>3, <2>4
  <2>6. QED
    BY <2>1, <2>2, <2>5 DEF Updated
<1>12. QED
  BY <1>8, <1>10, <1>11 DEF QuietInv

\* A restart leaves nobody under way, and empties both maps.
LEMMA QuietServer ==
  ASSUME TypeInv, QuietInv
  PROVE  /\ \A id \in Cataloged, status \in {"draft", "published"} : Put(id, status) => QuietInv'
         /\ \A k \in Kinds : Restart(k) => QuietInv'
         /\ Tick => QuietInv'
         /\ UNCHANGED vars => QuietInv'
<1>1. ASSUME UNCHANGED <<kind, store, req, historyVars>>
      PROVE  QuietInv'
  BY <1>1 DEF QuietInv, QuietAgentIsExact, Alone, ReadIsCurrent, Writes, UnderWay, At, Updated, historyVars
<1>2. ASSUME NEW k \in Kinds, Restart(k)
      PROVE  QuietInv'
  <2>1. /\ store' = [store EXCEPT !["memory"] = Empty] /\ ideal' = [ideal EXCEPT !["memory"] = Empty]
        /\ overlapped' = overlapped
    BY <1>2 DEF Restart
  <2>2. \A q \in Repositories : (store'[q] = store[q] /\ ideal'[q] = ideal[q]) \/ store'[q] = ideal'[q]
    BY <2>1 DEF TypeInv, TypeOK
  <2>3. QuietAgentIsExact'
    BY <2>1, <2>2 DEF QuietInv, QuietAgentIsExact
  <2>4. \A r \in Requests : req'[r].pc \in {"new", "done", "gone"}
    BY <1>2, RestartEnds
  <2>5. QED
    BY <2>3, <2>4 DEF QuietInv, Alone, ReadIsCurrent, Writes, UnderWay, At
<1>3. QED
  BY <1>1, <1>2 DEF Put, Tick, vars, serverVars

\* Every step keeps the agents that nobody wrote at once exact.
LEMMA QuietNext == TypeInv /\ QuietInv /\ [Next]_vars => QuietInv'
<1> SUFFICES ASSUME TypeInv, QuietInv, [Next]_vars PROVE QuietInv'
  OBVIOUS
<1>1. ASSUME NEW r \in Requests, Step(r) PROVE QuietInv'
  BY <1>1, StepShape, QuietStarts, QuietReads, QuietEffect
<1>2. QED
  BY <1>1, QuietServer DEF Next

\* At the start every agent is exact: there is none.
LEMMA QuietInit == Init => QuietInv
BY DEF Init, QuietInv, QuietAgentIsExact, Alone, ReadIsCurrent, Writes, UnderWay, At

\* An agent no two writers have overlapped on is what its requests made of it, for
\* every set of requests and tenants and any number of restarts.
THEOREM QuietAgentsAreExact == Spec => []QuietAgentIsExact
<1>1. QuietInv => QuietAgentIsExact
  BY DEF QuietInv
<1>2. QED
  BY <1>1, InitTypeInv, NextTypeInv, QuietInit, QuietNext, PTL DEF Spec

----------------------------------------------------------------------------
(* What overlapping writers cannot lose *)

\* A creation gave out the id, for the tenant of the specification.
MadeBy(id, spec) ==
  \E r \in Requests : req[r].op = "create" /\ req[r].id = id /\ req[r].spec.tenant = spec.tenant

MadeNext(id, spec) ==
  \E r \in Requests : req'[r].op = "create" /\ req'[r].id = id /\ req'[r].spec.tenant = spec.tenant

\* All that is stored or about to be saved has its tenant from a creation, and what is
\* about to be saved is its request's.
StoredIsMade ==
  \A k \in Repositories, id \in Ids : store[k][id] # Absent => MadeBy(id, store[k][id])

SavingIsMade ==
  \A r \in Requests : At(r, "save") =>
    /\ MadeBy(req[r].id, req[r].spec)
    /\ req[r].op = "update" => req[r].spec.by = r

LastWriterStays ==
  \A k \in Repositories, id \in Ids :
    ideal[k][id] # Absent => store[k][id] # Absent /\ store[k][id].by = ideal[k][id].by

LostInv == StoredIsMade /\ SavingIsMade /\ LastWriterStays

\* The invariant gives the property.
LEMMA LostInvImplies == LostInv => AgentsAreNotLost
BY DEF LostInv, StoredIsMade, LastWriterStays, AgentsAreNotLost, MadeBy, MadeNext

\* Creations stay what they are.
\* An effect, as what it makes of request and repository.
EffectStep(r, now, contents) ==
  /\ At(r, "save") \/ At(r, "delete")
  /\ \E result \in {"ok", "error"} : now = Answers(r, result)
  /\ contents = [store[kind] EXCEPT ![req[r].id] = Written(r)]
  /\ ideal' = [ideal EXCEPT ![kind][req[r].id] = Ideally(r, ideal[kind][req[r].id])]

StepGoes(r, now, contents) ==
  /\ Goes(r, now, contents)
  /\ \/ (FirstStep(r, now) \/ ReadStep(r, now)) /\ contents = store[kind] /\ ideal' = ideal
     \/ EffectStep(r, now, contents)

\* Every step of a request puts a typed record and typed contents in place.
LEMMA StepGoing ==
  ASSUME TypeInv, NEW r \in Requests, Step(r)
  PROVE  \E now \in Request, contents \in Contents : StepGoes(r, now, contents)
<1>0. store[kind] \in Contents
  BY DEF TypeInv, TypeOK
<1>1. ASSUME NEW now \in Request, FirstStep(r, now), Starts(r, now)
      PROVE  StepGoes(r, now, store[kind])
  BY <1>1 DEF Starts, StepGoes
<1>2. ASSUME NEW now \in Request, ReadStep(r, now), Reads(r, now)
      PROVE  StepGoes(r, now, store[kind])
  BY <1>2 DEF Reads, StepGoes
<1>3. ASSUME NEW result \in {"ok", "error"}, At(r, "save") \/ At(r, "delete"), Effect(r, result)
      PROVE  /\ Answers(r, result) \in Request /\ [store[kind] EXCEPT ![req[r].id] = Written(r)] \in Contents
             /\ StepGoes(r, Answers(r, result), [store[kind] EXCEPT ![req[r].id] = Written(r)])
  BY <1>3, EffectFacts DEF StepGoes, EffectStep
<1>4. QED
  BY <1>0, <1>1, <1>2, <1>3, StepShape

\* A creation that has been made stays made.
LEMMA CreationsStay ==
  ASSUME TypeInv, NEW r \in Requests, NEW now \in Request, req'[r] = now,
         \A q \in Requests \ {r} : req'[q] = req[q],
         \/ FirstStep(r, now) \/ ReadStep(r, now)
         \/ (At(r, "save") \/ At(r, "delete")) /\ \E result \in {"ok", "error"} : now = Answers(r, result)
  PROVE  \A id \in Ids, spec \in AgentSpec : MadeBy(id, spec) => MadeNext(id, spec)
<1>0. req[r] \in Request /\ LocalInv(req[r])
  BY LocalInvs DEF TypeInv, TypeOK
<1>1. ASSUME req[r].op = "create"
      PROVE  now.op = "create" /\ now.id = req[r].id /\ now.spec = req[r].spec
  <2>1. ~At(r, "new") /\ ~At(r, "lookup")
    BY <1>0, <1>1 DEF LocalInv, At
  <2>2. CASE ReadStep(r, now)
    BY <1>1, <2>1, <2>2, ReadStepShape
  <2>3. CASE \E result \in {"ok", "error"} : now = Answers(r, result)
    BY <1>0, <1>1, <2>3 DEF Answers, Request
  <2>4. QED
    BY <2>1, <2>2, <2>3 DEF FirstStep
<1>2. QED
  BY <1>1 DEF MadeBy, MadeNext

\* An effect leaves what others are about to save.
LEMMA SavingStays ==
  ASSUME TypeInv, LostInv, NEW r \in Requests, NEW now \in Request, NEW contents \in Contents,
         EffectStep(r, now, contents), req'[r] = now, \A q \in Requests \ {r} : req'[q] = req[q],
         \A id \in Ids, spec \in AgentSpec : MadeBy(id, spec) => MadeNext(id, spec)
  PROVE  SavingIsMade'
<1> SUFFICES ASSUME NEW q \in Requests, At(q, "save")'
             PROVE  /\ MadeBy(req[q].id, req[q].spec)'
                    /\ req'[q].op = "update" => req'[q].spec.by = q
  BY DEF SavingIsMade
<1>0. req[r] \in Request
  BY DEF TypeInv, TypeOK
<1>1. now.pc = "done"
  BY <1>0 DEF EffectStep, Answers, Request
<1>2. q # r /\ req'[q] = req[q] /\ At(q, "save")
  BY <1>1 DEF At
<1>3. req[q].spec \in AgentSpec /\ req[q].id \in Ids
  BY <1>2 DEF TypeInv, TypeOK, Request
<1>4. MadeBy(req[q].id, req[q].spec) /\ (req[q].op = "update" => req[q].spec.by = q)
  BY <1>2 DEF LostInv, SavingIsMade
<1>5. QED
  BY <1>2, <1>3, <1>4 DEF MadeBy, MadeNext

\* A step of a request loses no agent.
LEMMA LostStep ==
  ASSUME TypeInv, LostInv, NEW r \in Requests, Step(r)
  PROVE  LostInv'
<1> DEFINE own == req[r].id
<1>0. /\ TypeOK /\ req[r] \in Request /\ own \in Ids /\ kind \in Repositories
      /\ store[kind] \in Contents /\ ideal[kind] \in Contents /\ LocalInv(req[r])
  BY LocalInvs DEF TypeInv, TypeOK, Request
<1>1. PICK now \in Request, contents \in Contents : StepGoes(r, now, contents)
  BY StepGoing
<1>2. /\ req'[r] = now /\ \A q \in Requests \ {r} : req'[q] = req[q]
      /\ kind' = kind /\ store'[kind] = contents
      /\ \A k \in Repositories \ {kind} : store'[k] = store[k]
  BY <1>0, <1>1, GoesFacts DEF StepGoes
<1>3. \A id \in Ids, spec \in AgentSpec : MadeBy(id, spec) => MadeNext(id, spec)
  BY <1>1, <1>2, CreationsStay DEF StepGoes, EffectStep
<1>4. \A k \in Repositories, id \in Ids :
        /\ store[k][id] # Absent => store[k][id] \in AgentSpec /\ MadeNext(id, store[k][id])
  BY <1>0, <1>3 DEF TypeOK, Contents, LostInv, StoredIsMade
<1>5. ASSUME At(r, "save")
      PROVE  /\ req[r].spec \in AgentSpec /\ req[r].spec # Absent /\ Written(r) = req[r].spec
             /\ MadeNext(own, req[r].spec)
  <2>1. /\ req[r].spec \in AgentSpec /\ req[r].spec # Absent /\ Written(r) = req[r].spec
    BY <1>0, <1>5 DEF LocalInv, At, Written, Request
  <2>2. MadeBy(own, req[r].spec)
    BY <1>5 DEF LostInv, SavingIsMade
  <2>3. QED
    BY <1>0, <1>3, <2>1, <2>2
<1>6. CASE (FirstStep(r, now) \/ ReadStep(r, now)) /\ contents = store[kind] /\ ideal' = ideal
  <2>1. \A k \in Repositories : store'[k] = store[k]
    BY <1>2, <1>6
  <2>2. StoredIsMade' /\ LastWriterStays'
    BY <1>4, <1>6, <2>1 DEF LostInv, StoredIsMade, LastWriterStays, MadeBy, MadeNext
  <2>3. SavingIsMade'
    <3> SUFFICES ASSUME NEW q \in Requests, At(q, "save")'
                 PROVE  /\ MadeBy(req[q].id, req[q].spec)'
                        /\ req'[q].op = "update" => req'[q].spec.by = q
      BY DEF SavingIsMade
    <3>1. CASE q # r
      <4>1. req'[q] = req[q] /\ At(q, "save")
        BY <1>2, <3>1 DEF At
      <4>2. req[q].spec \in AgentSpec /\ req[q].id \in Ids
        BY <1>0, <4>1 DEF TypeOK, Request
      <4>3. MadeBy(req[q].id, req[q].spec) /\ (req[q].op = "update" => req[q].spec.by = q)
        BY <4>1 DEF LostInv, SavingIsMade
      <4>4. QED
        BY <1>3, <4>1, <4>2, <4>3 DEF MadeBy, MadeNext
    <3>2. CASE q = r /\ FirstStep(r, now)
      BY <1>2, <3>2, FirstStepShape DEF MadeBy, MadeNext, At
    <3>3. CASE q = r /\ ReadStep(r, now)
      <4>1. now.op = "update" /\ store[kind][now.id] \in AgentSpec /\ now.spec = Updated(store[kind][now.id], r)
        BY <1>2, <3>3, ReadStepShape DEF At
      <4>2. now.spec.by = r /\ now.spec.tenant = store[kind][now.id].tenant
        BY <1>0, <4>1, UpdatedType
      <4>3. now.id \in Ids /\ MadeNext(now.id, store[kind][now.id])
        BY <1>0, <1>4, <4>1, AuthoringAssumption DEF Request
      <4>4. PICK c \in Requests : /\ req'[c].op = "create" /\ req'[c].id = now.id
                                  /\ req'[c].spec.tenant = store[kind][now.id].tenant
        BY <4>3 DEF MadeNext
      <4>5. QED
        BY <1>2, <2>1, <3>3, <4>1, <4>2, <4>4 DEF MadeBy, MadeNext
    <3>4. QED
      BY <1>6, <3>1, <3>2, <3>3
  <2>4. QED
    BY <2>2, <2>3 DEF LostInv
<1>7. CASE EffectStep(r, now, contents)
  <2>1. /\ contents = [store[kind] EXCEPT ![own] = Written(r)]
        /\ ideal' = [ideal EXCEPT ![kind][own] = Ideally(r, ideal[kind][own])]
        /\ At(r, "save") \/ At(r, "delete")
    BY <1>7 DEF EffectStep
  <2>2. /\ store'[kind][own] = Written(r) /\ \A id \in Ids \ {own} : store'[kind][id] = store[kind][id]
    BY <1>0, <1>2, <2>1 DEF Contents
  <2>3. /\ ideal'[kind][own] = Ideally(r, ideal[kind][own])
        /\ \A id \in Ids \ {own} : ideal'[kind][id] = ideal[kind][id]
        /\ \A k \in Repositories \ {kind} : ideal'[k] = ideal[k]
    BY <1>0, <2>1 DEF TypeOK, Contents
  <2>4. CASE At(r, "delete")
    <3>1. Written(r) = Absent /\ Ideally(r, ideal[kind][own]) = Absent
      BY <1>0, <2>4 DEF Written, Ideally, LocalInv, At
    <3>2. StoredIsMade' /\ LastWriterStays'
      BY <1>2, <1>4, <2>2, <2>3, <3>1 DEF LostInv, StoredIsMade, LastWriterStays, MadeBy, MadeNext
    <3>3. QED
      BY <1>7, <3>2, SavingStays, <1>1, <1>2, <1>3 DEF LostInv
  <2>5. CASE At(r, "save")
    <3>1. MadeNext(own, store'[kind][own])
      BY <1>5, <2>2, <2>5
    <3>2. StoredIsMade'
      BY <1>2, <1>4, <2>2, <3>1 DEF StoredIsMade, MadeBy, MadeNext
    <3>3. Ideally(r, ideal[kind][own]) # Absent => Ideally(r, ideal[kind][own]).by = req[r].spec.by
      BY <1>0, <2>5 DEF Ideally, LocalInv, At, LostInv, SavingIsMade
    <3>4. LastWriterStays'
      BY <1>2, <1>5, <2>2, <2>3, <2>5, <3>3 DEF LostInv, LastWriterStays
    <3>5. QED
      BY <1>7, <3>2, <3>4, SavingStays, <1>1, <1>2, <1>3 DEF LostInv
  <2>6. QED
    BY <2>1, <2>4, <2>5
<1>8. QED
  BY <1>1, <1>6, <1>7 DEF StepGoes

\* Nor do the catalog, a restart or the clock.
LEMMA LostServer ==
  ASSUME TypeInv, LostInv
  PROVE  /\ \A id \in Cataloged, status \in {"draft", "published"} : Put(id, status) => LostInv'
         /\ \A k \in Kinds : Restart(k) => LostInv'
         /\ Tick => LostInv'
         /\ UNCHANGED vars => LostInv'
<1>1. ASSUME UNCHANGED <<kind, store, req, historyVars>>
      PROVE  LostInv'
  BY <1>1 DEF LostInv, StoredIsMade, SavingIsMade, LastWriterStays, MadeBy, MadeNext, At, historyVars
<1>2. ASSUME NEW k \in Kinds, Restart(k)
      PROVE  LostInv'
  <2>1. /\ store' = [store EXCEPT !["memory"] = Empty] /\ ideal' = [ideal EXCEPT !["memory"] = Empty]
    BY <1>2 DEF Restart
  <2>2. \A q \in Repositories, id \in Ids :
          \/ store'[q][id] = store[q][id] /\ ideal'[q][id] = ideal[q][id]
          \/ store'[q][id] = Absent /\ ideal'[q][id] = Absent
    BY <2>1 DEF TypeInv, TypeOK, Empty
  <2>3. \A r \in Requests :
          /\ req'[r].op = req[r].op /\ req'[r].id = req[r].id /\ req'[r].spec = req[r].spec
          /\ req'[r].pc # "save"
    <3> TAKE r \in Requests
    <3>1. req[r] \in Request
      BY DEF TypeInv, TypeOK
    <3>2. /\ req'[r].pc \in {"new", "done", "gone"}
          /\ req'[r] = req[r] \/ req'[r] = [req[r] EXCEPT !.pc = "gone"]
      BY <1>2, RestartEnds
    <3>3. QED
      BY <3>1, <3>2 DEF Request
  <2>4. StoredIsMade'
    BY <2>2, <2>3 DEF LostInv, StoredIsMade, MadeBy, MadeNext
  <2>5. QED
    BY <2>2, <2>3, <2>4 DEF LostInv, SavingIsMade, LastWriterStays, At
<1>3. QED
  BY <1>1, <1>2 DEF Put, Tick, vars, serverVars

\* However writers overlap, an agent that is not deleted keeps a creator's tenant and
\* the fields of its last writer.
THEOREM NoAgentIsLost == Spec => []AgentsAreNotLost
<1>1. Init => LostInv
  BY DEF Init, Empty, LostInv, StoredIsMade, SavingIsMade, LastWriterStays, At
<1>2. TypeInv /\ LostInv /\ [Next]_vars => LostInv'
  BY LostStep, LostServer DEF Next
<1>3. QED
  BY <1>1, <1>2, InitTypeInv, NextTypeInv, LostInvImplies, PTL DEF Spec

----------------------------------------------------------------------------
(* What requests are told *)

Firsts(rows) == {row[1] : row \in rows}

\* Each row was there during the request, and is the tenant's,
RowsAreTrue(r) ==
  \A row \in req[r].rows : row[2] \in during[r][row[1]] /\ row[2].tenant = req[r].tenant

\* and so is every agent there all the time among them.
RowsAreAll(r) ==
  \A id \in Ids :
    ~req[r].failed /\ Absent \notin during[r][id]
      /\ (\A spec \in during[r][id] : spec.tenant = req[r].tenant) => id \in Firsts(req[r].rows)

AnswerIsHonest(r) ==
  /\ req[r].result \in {"404", "summary"} => Absent \in during[r][req[r].id] \/ req[r].failed
  /\ req[r].op # "list" /\ req[r].result = "ok" => Written(r) \in during[r][req[r].id]

\* While a request is under way, what the repository holds is among what it held.
HonestOf(r) ==
  /\ UnderWay(r) => \A id \in Ids : store[kind][id] \in during[r][id]
  /\ At(r, "catalog") => Absent \in during[r][req[r].id] \/ req[r].failed
  /\ At(r, "done") => AnswerIsHonest(r)
  /\ At(r, "new") \/ At(r, "list") => req[r].rows = {}
  /\ At(r, "merge") \/ (At(r, "done") /\ req[r].op = "list") => RowsAreTrue(r) /\ RowsAreAll(r)
  /\ At(r, "done") /\ req[r].op = "list" => req[r].more \intersect Firsts(req[r].rows) = {}

HonestInv == \A r \in Requests : HonestOf(r)

\* The invariant gives the two properties.
LEMMA HonestInvImplies == HonestInv => AnswersAreHonest /\ ListingIsHonest
BY DEF HonestInv, HonestOf, AnswerIsHonest, RowsAreTrue, RowsAreAll, Firsts,
       AnswersAreHonest, ListingIsHonest

\* Another request's step adds to what was there during this one, and changes nothing
\* of one that has ended.
LEMMA HonestOthers ==
  ASSUME TypeInv, NEW r \in Requests, NEW now \in Request, NEW contents \in Contents,
         Goes(r, now, contents), NEW q \in Requests \ {r}, HonestOf(q)
  PROVE  HonestOf(q)'
<1>0. TypeOK /\ req[q] \in Request
  BY DEF TypeInv, TypeOK
<1>1. /\ req'[q] = req[q] /\ kind' = kind /\ store'[kind] = contents
      /\ \A id \in Ids : during'[q][id] =
           during[q][id] \union (IF UnderWay(q) THEN {contents[id]} ELSE {})
  BY <1>0, GoesFacts
<1>2. /\ \A id \in Ids : during[q][id] \subseteq during'[q][id]
      /\ ~UnderWay(q) => \A id \in Ids : during'[q][id] = during[q][id]
      /\ UnderWay(q) => \A id \in Ids : contents[id] \in during'[q][id]
  BY <1>1
<1>3. /\ UnderWay(q)' = UnderWay(q) /\ \A pc \in Local : At(q, pc)' = At(q, pc)
      /\ Written(q)' = Written(q)
  BY <1>1 DEF UnderWay, At, Written
<1>4. req[q].id \in Ids /\ \A row \in req[q].rows : row[1] \in Ids
  BY <1>0 DEF Request
<1>5. At(q, "catalog")' => Absent \in during'[q][req'[q].id] \/ req'[q].failed
  BY <1>1, <1>2, <1>3, <1>4 DEF HonestOf, Local
<1>6. At(q, "done")' => AnswerIsHonest(q)'
  BY <1>1, <1>2, <1>3, <1>4 DEF HonestOf, AnswerIsHonest, Local
<1>7. RowsAreTrue(q) => RowsAreTrue(q)'
  BY <1>1, <1>2, <1>4 DEF RowsAreTrue
<1>8. RowsAreAll(q) => RowsAreAll(q)'
  BY <1>1, <1>2 DEF RowsAreAll
<1>9. QED
  BY <1>1, <1>2, <1>3, <1>5, <1>6, <1>7, <1>8 DEF HonestOf, Local

\* A request that takes a step goes on telling the truth.
LEMMA HonestOwn ==
  ASSUME TypeInv, NEW r \in Requests, NEW now \in Request, NEW contents \in Contents,
         StepGoes(r, now, contents), HonestOf(r)
  PROVE  HonestOf(r)'
<1> DEFINE own == req[r].id
<1>0. /\ TypeOK /\ req[r] \in Request /\ own \in Ids /\ kind \in Repositories
      /\ store[kind] \in Contents /\ LocalInv(req[r])
  BY LocalInvs DEF TypeInv, TypeOK, Request
<1>1. /\ req'[r] = now /\ kind' = kind /\ store'[kind] = contents
      /\ \A id \in Ids : during'[r][id] = during[r][id] \union {contents[id]}
  BY <1>0, GoesFacts DEF StepGoes
<1>2. \A id \in Ids : store'[kind'][id] \in during'[r][id] /\ during[r][id] \subseteq during'[r][id]
  BY <1>1
<1>3. CASE FirstStep(r, now)
  <2>1. /\ now.pc \in {"save", "list", "lookup"} /\ now.rows = req[r].rows /\ At(r, "new")
    BY <1>3, FirstStepShape DEF FirstStep
  <2>2. req[r].rows = {}
    BY <2>1 DEF HonestOf
  <2>3. QED
    BY <1>1, <1>2, <2>1, <2>2 DEF HonestOf, At
<1>4. CASE ReadStep(r, now) /\ contents = store[kind]
  <2>1. now.op = req[r].op /\ now.id = own /\ now.tenant = req[r].tenant
    BY <1>4, ReadStepShape
  <2>2. CASE /\ At(r, "new") \/ At(r, "save") \/ At(r, "delete")
             /\ now.pc = "done" /\ now.result \in {"refused", "error"}
    <3>1. now.op # "list"
      BY <1>0, <2>1, <2>2 DEF LocalInv, At
    <3>2. QED
      BY <1>1, <2>2, <3>1 DEF HonestOf, AnswerIsHonest, At, UnderWay
  <2>3. CASE /\ now.pc = "done" /\ now.result = "ok" /\ now.op = "get" /\ now.spec = store[kind][now.id]
    <3>1. Written(r)' = store[kind][own]
      BY <1>1, <2>1, <2>3 DEF Written
    <3>2. Written(r)' \in during'[r][own]
      BY <1>0, <1>1, <1>4, <3>1
    <3>3. QED
      BY <1>1, <2>1, <2>3, <3>2 DEF HonestOf, AnswerIsHonest, At, UnderWay
  <2>4. CASE now.pc \in {"save", "delete"}
    BY <1>1, <1>2, <2>4 DEF HonestOf, At
  <2>5. CASE /\ now.failed \/ store[kind][now.id] = Absent
             /\ \/ now.pc = "catalog" /\ now.op = "get"
                \/ now.pc = "done" /\ now.result = "404" /\ At(r, "lookup")
    <3>1. Absent \in during'[r][now.id] \/ now.failed
      BY <1>0, <1>1, <1>4, <2>1, <2>5
    <3>2. now.op # "list"
      BY <1>0, <2>1, <2>5 DEF LocalInv, At
    <3>3. QED
      BY <1>1, <1>2, <2>5, <3>1, <3>2 DEF HonestOf, AnswerIsHonest, At, UnderWay
  <2>6. CASE /\ At(r, "catalog") /\ now.pc = "done" /\ now.result \in {"summary", "404"}
             /\ now.failed = req[r].failed
    <3>1. Absent \in during[r][own] \/ req[r].failed
      BY <2>6 DEF HonestOf
    <3>2. Absent \in during'[r][now.id] \/ now.failed
      BY <1>0, <1>2, <2>1, <2>6, <3>1
    <3>3. now.op # "list"
      BY <1>0, <2>1, <2>6 DEF LocalInv, At
    <3>4. QED
      BY <1>1, <2>6, <3>2, <3>3 DEF HonestOf, AnswerIsHonest, At, UnderWay
  <2>7. CASE now.pc = "merge" /\ now.rows = RowsOf(store[kind], now.tenant)
    <3>1. \A row \in now.rows : \E id \in Ids :
            /\ store[kind][id] # Absent /\ store[kind][id].tenant = now.tenant
            /\ row = <<id, store[kind][id]>>
      BY <2>7 DEF RowsOf
    <3>2. \A id \in Ids : store[kind][id] \in during'[r][id]
      BY <1>1, <1>4
    <3>3. RowsAreTrue(r)'
      BY <1>1, <3>1, <3>2 DEF RowsAreTrue
    <3>4. ASSUME NEW id \in Ids, store[kind][id] # Absent, store[kind][id].tenant = now.tenant
          PROVE  id \in Firsts(now.rows)
      <4>1. <<id, store[kind][id]>> \in now.rows
        BY <2>7, <3>4 DEF RowsOf
      <4>2. QED
        BY <4>1 DEF Firsts
    <3>5. RowsAreAll(r)'
      BY <1>1, <3>2, <3>4 DEF RowsAreAll
    <3>6. QED
      BY <1>1, <1>2, <2>7, <3>3, <3>5 DEF HonestOf, At
  <2>8. CASE At(r, "list") /\ now.pc = "merge" /\ now.failed /\ now.rows = req[r].rows
    <3>1. now.rows = {}
      BY <2>8 DEF HonestOf
    <3>2. RowsAreTrue(r)' /\ RowsAreAll(r)'
      BY <1>1, <2>8, <3>1 DEF RowsAreTrue, RowsAreAll
    <3>3. QED
      BY <1>1, <1>2, <2>8, <3>2 DEF HonestOf, At
  <2>9. CASE /\ At(r, "merge") /\ now.pc = "done" /\ now.op = "list" /\ now.result = "ok"
             /\ now.failed = req[r].failed /\ now.rows = req[r].rows
             /\ now.more \intersect {row[1] : row \in now.rows} = {}
    <3>1. RowsAreTrue(r) /\ RowsAreAll(r)
      BY <2>9 DEF HonestOf
    <3>2. \A row \in req[r].rows : row[1] \in Ids
      BY <1>0 DEF Request
    <3>3. RowsAreTrue(r)'
      BY <1>1, <1>2, <2>1, <2>9, <3>1, <3>2 DEF RowsAreTrue
    <3>4. RowsAreAll(r)'
      BY <1>1, <1>2, <2>1, <2>9, <3>1 DEF RowsAreAll
    <3>5. now.more \intersect Firsts(now.rows) = {}
      BY <2>9 DEF Firsts
    <3>6. QED
      BY <1>1, <2>9, <3>3, <3>4, <3>5 DEF HonestOf, AnswerIsHonest, At, UnderWay
  <2>10. QED
    BY <1>4, <2>2, <2>3, <2>4, <2>5, <2>6, <2>7, <2>8, <2>9, ReadStepShape
<1>5. CASE EffectStep(r, now, contents)
  <2>1. /\ now.pc = "done" /\ now.op = req[r].op /\ now.id = own /\ now.spec = req[r].spec
        /\ now.result \in {"ok", "error"}
    BY <1>0, <1>5 DEF EffectStep, Answers, Request
  <2>2. now.op # "list"
    BY <1>0, <1>5, <2>1 DEF EffectStep, LocalInv, At
  <2>3. Written(r)' = Written(r)
    BY <1>1, <2>1 DEF Written
  <2>4. contents[own] = Written(r)
    BY <1>0, <1>5 DEF EffectStep, Contents
  <2>5. Written(r)' \in during'[r][own]
    BY <1>0, <1>1, <2>3, <2>4
  <2>6. QED
    BY <1>1, <2>1, <2>2, <2>5 DEF HonestOf, AnswerIsHonest, At, UnderWay
<1>6. QED
  BY <1>3, <1>4, <1>5 DEF StepGoes

\* The catalog, a restart and the clock change nothing a request has been told.
LEMMA HonestServer ==
  ASSUME TypeInv, HonestInv
  PROVE  /\ \A id \in Cataloged, status \in {"draft", "published"} : Put(id, status) => HonestInv'
         /\ \A k \in Kinds : Restart(k) => HonestInv'
         /\ Tick => HonestInv'
         /\ UNCHANGED vars => HonestInv'
<1>1. ASSUME UNCHANGED <<kind, store, req, during>>
      PROVE  HonestInv'
  BY <1>1 DEF HonestInv, HonestOf, AnswerIsHonest, RowsAreTrue, RowsAreAll, Written, UnderWay, At
<1>2. ASSUME NEW k \in Kinds, Restart(k)
      PROVE  HonestInv'
  <2> SUFFICES ASSUME NEW r \in Requests PROVE HonestOf(r)'
    BY DEF HonestInv
  <2>1. req'[r].pc \in {"new", "done", "gone"} /\ (req'[r] = req[r] \/ req'[r] = [req[r] EXCEPT !.pc = "gone"])
    BY <1>2, RestartEnds
  <2>2. during' = during /\ req[r] \in Request /\ HonestOf(r)
    BY <1>2 DEF Restart, TypeInv, TypeOK, HonestInv
  <2>3. CASE req'[r].pc = "gone"
    BY <2>3 DEF HonestOf, At, UnderWay
  <2>4. CASE req'[r] = req[r] /\ req[r].pc \in {"new", "done"}
    BY <2>2, <2>4 DEF HonestOf, AnswerIsHonest, RowsAreTrue, RowsAreAll, Written, At, UnderWay
  <2>5. QED
    BY <2>1, <2>2, <2>3, <2>4 DEF Request
<1>3. QED
  BY <1>1, <1>2 DEF Put, Tick, vars, serverVars, historyVars

\* At the start nothing has been told.
LEMMA HonestInit == Init => HonestInv
<1> SUFFICES ASSUME Init, NEW r \in Requests PROVE HonestOf(r)
  BY DEF HonestInv
<1>1. req[r].pc = "new" /\ req[r].rows = {}
  BY DEF Init
<1>2. QED
  BY <1>1 DEF HonestOf, At, UnderWay

\* Every step keeps every request honest.
LEMMA HonestNext == TypeInv /\ HonestInv /\ [Next]_vars => HonestInv'
<1> SUFFICES ASSUME TypeInv, HonestInv, [Next]_vars PROVE HonestInv'
  OBVIOUS
<1>1. ASSUME NEW r \in Requests, Step(r) PROVE HonestInv'
  <2>1. PICK now \in Request, contents \in Contents : StepGoes(r, now, contents)
    BY <1>1, StepGoing
  <2>2. HonestOf(r)'
    BY <2>1, HonestOwn DEF HonestInv
  <2>3. \A q \in Requests \ {r} : HonestOf(q)'
    BY <2>1, HonestOthers DEF HonestInv, StepGoes
  <2>4. QED
    BY <2>2, <2>3 DEF HonestInv
<1>2. QED
  BY <1>1, HonestServer DEF Next

\* What a request is told of an agent was so at some time while it was under way, or a
\* query of its own failed.
THEOREM RequestsAreTold == Spec => []AnswersAreHonest
BY InitTypeInv, NextTypeInv, HonestInit, HonestNext, HonestInvImplies, PTL DEF Spec

\* Listings show what was there all the time, nothing that never was, and nothing twice.
THEOREM ListingsAreTrue == Spec => []ListingIsHonest
BY InitTypeInv, NextTypeInv, HonestInit, HonestNext, HonestInvImplies, PTL DEF Spec
=============================================================================
