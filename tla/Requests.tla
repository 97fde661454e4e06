------------------------------ MODULE Requests ------------------------------
(***************************************************************************)
(* The HTTP side of the service and its end: the handlers of rest/ and     *)
(* graph/ behind the guards of middleware/, the calls they make to         *)
(* services/, store/, calculation/ and excel/, and main() of server.go, on *)
(* the connection pool of ConnectionPool.                                  *)
(*                                                                         *)
(* Each request is served by a goroutine of its own: its token is checked, *)
(* its parameters are read, one handler asks the master-data service for   *)
(* meters, a storage is opened, queried and closed again by a deferred     *)
(* call, and then the answer is written.  A panic in a query unwinds       *)
(* through the deferred call to net/http, which drops the connection.      *)
(* The workers of the MQTT dispatcher keep a storage open between          *)
(* messages.  On a signal main() waits for the requests, then for the      *)
(* workers in the WaitGroup, and closes the pool.  A worker enters the     *)
(* WaitGroup in its own goroutine, which may be too late.                  *)
(***************************************************************************)
EXTENDS ConnectionPool, Naturals, Sequences

CONSTANT
  Handlers   \* the handlers of Routes that requests are made to

VARIABLES
  req,       \* per goroutine, the handler of its request
  phase,     \* how far it has come, or how far a worker has
  did,       \* history: what happened to it
  answers,   \* the statuses written as its answer
  server     \* main(): serving, draining requests, waiting for the workers,
             \* or done with waiting

requestVars == <<req, phase, did, answers>>
allVars == <<vars, requestVars, server>>

-----------------------------------------------------------------------------
(* The guards, by the statuses they refuse a request with.                 *)
ProtectApp == {"Forbidden", "Unauthorized"}
ProtectApi == {"Forbidden", "BadRequest"}
GQLProtect == {"Forbidden", "Unauthorized"}

(* How the query of an open storage may end: with or without rows in the   *)
(* period, with an error, or with a panic, which unwinds through it.       *)
EngineQuery == {"rows", "noRows", "failed", "panic"}

(* What that is to the handler: a period without rows is an empty result   *)
(* to most queries, and an error to the export.                            *)
EmptyIs(outcome) ==
  {CASE end = "rows" -> "read" [] end = "noRows" -> outcome [] OTHER -> end : end \in EngineQuery}

EnergyReportV2 == EmptyIs("read")
EnergySummary == EmptyIs("read")
QueryRawData == EmptyIs("read")
QueryIntraDayReport == EmptyIs("read")
QueryLoadCurveReport == EmptyIs("read")
QueryCombinedReports == EmptyIs("read")
QueryMetaData == EmptyIs("read")
GetLastEnergyEntry == EmptyIs("failed")
ExportEnergyToExcel == EmptyIs("failed")

(* It passes no participants, which the export dereferences: no mail is    *)
(* ever sent.                                                              *)
ExportEnergyDataToMail == ExportEnergyToExcel \ {"read"}

(* A handler: where its parameters come from, whether it asks for the      *)
(* meters, how its query may end, and what it answers when that fails.     *)
Handler(guard, params, query, onError) ==
  [guard |-> guard, params |-> params, master |-> FALSE, ends |-> query, onError |-> onError]

JsonReport(query) == Handler(ProtectApp, "checked", query, <<"BadRequest">>)
fetchRawEnergyV2 == JsonReport(QueryRawData)
fetchIntraDayReportV2 == JsonReport(QueryIntraDayReport)
fetchLoadCurveReportV2 == JsonReport(QueryLoadCurveReport)
fetchCombinedReportV2 == JsonReport(QueryCombinedReports)
fetchSummaryReportV2 == JsonReport(EnergySummary)
exportMeteringData == JsonReport(ExportEnergyDataToMail)
fetchEnergyReportV2 ==
  Handler(ProtectApp, "checked", EnergyReportV2, <<"InternalServerError">>)
exportReport ==
  Handler(ProtectApp, "checked", ExportEnergyToExcel, <<"InternalServerError">>)
getLoadCurveReportV2 ==
  Handler(ProtectApp, "url", QueryLoadCurveReport, <<"BadRequest">>)
getCombinedReportV2 ==
  Handler(ProtectApp, "url", QueryCombinedReports, <<"BadRequest">>)
queryMetaData == Handler(ProtectApp, "none", QueryMetaData, <<"BadRequest">>)
queryRawData ==
  [Handler(ProtectApi, "checked", QueryRawData, <<"BadRequest">>) EXCEPT !.master = TRUE]

(* It goes on after it has answered that there is no entry.                *)
lastRecordDate ==
  Handler(ProtectApp, "none", GetLastEnergyEntry, <<"NotFound", "OK">>)

(* gqlgen recovers the panic of a resolver and answers with its errors.    *)
SingleUpload == Handler(GQLProtect, "checked", EmptyIs("read") \ {"panic"}, <<"errors">>)
LastEnergyDate == Handler(GQLProtect, "none", GetLastEnergyEntry \ {"panic"}, <<"errors">>)

(* The routes.                                                             *)
NewRestServer ==
  {fetchEnergyReportV2, queryMetaData, fetchRawEnergyV2, fetchIntraDayReportV2,
   fetchLoadCurveReportV2, getLoadCurveReportV2, fetchCombinedReportV2,
   getCombinedReportV2, fetchSummaryReportV2, lastRecordDate,
   exportMeteringData, exportReport}
InitQueryApiRouter == {queryRawData, [queryMetaData EXCEPT !.guard = ProtectApi]}
Resolvers == {SingleUpload, LastEnergyDate}
Routes == NewRestServer \cup InitQueryApiRouter \cup Resolvers

ASSUME RequestsAssumption == Handlers \subseteq Routes

-----------------------------------------------------------------------------
RequestsInit ==
  /\ Init
  /\ req = [c \in Clients |-> Nil]
  /\ phase = [c \in Clients |-> "free"]
  /\ did = [c \in Clients |-> {}]
  /\ answers = [c \in Clients |-> <<>>]
  /\ server = "serving"

InPhase(c, from, to) ==
  /\ Alive
  /\ phase[c] = from
  /\ phase' = [phase EXCEPT ![c] = to]

Happens(c, what) == did' = [did EXCEPT ![c] = @ \cup {what}]

Reply(c, statuses) == answers' = [answers EXCEPT ![c] = @ \o statuses]

(* The listener accepts a request for a handler of the router.             *)
Accept(c, h) ==
  /\ server = "serving"
  /\ InPhase(c, "free", "received")
  /\ req' = [req EXCEPT ![c] = h]
  /\ UNCHANGED <<vars, did, answers, server>>

(* The guard finds no valid token for the tenant.                          *)
Refuse(c) ==
  /\ InPhase(c, "received", "answered")
  /\ \E s \in req[c].guard : Reply(c, <<s>>)
  /\ Happens(c, "refused")
  /\ UNCHANGED <<vars, req, server>>

-----------------------------------------------------------------------------
(* Parameters.  A request has two of them, of which those in the URL may   *)
(* be absent; nothing in the path of the others needs decoding.            *)
Given(params) ==
  CASE params = "none" -> {<<"good", "good">>}
    [] params = "checked" -> {"good", "bad"} \X {"good", "bad"}
    [] OTHER -> {"none", "good", "bad"} \X {"none", "good", "bad"}

(* A body is decoded as a whole, but the error of parsing the start is     *)
(* replaced by that of parsing the end, if there is one.                   *)
Malformed(params, g) ==
  IF params = "url" /\ g[2] # "none" THEN g[2] = "bad" ELSE "bad" \in {g[1], g[2]}

(* Neither guard nor decoding touches what others see: one step.           *)
ReadParams(c) ==
  /\ InPhase(c, "received", IF req[c].master THEN "master" ELSE "store")
  /\ \E g \in Given(req[c].params) :
       /\ ~Malformed(req[c].params, g)
       /\ IF "bad" \in {g[1], g[2]} THEN Happens(c, "overlooked") ELSE UNCHANGED did
  /\ UNCHANGED <<vars, req, answers, server>>

RejectParams(c) ==
  /\ InPhase(c, "received", "answered")
  /\ \E g \in Given(req[c].params) : Malformed(req[c].params, g)
  /\ Happens(c, "failed")
  /\ Reply(c, <<"BadRequest">>)
  /\ UNCHANGED <<vars, req, server>>

(* RequestActiveMeteringPoints, unless the request names its meters.       *)
MasterAnswers(c) ==
  /\ InPhase(c, "master", "store")
  /\ UNCHANGED <<vars, req, did, answers, server>>

(* The service answers with an error, or not within five seconds.          *)
MasterFails(c) ==
  /\ InPhase(c, "master", "answered")
  /\ Happens(c, "failed")
  /\ Reply(c, <<"BadRequest">>)
  /\ UNCHANGED <<vars, req, server>>

-----------------------------------------------------------------------------
(* OpenStorage, the query, the deferred Close and the answer.              *)
OpenStorage(c, e) ==
  /\ InPhase(c, "store", "query")
  /\ CallGet(c, e)
  /\ UNCHANGED <<req, did, answers, server>>

(* A tenant too long for OpenStorage, or no database from the pool.        *)
StorageMissing(c) ==
  /\ \E from \in {"store", "query"} : InPhase(c, from, "closed")
  /\ pc[c] = "idle"
  /\ Happens(c, "failed")
  /\ UNCHANGED <<vars, req, answers, server>>

(* Mutation of Query: a panic skips the Close. *)
Query_NotDeferred(c) ==
  /\ InPhase(c, "query", "closed")
  /\ pc[c] = "using"
  /\ \E end \in req[c].ends :
       /\ Happens(c, end)
       /\ IF end = "panic" THEN UNCHANGED vars ELSE CallPut(c)
  /\ UNCHANGED <<req, answers, server>>

Query(c) ==
  /\ InPhase(c, "query", "closed")
  /\ CallPut(c)
  /\ \E end \in req[c].ends : Happens(c, end)
  /\ UNCHANGED <<req, answers, server>>

(* Mutation of Respond: the answer is written before the storage is closed. *)
Respond_Early(c) ==
  /\ InPhase(c, "closed", "answered")
  /\ "panic" \notin did[c]
  /\ Reply(c, IF "failed" \in did[c] THEN req[c].onError ELSE <<"OK">>)
  /\ UNCHANGED <<vars, req, did, server>>

(* Mutation of Respond: a failure is answered like a result. *)
Respond_Always(c) ==
  /\ InPhase(c, "closed", "answered")
  /\ pc[c] = "idle"
  /\ "panic" \notin did[c]
  /\ Reply(c, <<"OK">>)
  /\ UNCHANGED <<vars, req, did, server>>

Respond(c) ==
  /\ InPhase(c, "closed", "answered")
  /\ pc[c] = "idle"
  /\ "panic" \notin did[c]
  /\ Reply(c, IF "failed" \in did[c] THEN req[c].onError ELSE <<"OK">>)
  /\ UNCHANGED <<vars, req, did, server>>

(* net/http recovers the panic of a handler and closes the connection.     *)
Abort(c) ==
  /\ InPhase(c, "closed", "answered")
  /\ pc[c] = "idle"
  /\ "panic" \in did[c]
  /\ UNCHANGED <<vars, req, did, answers, server>>

Finish(c) ==
  /\ InPhase(c, "answered", "free")
  /\ req' = [req EXCEPT ![c] = Nil]
  /\ did' = [did EXCEPT ![c] = {}]
  /\ answers' = [answers EXCEPT ![c] = <<>>]
  /\ UNCHANGED <<vars, server>>

-----------------------------------------------------------------------------
(* The process goroutine starts the worker of a tenant for its first       *)
(* message, at any time: its select may prefer a message to the end.       *)
WorkerStarts(c) ==
  /\ InPhase(c, "free", "starting")
  /\ UNCHANGED <<vars, req, did, answers, server>>

(* Run begins with wg.Add, in the goroutine of the worker, which Wait does *)
(* not know of before.                                                     *)
WorkerAdds(c) ==
  /\ InPhase(c, "starting", IF server = "waited" THEN "late" ELSE "worker")
  /\ UNCHANGED <<vars, req, did, answers, server>>

IsWorker(c) == phase[c] \in {"worker", "late"}

(* It opens a storage for the first message of a community, even if its    *)
(* context is done, as its select may prefer a message ...                 *)
WorkerOpens(c, e) ==
  /\ IsWorker(c)
  /\ CallGet(c, e)
  /\ UNCHANGED <<requestVars, server>>

(* ... and closes it when it has had no message for a minute, or its       *)
(* context is done.                                                        *)
WorkerCloses(c) ==
  /\ IsWorker(c)
  /\ CallPut(c)
  /\ UNCHANGED <<requestVars, server>>

(* The context is done.  A tenant gets no second worker.                   *)
WorkerReturns(c) ==
  /\ server \in {"waiting", "waited"}
  /\ \E from \in {"worker", "late"} : InPhase(c, from, "returned")
  /\ pc[c] = "idle"
  /\ UNCHANGED <<vars, req, did, answers, server>>

(* main(): a signal arrives and server.Shutdown begins ...                 *)
Interrupt ==
  /\ server = "serving"
  /\ server' = "draining"
  /\ UNCHANGED <<vars, requestVars>>

NoRequest == {"free", "starting", "worker", "late", "returned"}

(* Mutation of Drained: Shutdown does not wait. *)
Drained_AtOnce ==
  /\ server = "draining"
  /\ server' = "waiting"
  /\ UNCHANGED <<vars, requestVars>>

(* ... and returns when no request is in progress: it is given no          *)
(* deadline.  Then the context of the workers is cancelled ...             *)
Drained ==
  /\ server = "draining"
  /\ \A c \in Clients : phase[c] \in NoRequest
  /\ server' = "waiting"
  /\ UNCHANGED <<vars, requestVars>>

(* ... dispatcher.Close returns when the WaitGroup is empty ...            *)
WaitReturns ==
  /\ server = "waiting"
  /\ \A c \in Clients : phase[c] # "worker"
  /\ server' = "waited"
  /\ UNCHANGED <<vars, requestVars>>

(* ... and the pool is closed, whatever workers that came late are doing.  *)
Stop ==
  /\ server = "waited"
  /\ ClosePoolStep
  /\ UNCHANGED <<requestVars, server>>

(* The steps of Get and Put.                                               *)
PoolStep(c) ==
  /\ GetStep(c) \/ PutStep(c)
  /\ UNCHANGED <<requestVars, server>>

RequestStep(c) ==
  \/ Refuse(c) \/ ReadParams(c) \/ RejectParams(c)
  \/ MasterAnswers(c) \/ MasterFails(c)
  \/ (\E e \in ECs : OpenStorage(c, e)) \/ StorageMissing(c) \/ Query(c)
  \/ Respond(c) \/ Abort(c) \/ Finish(c)

MainStep == Interrupt \/ Drained \/ WaitReturns \/ Stop

WorkerStep(c) ==
  \/ WorkerStarts(c) \/ WorkerAdds(c)
  \/ (\E e \in ECs : WorkerOpens(c, e)) \/ WorkerCloses(c) \/ WorkerReturns(c)

RequestsNext ==
  \/ \E c \in Clients :
       PoolStep(c) \/ (\E h \in Handlers : Accept(c, h)) \/ RequestStep(c) \/ WorkerStep(c)
  \/ MainStep

RequestsSpec == RequestsInit /\ [][RequestsNext]_allVars

(* As in ConnectionPool, a goroutine runs when it can and gets a lock in   *)
(* the end.  A worker's storage is closed in the end, since its timer      *)
(* fires when no message has come for a minute, or the context is done;    *)
(* and select, which chooses at random, does not prefer messages to the    *)
(* context for ever.  main() runs once a signal has come, which need not   *)
(* come.                                                                   *)
RequestsFairSpec ==
  /\ RequestsSpec
  /\ \A c \in Clients :
       /\ SF_allVars(PoolStep(c) \/ RequestStep(c) \/ WorkerAdds(c) \/ WorkerCloses(c))
       /\ SF_allVars(WorkerReturns(c))
  /\ WF_allVars(Drained \/ WaitReturns \/ Stop)

-----------------------------------------------------------------------------
Phases == {"free", "received", "master", "store", "query", "closed", "answered",
           "starting", "worker", "late", "returned"}

RequestsTypeOK ==
  /\ TypeOK
  /\ req \in [Clients -> Handlers \cup {Nil}]
  /\ phase \in [Clients -> Phases]
  /\ \A c \in Clients :
       /\ did[c] \subseteq {"refused", "overlooked", "failed", "read", "panic"}
       /\ Len(answers[c]) <= 2
       /\ pc[c] # "idle" => phase[c] \in {"query", "closed", "worker", "late"}
  /\ server \in {"serving", "draining", "waiting", "waited"}

(* A request that is over has given its storage back, and has one answer,  *)
(* which is OK exactly when its query succeeded.  It has none after a      *)
(* panic, and two when lastRecordDate fails (restServer.go 132-134).  A    *)
(* query never runs for parameters that cannot be parsed, except a start   *)
(* in the URL next to a good end: it is taken as 0 (281-292, 354-365).     *)
OneTrueAnswer ==
  \A c \in Clients : phase[c] = "answered" =>
    /\ obj[c] = Nil
    /\ (answers[c] = <<"OK">>) = ("read" \in did[c])
    /\ Len(answers[c]) =
         CASE "panic" \in did[c] -> 0
           [] req[c] = lastRecordDate /\ "failed" \in did[c] -> 2
           [] OTHER -> 1
    /\ "overlooked" \in did[c] => req[c].params = "url"

(* When main() closes the pool, who is in it, or has a database open, is a *)
(* worker whose wg.Add came after Wait had returned (dispatcher.go 193):   *)
(* no query and no worker that Wait knew of works on a database closed     *)
(* under it, and what is open at the end is theirs (server.go 112-120).    *)
OrderlyShutdown ==
  main # "running" =>
    /\ \A c \in Clients : pc[c] # "idle" => phase[c] = "late"
    /\ \A e \in ECs : live[e] # {} =>
         \E c \in Clients : phase[c] = "late" /\ ec[c] = e

(* Every request that is accepted comes to an end: none waits for ever for *)
(* a pool object, a lock or the master-data service.                       *)
EveryRequestEnds ==
  \A c \in Clients : (phase[c] = "received") ~> (phase[c] = "free")

(* No request, and no goroutine in OpenStorage or Close, is stuck: what is *)
(* begun comes to its end, unless the process ends first around a worker   *)
(* that came late (restServer.go, Pool.Get and Put).                       *)
NothingStuck ==
  /\ EveryRequestEnds
  /\ \A c \in Clients :
       (pc[c] = "getPool") ~> (pc[c] = "idle" \/ (phase[c] = "late" /\ main = "exited"))

(* Once the signal has come the process ends.                              *)
ShutdownCompletes == (server = "draining") ~> (main = "exited")

=============================================================================
