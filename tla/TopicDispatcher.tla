-------------------------- MODULE TopicDispatcher --------------------------
(***************************************************************************)
(* The MQTT side of the service: mqttclient/dispatcher.go with the storage *)
(* handling of mqttclient/energyExecutor.go, the connection to the broker  *)
(* of mqttclient/mqttClient.go, and the start and the shutdown of          *)
(* server.go.                                                              *)
(*                                                                         *)
(* The MQTT library calls the handler of each message in a goroutine of    *)
(* its own (SetOrderMatters(false)); the handler blocks in Submit until    *)
(* the process goroutine takes the message, looks up the worker of the     *)
(* tenant and sends it into the worker's buffered channel.  A worker       *)
(* executes one message after the other, keeps one open storage per        *)
(* community and closes them after a minute without a message.  All the    *)
(* workers share one streamer, which sends one answer at a time.           *)
(*                                                                         *)
(* The pool of store/ebow is seen through its leases (StorageLease): an    *)
(* open takes an object, a close returns it, a failed open loses it, and   *)
(* an open waits while a community has no object left.                     *)
(***************************************************************************)
EXTENDS Naturals, Sequences, FiniteSets

CONSTANTS
  Messages,   \* what the broker has to deliver
  Tenants,
  ECs,        \* communities
  TenantOf,   \* the tenant in a message's topic
  EcOf,       \* the community in its payload
  Garbled,    \* messages that stand for ones that cannot be decoded too
  Refused,    \* tenants whose name OpenStorage refuses (longer than 8)
  QueueCap,   \* capacity of a worker's channel, 10 in the code
  PoolSize,   \* objects per community, 20 in the code
  MaxFaults,  \* bound: how many opens of a database may fail
  MaxLosses,  \* bound: how often the connection to the broker is lost
  Again,      \* bound: the messages that a loss may have delivered twice
  Nil

ASSUME DispatcherAssumption ==
  /\ Nil \notin Messages \cup Tenants \cup ECs
  /\ IsFiniteSet(Tenants)
  /\ TenantOf \in [Messages -> Tenants]
  /\ EcOf \in [Messages -> ECs] /\ Garbled \subseteq Messages
  /\ Refused \subseteq Tenants
  /\ QueueCap \in Nat \ {0}
  /\ PoolSize \in Nat \ {0}
  /\ Again \subseteq Messages
  /\ MaxFaults \in Nat /\ MaxLosses \in Nat

VARIABLES
  unsent,     \* messages the broker has to deliver, again after a loss
  online,     \* whether there is a connection to the broker
  losses,     \* how often it was lost
  sender,     \* the tenant whose worker holds the streamer's mutex, or Nil
  pending,    \* messages whose handler waits in Submit
  accepted,   \* history: per tenant, the messages Submit has passed on
  process,    \* where the process goroutine is
  inHand,     \* the message process holds
  worker,     \* per tenant, where its worker is
  queue,      \* per tenant, the worker's JobChannel
  job,        \* per tenant, the message its worker executes
  armed,      \* per tenant, whether the worker's timer is running
  db,         \* per tenant, the communities it has an open storage of
  dbNil,      \* per tenant, whether the map of storages is nil
  leaked,     \* per tenant, those whose open storage no map has any more
  executed,   \* history: per tenant, the messages its worker is done with
  gone,       \* per community, the pool objects that never come back
  faults,     \* how many opens have failed
  main,       \* where main() is
  uncounted   \* history: workers not in the WaitGroup when Wait returned

storageVars == <<db, dbNil, leaked, gone, faults>>
brokerVars == <<unsent, online, losses>>
processVars == <<process, inHand>>
mainVars    == <<main, uncounted>>
vars == <<brokerVars, sender, pending, accepted, processVars, worker, queue, job, armed,
          executed, storageVars, mainVars>>

Idle == {"none", "new", "returned"}   \* not in the WaitGroup
WorkerPCs == Idle \cup {"select", "ensure", "import", "answer"}

TypeOK ==
  /\ unsent \subseteq Messages
  /\ online \in BOOLEAN /\ losses \in 0 .. MaxLosses
  /\ sender \in Tenants \cup {Nil}
  /\ pending \subseteq Messages
  /\ accepted \in [Tenants -> Seq(Messages)]
  /\ process \in {"select", "hand", "stopped"}
  /\ inHand \in Messages \cup {Nil}
  /\ worker \in [Tenants -> WorkerPCs]
  /\ queue \in [Tenants -> Seq(Messages)]
  /\ \A t \in Tenants : Len(queue[t]) <= QueueCap
  /\ job \in [Tenants -> Messages \cup {Nil}]
  /\ armed \in [Tenants -> BOOLEAN]
  /\ db \in [Tenants -> SUBSET ECs]
  /\ dbNil \in [Tenants -> BOOLEAN]
  /\ leaked \in [Tenants -> SUBSET ECs]
  /\ executed \in [Tenants -> Seq(Messages)]
  /\ gone \in [ECs -> 0 .. PoolSize]
  /\ faults \in 0 .. MaxFaults
  /\ main \in {"setup", "running", "cancelled", "waiting", "closed", "exited", "crashed"}
  /\ uncounted \subseteq Tenants

Init ==
  /\ unsent = Messages
  /\ online = FALSE /\ losses = 0
  /\ sender = Nil
  /\ pending = {}
  /\ accepted = [t \in Tenants |-> <<>>]
  /\ process = "select"
  /\ inHand = Nil
  /\ worker = [t \in Tenants |-> "none"]
  /\ queue = [t \in Tenants |-> <<>>]
  /\ job = [t \in Tenants |-> Nil]
  /\ armed = [t \in Tenants |-> FALSE]
  /\ db = [t \in Tenants |-> {}]
  /\ dbNil = [t \in Tenants |-> FALSE]
  /\ leaked = [t \in Tenants |-> {}]
  /\ executed = [t \in Tenants |-> <<>>]
  /\ gone = [e \in ECs |-> 0]
  /\ faults = 0
  /\ main = "setup"
  /\ uncounted = {}

Alive == main \notin {"setup", "exited", "crashed"}

(* The context of the workers is done, the quit channel is closed.         *)
Done == main \notin {"setup", "running"}
Quit == main \notin {"setup", "running", "cancelled"}

Elements(s) == {s[i] : i \in DOMAIN s}

(* The objects of a community that are not in its channel.                 *)
Taken(e) == gone[e] + Cardinality({t \in Tenants : e \in db[t]})

-----------------------------------------------------------------------------
(* The connection to the broker.                                           *)

(* SetupMqttDispatcher: the route is there before the connection is.       *)
Setup ==
  /\ main = "setup"
  /\ main' = "running"
  /\ online' = TRUE
  /\ UNCHANGED <<unsent, losses, sender, pending, accepted, processVars, worker,
                 queue, job, armed, executed, storageVars, uncounted>>

(* The session is not a clean one: a message whose handler has not         *)
(* returned is not acknowledged, and the broker delivers it again.         *)
ConnectionLost ==
  /\ Alive
  /\ online /\ losses < MaxLosses
  /\ online' = FALSE
  /\ losses' = losses + 1
  /\ unsent' = unsent \cup (pending \cap Again)
  /\ UNCHANGED <<sender, pending, accepted, processVars, worker, queue, job,
                 armed, executed, storageVars, mainVars>>

(* AutoReconnect.                                                          *)
Reconnect ==
  /\ Alive
  /\ ~online
  /\ online' = TRUE
  /\ UNCHANGED <<unsent, losses, sender, pending, accepted, processVars, worker,
                 queue, job, armed, executed, storageVars, mainVars>>

-----------------------------------------------------------------------------
(* The handler of a message and the process goroutine.                     *)

(* The library calls the handler of a message, which calls Submit.  Of two *)
(* handlers of one message the second is counted when the first is done,   *)
(* as only Submit tells that there are two.                                *)
Deliver(m) ==
  /\ Alive
  /\ online
  /\ m \in unsent \ pending
  /\ unsent' = unsent \ {m}
  /\ pending' = pending \cup {m}
  /\ UNCHANGED <<online, losses, sender, accepted, processVars, worker, queue,
                 job, armed, executed, storageVars, mainVars>>

(* Mutation of GetWorker: the new worker is not stored in the map.         *)
GetWorker_NotStored(t) ==
  /\ worker' = [worker EXCEPT ![t] = "new"]
  /\ queue' = [queue EXCEPT ![t] = <<>>]

(* The worker of the tenant, started if there is none.                     *)
GetWorker(t) ==
  /\ worker' = [worker EXCEPT ![t] = IF @ = "none" THEN "new" ELSE @]
  /\ UNCHANGED queue

(* Submit's send meets the receive in process, which looks the worker up.  *)
Submit(m) ==
  /\ Alive
  /\ process = "select"
  /\ m \in pending
  /\ pending' = pending \ {m}
  /\ accepted' = [accepted EXCEPT ![TenantOf[m]] = Append(@, m)]
  /\ GetWorker(TenantOf[m])
  /\ process' = "hand"
  /\ inHand' = m
  /\ UNCHANGED <<brokerVars, sender, job, armed, executed, storageVars, mainVars>>

(* Mutation of HandOff: a full channel is not waited for. *)
HandOff_NoWait ==
  /\ Alive
  /\ process = "hand"
  /\ LET t == TenantOf[inHand] IN
       queue' = [queue EXCEPT ![t] = Append(@, inHand)]
  /\ process' = "select"
  /\ inHand' = Nil
  /\ UNCHANGED <<brokerVars, sender, pending, accepted, worker, job, armed, executed,
                 storageVars, mainVars>>

(* The send to the worker's channel, which waits while that is full.       *)
HandOff ==
  /\ Alive
  /\ process = "hand"
  /\ LET t == TenantOf[inHand] IN
       /\ Len(queue[t]) < QueueCap
       /\ queue' = [queue EXCEPT ![t] = Append(@, inHand)]
  /\ process' = "select"
  /\ inHand' = Nil
  /\ UNCHANGED <<brokerVars, sender, pending, accepted, worker, job, armed, executed,
                 storageVars, mainVars>>

ProcessQuits ==
  /\ Alive
  /\ process = "select"
  /\ Quit
  /\ process' = "stopped"
  /\ UNCHANGED <<brokerVars, sender, pending, accepted, inHand, worker, queue, job, armed, executed,
                 storageVars, mainVars>>

-----------------------------------------------------------------------------
(* A worker: TenantWorker.Run and TenantEnergyImporter.                    *)

At(t, label) == Alive /\ worker[t] = label

(* Run begins with wg.Add(1) and a new timer.                              *)
StartWorker(t) ==
  /\ At(t, "new")
  /\ worker' = [worker EXCEPT ![t] = "select"]
  /\ armed' = [armed EXCEPT ![t] = TRUE]
  /\ UNCHANGED <<brokerVars, sender, pending, accepted, processVars, queue, job, executed,
                 storageVars, mainVars>>

TakeJob(t) ==
  /\ At(t, "select")
  /\ queue[t] # <<>>
  /\ worker' = [worker EXCEPT ![t] = "ensure"]
  /\ job' = [job EXCEPT ![t] = Head(queue[t])]
  /\ queue' = [queue EXCEPT ![t] = Tail(@)]
  /\ UNCHANGED <<brokerVars, sender, pending, accepted, processVars, armed, executed, storageVars,
                 mainVars>>

(* Execute returns to Run, which resets the timer.                         *)
Finish(t) ==
  /\ worker' = [worker EXCEPT ![t] = "select"]
  /\ job' = [job EXCEPT ![t] = Nil]
  /\ armed' = [armed EXCEPT ![t] = TRUE]
  /\ executed' = [executed EXCEPT ![t] = Append(@, job[t])]

(* decodeMessage returned nil.                                             *)
Discard(t) ==
  /\ At(t, "ensure")
  /\ job[t] \in Garbled
  /\ Finish(t)
  /\ UNCHANGED <<brokerVars, sender, pending, accepted, processVars, queue, storageVars, mainVars>>

(* ensureDb finds an open storage.                                         *)
Reuse(t) ==
  /\ At(t, "ensure")
  /\ EcOf[job[t]] \in db[t]
  /\ worker' = [worker EXCEPT ![t] = "import"]
  /\ UNCHANGED <<brokerVars, sender, pending, accepted, processVars, queue, job, armed, executed,
                 storageVars, mainVars>>

(* ensureDb calls OpenStorage, which gets as far as badger.                *)
CallsOpen(t) ==
  /\ At(t, "ensure")
  /\ EcOf[job[t]] \notin db[t]
  /\ t \in Refused \/ Taken(EcOf[job[t]]) < PoolSize

Open(t) ==
  /\ CallsOpen(t) /\ t \notin Refused
  /\ ~dbNil[t]
  /\ db' = [db EXCEPT ![t] = @ \cup {EcOf[job[t]]}]
  /\ worker' = [worker EXCEPT ![t] = "import"]
  /\ UNCHANGED <<brokerVars, sender, pending, accepted, processVars, queue, job, armed, executed,
                 dbNil, leaked, gone, faults, mainVars>>

(* The open failed: the pool has lost the object, and ensureDb sets the    *)
(* whole map to nil: the storages in it stay open, out of reach.  Import   *)
(* returns an error, which Execute logs.                                   *)
OpenFails(t) ==
  /\ CallsOpen(t)
  /\ ~dbNil[t]
  /\ IF t \in Refused
       THEN UNCHANGED <<gone, faults>>
       ELSE /\ faults < MaxFaults
            /\ faults' = faults + 1
            /\ gone' = [e \in ECs |->
                 gone[e] + IF e \in db[t] \cup {EcOf[job[t]]} THEN 1 ELSE 0]
  /\ leaked' = [leaked EXCEPT ![t] = @ \cup db[t]]
  /\ db' = [db EXCEPT ![t] = {}]
  /\ dbNil' = [dbNil EXCEPT ![t] = TRUE]
  /\ Finish(t)
  /\ UNCHANGED <<brokerVars, sender, pending, accepted, processVars, queue, mainVars>>

(* An assignment to an entry of a nil map, whatever OpenStorage returned,  *)
(* ends the process.                                                       *)
Panic(t) ==
  /\ CallsOpen(t)
  /\ dbNil[t]
  /\ main' = "crashed"
  /\ UNCHANGED <<brokerVars, sender, pending, accepted, processVars, worker, queue, job, armed,
                 executed, storageVars, uncounted>>

(* The energies of the message are stored, which EnergyImport describes;   *)
(* errors are logged only.  Then SendMessage takes the mutex of the        *)
(* streamer and publishes the answer,                                      *)
SendMessage(t) ==
  /\ At(t, "import")
  /\ sender = Nil
  /\ sender' = t
  /\ worker' = [worker EXCEPT ![t] = "answer"]
  /\ UNCHANGED <<brokerVars, pending, accepted, processVars, queue, job, armed,
                 executed, storageVars, mainVars>>

(* Mutation of Answered: the timer is not reset after a message.           *)
Answered_NoReset(t) ==
  /\ At(t, "answer")
  /\ online
  /\ sender' = Nil
  /\ worker' = [worker EXCEPT ![t] = "select"]
  /\ job' = [job EXCEPT ![t] = Nil]
  /\ executed' = [executed EXCEPT ![t] = Append(@, job[t])]
  /\ UNCHANGED <<brokerVars, pending, accepted, processVars, queue, armed,
                 storageVars, mainVars>>

(* and waits for the broker's acknowledgement: the library sends what is   *)
(* not acknowledged again when it has reconnected.                         *)
Answered(t) ==
  /\ At(t, "answer")
  /\ online
  /\ sender' = Nil
  /\ Finish(t)
  /\ UNCHANGED <<brokerVars, pending, accepted, processVars, queue, storageVars,
                 mainVars>>

(* executor.Close: every storage in the map is closed, and the map is a    *)
(* new one.                                                                *)
CloseStorages(t) ==
  /\ db' = [db EXCEPT ![t] = {}]
  /\ dbNil' = [dbNil EXCEPT ![t] = FALSE]

(* Mutation of TimerFires: the worker ends, and stays in the map.          *)
TimerFires_Returns(t) ==
  /\ At(t, "select")
  /\ armed[t]
  /\ armed' = [armed EXCEPT ![t] = FALSE]
  /\ CloseStorages(t)
  /\ worker' = [worker EXCEPT ![t] = "returned"]
  /\ UNCHANGED <<brokerVars, sender, pending, accepted, processVars, queue, job, executed,
                 leaked, gone, faults, mainVars>>

(* A minute without a message.                                             *)
TimerFires(t) ==
  /\ At(t, "select")
  /\ armed[t]
  /\ armed' = [armed EXCEPT ![t] = FALSE]
  /\ CloseStorages(t)
  /\ UNCHANGED <<brokerVars, sender, pending, accepted, processVars, worker, queue, job, executed,
                 leaked, gone, faults, mainVars>>

(* Mutation of StopWorker: the storages stay open.                         *)
StopWorker_KeepsOpen(t) ==
  /\ At(t, "select")
  /\ Done
  /\ worker' = [worker EXCEPT ![t] = "returned"]
  /\ UNCHANGED <<brokerVars, sender, pending, accepted, processVars, queue, job, armed, executed,
                 storageVars, mainVars>>

(* ctx.Done: what is still in the channel is left there.                   *)
StopWorker(t) ==
  /\ At(t, "select")
  /\ Done
  /\ CloseStorages(t)
  /\ worker' = [worker EXCEPT ![t] = "returned"]
  /\ UNCHANGED <<brokerVars, sender, pending, accepted, processVars, queue, job, armed, executed,
                 leaked, gone, faults, mainVars>>

-----------------------------------------------------------------------------
(* The end of main(): cancel, TopicDispatcher.Close, ClosePool.            *)

Cancel ==
  /\ main = "running"
  /\ main' = "cancelled"
  /\ UNCHANGED <<brokerVars, sender, pending, accepted, processVars, worker, queue, job, armed,
                 executed, storageVars, uncounted>>

CloseQuit ==
  /\ main = "cancelled"
  /\ main' = "waiting"
  /\ UNCHANGED <<brokerVars, sender, pending, accepted, processVars, worker, queue, job, armed,
                 executed, storageVars, uncounted>>

(* Mutation of WaitEnds: wg.Done is forgotten, so that Wait returns only    *)
(* when no worker was ever started.                                        *)
WaitEnds_NeverDone ==
  /\ main = "waiting"
  /\ \A t \in Tenants : worker[t] = "none"
  /\ main' = "closed"
  /\ uncounted' = {}
  /\ UNCHANGED <<brokerVars, sender, pending, accepted, processVars, worker, queue, job, armed,
                 executed, storageVars>>

(* wg.Wait returns when every worker that has called wg.Add has ended.     *)
WaitEnds ==
  /\ main = "waiting"
  /\ \A t \in Tenants : worker[t] \in Idle
  /\ main' = "closed"
  /\ uncounted' = {t \in Tenants : worker[t] # "returned"}
  /\ UNCHANGED <<brokerVars, sender, pending, accepted, processVars, worker, queue, job, armed,
                 executed, storageVars>>

(* ClosePool, and the process ends.                                        *)
Exit ==
  /\ main = "closed"
  /\ main' = "exited"
  /\ UNCHANGED <<brokerVars, sender, pending, accepted, processVars, worker, queue, job, armed,
                 executed, storageVars, uncounted>>

-----------------------------------------------------------------------------
ProcessStep == (\E m \in Messages : Submit(m)) \/ HandOff

Execute(t) ==
  \/ Discard(t) \/ Reuse(t) \/ Open(t) \/ OpenFails(t) \/ Panic(t)
  \/ SendMessage(t) \/ Answered(t)

WorkerStep(t) ==
  \/ StartWorker(t) \/ TakeJob(t) \/ Execute(t)
  \/ TimerFires(t) \/ StopWorker(t)

MainStep == Cancel \/ CloseQuit \/ WaitEnds \/ Exit

Next ==
  \/ Setup \/ ConnectionLost \/ Reconnect
  \/ \E m \in Messages : Deliver(m)
  \/ ProcessStep \/ ProcessQuits
  \/ \E t \in Tenants : WorkerStep(t)
  \/ MainStep

Spec == Init /\ [][Next]_vars

(* A goroutine that can run, runs: one weak fairness for each.  A worker   *)
(* waits in its select for a job, its timer or the context; a minute       *)
(* passes, badger opens, the broker comes back and takes an answer.  As    *)
(* the messages are finitely many, the mutex of the streamer and the two   *)
(* selects need not be fair.  When the process is interrupted is not said: *)
(* Cancel has no fairness.                                                 *)
Fairness ==
  /\ WF_vars(ProcessStep)
  /\ \A t \in Tenants : WF_vars(WorkerStep(t))
  /\ WF_vars(Reconnect)
  /\ WF_vars(CloseQuit \/ WaitEnds \/ Exit)

FairSpec == Spec /\ Fairness

-----------------------------------------------------------------------------
InProgress(t) ==
  (IF job[t] = Nil THEN <<>> ELSE <<job[t]>>)
    \o queue[t]
    \o (IF inHand # Nil /\ TenantOf[inHand] = t THEN <<inHand>> ELSE <<>>)

(* What Submit has taken over, the tenant's worker executes once, one at a *)
(* time and in the order of acceptance: nothing is lost, repeated or       *)
(* overtaken between Inbound, the map of workers and the job channel.  A   *)
(* message the broker delivered twice is executed twice.                   *)
AcceptedInOrder ==
  \A t \in Tenants : accepted[t] = executed[t] \o InProgress(t)

(* When Close has returned and ClosePool runs, the storages in the map of  *)
(* every worker the WaitGroup knew of are closed.  (A worker that had not  *)
(* reached wg.Add, dispatcher.go 193, may still open one, and what a       *)
(* failed open has leaked is open, energyExecutor.go 62.)                  *)
ClosedBeforePool ==
  main \in {"closed", "exited"} =>
    \A t \in Tenants : db[t] # {} => t \in uncounted

(* No community has lost all its objects to failed opens.                  *)
Exhausted == \E e \in ECs : gone[e] = PoolSize

(* While the service runs, a message that was delivered is executed in     *)
(* the end: a worker that is busy or was idle for a minute, a full job     *)
(* channel or an answer of another tenant, and a broker that was away,     *)
(* delay it only.                                                          *)
EveryMessageExecuted ==
  \A m \in Messages :
    (m \in pending) ~>
      (m \in Elements(executed[TenantOf[m]]) \/ Done \/ Exhausted)

(* An idle tenant lets go of its storages ("No message received for 1      *)
(* minute. Close DB", dispatcher.go 205-207): each is closed, or a failed  *)
(* open has cost the pool its object (energyExecutor.go 59-62).            *)
StoragesReleased ==
  \A t \in Tenants : \A e \in ECs :
    (e \in db[t]) ~>
      \/ e \notin db[t] /\ (e \in leaked[t] => gone[e] > 0)
      \/ ~Alive \/ Exhausted

(* A shutdown ends: no worker keeps Close waiting.                         *)
ShutdownEnds == Done ~> (~Alive \/ Exhausted)

=============================================================================
