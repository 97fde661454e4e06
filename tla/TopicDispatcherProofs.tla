----------------------- MODULE TopicDispatcherProofs -----------------------
(***************************************************************************)
(* Proofs about TopicDispatcher, for any messages, tenants and             *)
(* communities, any capacity of the job channels, any number of failing    *)
(* opens and of losses of the connection.                                  *)
(*                                                                         *)
(* The inductive invariant IInv says where a message is while the process  *)
(* goroutine or a worker has it (Jobs, Hand), that what was accepted is    *)
(* what was executed and what is on its way (AcceptedInOrder), that only a *)
(* worker inside the WaitGroup has open storages (IdleHasNone, Counted),   *)
(* and that the workers and the failed opens together never have more      *)
(* objects of a community than the pool has (PoolNotOverdrawn).            *)
(***************************************************************************)
EXTENDS TopicDispatcher, SequenceTheorems, FiniteSetTheorems, TLAPS

Busy == {"ensure", "import", "answer"}

(* A worker has a message exactly while it executes one. *)
Jobs == \A t \in Tenants : job[t] # Nil <=> worker[t] \in Busy

(* The process goroutine has one exactly between its receive and its send. *)
Hand == inHand # Nil <=> process = "hand"

(* The streamer's mutex belongs to the worker that waits for the broker. *)
OneAnswers == \A t \in Tenants : sender = t <=> worker[t] = "answer"

IdleHasNone == \A t \in Tenants : worker[t] \in Idle => db[t] = {}

Counted ==
  main \in {"closed", "exited"} =>
    \A t \in Tenants : worker[t] # "returned" => t \in uncounted

PoolNotOverdrawn == \A e \in ECs : Taken(e) <= PoolSize

IInv ==
  /\ TypeOK
  /\ Jobs
  /\ Hand
  /\ OneAnswers
  /\ AcceptedInOrder
  /\ IdleHasNone
  /\ Counted
  /\ PoolNotOverdrawn

-----------------------------------------------------------------------------
(* The sequence laws behind the order of the messages: what is on its way  *)
(* of a tenant is (j \o q) \o h, the message being executed, the channel   *)
(* and the message in the process goroutine's hand.                        *)

(* Submit: an accepted message comes last.                                 *)
LEMMA SeqAccept ==
  ASSUME NEW e \in Seq(Messages), NEW j \in Seq(Messages), NEW q \in Seq(Messages),
         NEW m \in Messages
  PROVE  Append(e \o ((j \o q) \o <<>>), m) = e \o ((j \o q) \o <<m>>)
<1>1. j \o q \in Seq(Messages) /\ (j \o q) \o <<>> = j \o q
  BY ConcatProperties, ConcatEmptySeq
<1>2. e \o (j \o q) \in Seq(Messages) /\ <<m>> \in Seq(Messages)
  BY <1>1, ConcatProperties
<1>3. Append(e \o (j \o q), m) = (e \o (j \o q)) \o <<m>>
  BY <1>2, AppendIsConcat
<1> QED
  BY <1>1, <1>2, <1>3, ConcatAssociative, SMTT(30)

(* process: the message goes from the hand to the channel.                 *)
LEMMA SeqHandOff ==
  ASSUME NEW j \in Seq(Messages), NEW q \in Seq(Messages), NEW m \in Messages
  PROVE  (j \o Append(q, m)) \o <<>> = (j \o q) \o <<m>>
<1>1. <<m>> \in Seq(Messages) /\ Append(q, m) = q \o <<m>> /\ Append(q, m) \in Seq(Messages)
  BY AppendIsConcat, AppendProperties
<1>2. (j \o Append(q, m)) \o <<>> = j \o (q \o <<m>>)
  BY <1>1, ConcatProperties, ConcatEmptySeq
<1> QED
  BY <1>1, <1>2, ConcatAssociative

(* The worker takes the first message of its channel.                      *)
LEMMA SeqTake ==
  ASSUME NEW q \in Seq(Messages), q # <<>>, NEW h \in Seq(Messages)
  PROVE  (<<Head(q)>> \o Tail(q)) \o h = (<<>> \o q) \o h
<1>1. Head(q) \in Messages /\ Tail(q) \in Seq(Messages)
  BY HeadTailProperties
<1>2. <<Head(q)>> \o Tail(q) = q
  <2>1. <<Head(q)>> \in Seq(Messages) /\ Len(<<Head(q)>>) = 1 /\ <<Head(q)>>[1] = Head(q)
    BY <1>1
  <2>2. <<Head(q)>> \o Tail(q) \in Seq(Messages)
    BY <1>1, <2>1, ConcatProperties
  <2>3. Len(<<Head(q)>> \o Tail(q)) = Len(q)
    BY <1>1, <2>1, ConcatProperties, HeadTailProperties, EmptySeq, LenProperties
  <2>4. \A i \in 1 .. Len(q) : (<<Head(q)>> \o Tail(q))[i] = q[i]
    BY <1>1, <2>1, ConcatProperties, HeadTailProperties, LenProperties
  <2> QED
    BY <2>2, <2>3, <2>4, SeqEqual
<1> QED
  BY <1>2, ConcatEmptySeq

(* Execute has ended: the message is the last one executed.                *)
LEMMA SeqFinish ==
  ASSUME NEW e \in Seq(Messages), NEW q \in Seq(Messages), NEW h \in Seq(Messages),
         NEW x \in Messages
  PROVE  Append(e, x) \o ((<<>> \o q) \o h) = e \o ((<<x>> \o q) \o h)
<1>1. <<x>> \in Seq(Messages) /\ Append(e, x) = e \o <<x>> /\ <<>> \o q = q
  BY AppendIsConcat, ConcatEmptySeq
<1>2. q \o h \in Seq(Messages) /\ (<<x>> \o q) \o h = <<x>> \o (q \o h)
  BY <1>1, ConcatProperties, ConcatAssociative
<1> QED
  BY <1>1, <1>2, ConcatAssociative, SMTT(30)

-----------------------------------------------------------------------------
(* A job is a message, and so is what the process goroutine hands on. *)
LEMMA BusyHasJob ==
  ASSUME IInv, NEW t \in Tenants, worker[t] \in Busy
  PROVE  job[t] \in Messages /\ EcOf[job[t]] \in ECs
BY DispatcherAssumption DEF IInv, TypeOK, Jobs

(* What the process goroutine has in hand is a message of a tenant.        *)
LEMMA HandHasMessage ==
  ASSUME IInv, process = "hand"
  PROVE  inHand \in Messages /\ TenantOf[inHand] \in Tenants
BY DispatcherAssumption DEF IInv, TypeOK, Hand

(* The number of tenants with an open storage of a community. *)
Openers(e) == {t \in Tenants : e \in db[t]}

(* The storages that are open are finitely many.                           *)
LEMMA OpenersType ==
  ASSUME NEW e \in ECs
  PROVE  /\ IsFiniteSet(Openers(e))
         /\ Cardinality(Openers(e)) \in Nat
         /\ \A t \in Openers(e) : Cardinality(Openers(e)) >= 1
<1>1. IsFiniteSet(Openers(e))
  BY DispatcherAssumption, FS_Subset DEF Openers
<1>2. ASSUME NEW t \in Openers(e) PROVE Cardinality(Openers(e)) # 0
  BY <1>1, <1>2, FS_EmptySet
<1> QED
  BY <1>1, <1>2, FS_CardinalityType

(* The steps keep the types.                                               *)
LEMMA TypeStep == IInv /\ [Next]_vars => TypeOK'
<1> SUFFICES ASSUME IInv, [Next]_vars PROVE TypeOK'
  OBVIOUS
<1> USE DispatcherAssumption
    DEF IInv, TypeOK, brokerVars, processVars, mainVars, storageVars
<1>1. CASE Setup BY <1>1 DEF Setup
<1>2. CASE ConnectionLost
  <2>1. unsent' \subseteq Messages
    BY <1>2 DEF ConnectionLost
  <2>2. losses' \in 0 .. MaxLosses
    BY <1>2 DEF ConnectionLost
  <2> QED
    BY <1>2, <2>1, <2>2 DEF ConnectionLost
<1>3. CASE Reconnect BY <1>3 DEF Reconnect
<1>4. ASSUME NEW m \in Messages, Deliver(m) PROVE TypeOK'
  BY <1>4 DEF Deliver
<1>5. ASSUME NEW m \in Messages, Submit(m) PROVE TypeOK'
  <2>1. TenantOf[m] \in Tenants
    OBVIOUS
  <2>2. accepted' \in [Tenants -> Seq(Messages)]
    BY <1>5, <2>1 DEF Submit
  <2>3. worker' \in [Tenants -> WorkerPCs]
    BY <1>5, <2>1 DEF Submit, GetWorker, WorkerPCs, Idle
  <2> QED
    BY <1>5, <2>2, <2>3 DEF Submit, GetWorker
<1>6. CASE HandOff
  <2>1. inHand \in Messages /\ TenantOf[inHand] \in Tenants
    BY <1>6, HandHasMessage DEF HandOff
  <2>2. queue' \in [Tenants -> Seq(Messages)]
    BY <1>6, <2>1 DEF HandOff
  <2>3. ASSUME NEW t \in Tenants PROVE Len(queue'[t]) <= QueueCap
    <3>1. CASE t = TenantOf[inHand]
      <4>1. queue'[t] = Append(queue[t], inHand) /\ Len(queue[t]) < QueueCap
        BY <1>6, <2>1, <3>1 DEF HandOff
      <4>2. Len(Append(queue[t], inHand)) = Len(queue[t]) + 1 /\ Len(queue[t]) \in Nat
        BY <2>1
      <4> QED
        BY <4>1, <4>2
    <3>2. CASE t # TenantOf[inHand]
      BY <1>6, <3>2 DEF HandOff
    <3> QED
      BY <3>1, <3>2
  <2> QED
    BY <1>6, <2>2, <2>3 DEF HandOff
<1>7. CASE ProcessQuits BY <1>7 DEF ProcessQuits
<1>8. ASSUME NEW t \in Tenants, StartWorker(t) PROVE TypeOK'
  BY <1>8 DEF StartWorker, WorkerPCs
<1>9. ASSUME NEW t \in Tenants, TakeJob(t) PROVE TypeOK'
  <2>1. Head(queue[t]) \in Messages /\ Tail(queue[t]) \in Seq(Messages)
    BY <1>9 DEF TakeJob
  <2>2. Len(Tail(queue[t])) <= QueueCap
    <3>1. Len(Tail(queue[t])) = Len(queue[t]) - 1 /\ Len(queue[t]) \in Nat
      BY <1>9, HeadTailProperties DEF TakeJob
    <3> QED
      BY <3>1
  <2> QED
    BY <1>9, <2>1, <2>2 DEF TakeJob, WorkerPCs
<1>10. ASSUME NEW t \in Tenants, job[t] \in Messages, Finish(t)
       PROVE  /\ worker' \in [Tenants -> WorkerPCs]
              /\ job' \in [Tenants -> Messages \cup {Nil}]
              /\ armed' \in [Tenants -> BOOLEAN]
              /\ executed' \in [Tenants -> Seq(Messages)]
  <2>1. Append(executed[t], job[t]) \in Seq(Messages)
    BY <1>10
  <2> QED
    BY <1>10, <2>1 DEF Finish, WorkerPCs
<1>11. ASSUME NEW t \in Tenants, Discard(t) PROVE TypeOK'
  <2>1. job[t] \in Messages
    BY <1>11, BusyHasJob DEF Discard, At, Busy
  <2> QED
    BY <1>10, <1>11, <2>1 DEF Discard
<1>12. ASSUME NEW t \in Tenants, Reuse(t) PROVE TypeOK'
  BY <1>12 DEF Reuse, WorkerPCs
<1>13. ASSUME NEW t \in Tenants, Open(t) PROVE TypeOK'
  <2>1. EcOf[job[t]] \in ECs
    BY <1>13, BusyHasJob DEF Open, CallsOpen, At, Busy
  <2> QED
    BY <1>13, <2>1 DEF Open, WorkerPCs
<1>14. ASSUME NEW t \in Tenants, OpenFails(t) PROVE TypeOK'
  <2>1. job[t] \in Messages /\ EcOf[job[t]] \in ECs
    BY <1>14, BusyHasJob DEF OpenFails, CallsOpen, At, Busy
  <2>2. gone' \in [ECs -> 0 .. PoolSize] /\ faults' \in 0 .. MaxFaults
    <3>1. CASE t \in Refused
      BY <1>14, <3>1 DEF OpenFails
    <3>2. CASE t \notin Refused
      <4> DEFINE Lost == db[t] \cup {EcOf[job[t]]}
      <4>1. /\ gone' = [e \in ECs |-> gone[e] + IF e \in Lost THEN 1 ELSE 0]
            /\ faults < MaxFaults /\ faults' = faults + 1
            /\ Taken(EcOf[job[t]]) < PoolSize
        BY <1>14, <3>2 DEF OpenFails, CallsOpen
      <4>2. ASSUME NEW e \in Lost, e \in ECs PROVE gone[e] + 1 <= PoolSize
        <5>1. gone[e] \in Nat /\ Cardinality(Openers(e)) \in Nat
          BY <4>2, OpenersType
        <5>2. Taken(e) = gone[e] + Cardinality(Openers(e)) /\ Taken(e) <= PoolSize
          BY <4>2 DEF Taken, Openers, PoolNotOverdrawn
        <5>3. CASE e = EcOf[job[t]]
          BY <4>1, <5>1, <5>2, <5>3
        <5>4. CASE e \in db[t]
          <6>1. Cardinality(Openers(e)) >= 1
            BY <4>2, <5>4, OpenersType DEF Openers
          <6> QED
            BY <5>1, <5>2, <6>1
        <5> QED
          BY <5>3, <5>4
      <4> HIDE DEF Lost
      <4>3. ASSUME NEW e \in ECs PROVE gone'[e] \in 0 .. PoolSize
        BY <4>1, <4>2, <4>3, SMTT(30)
      <4> QED
        BY <4>1, <4>3
    <3> QED
      BY <3>1, <3>2
  <2> QED
    BY <1>10, <1>14, <2>1, <2>2 DEF OpenFails
<1>15. ASSUME NEW t \in Tenants, Panic(t) PROVE TypeOK'
  BY <1>15 DEF Panic
<1>16. ASSUME NEW t \in Tenants, SendMessage(t) PROVE TypeOK'
  BY <1>16 DEF SendMessage, WorkerPCs
<1>17. ASSUME NEW t \in Tenants, Answered(t) PROVE TypeOK'
  <2>1. job[t] \in Messages
    BY <1>17, BusyHasJob DEF Answered, At, Busy
  <2> QED
    BY <1>10, <1>17, <2>1 DEF Answered
<1>18. ASSUME NEW t \in Tenants, TimerFires(t) PROVE TypeOK'
  BY <1>18 DEF TimerFires, CloseStorages
<1>19. ASSUME NEW t \in Tenants, StopWorker(t) PROVE TypeOK'
  BY <1>19 DEF StopWorker, CloseStorages, WorkerPCs, Idle
<1>20. CASE MainStep
  BY <1>20 DEF MainStep, Cancel, CloseQuit, WaitEnds, Exit
<1>21. CASE UNCHANGED vars
  BY <1>21, SMTT(30) DEF vars
<1> QED
  BY <1>1, <1>2, <1>3, <1>4, <1>5, <1>6, <1>7, <1>8, <1>9, <1>11, <1>12, <1>13, <1>14,
     <1>15, <1>16, <1>17, <1>18, <1>19, <1>20, <1>21
     DEF Next, ProcessStep, WorkerStep, Execute

(* Who has which message, and who has the streamer. *)
LEMMA PossessionStep == IInv /\ [Next]_vars => Jobs' /\ Hand' /\ OneAnswers'
<1> SUFFICES ASSUME IInv, [Next]_vars PROVE Jobs' /\ Hand' /\ OneAnswers'
  OBVIOUS
<1> USE DispatcherAssumption
    DEF IInv, TypeOK, Jobs, Hand, OneAnswers, Busy, brokerVars, processVars, mainVars
<1>1. CASE Setup BY <1>1 DEF Setup
<1>2. CASE ConnectionLost BY <1>2 DEF ConnectionLost
<1>3. CASE Reconnect BY <1>3 DEF Reconnect
<1>4. ASSUME NEW m \in Messages, Deliver(m) PROVE Jobs' /\ Hand' /\ OneAnswers'
  BY <1>4 DEF Deliver
<1>5. ASSUME NEW m \in Messages, Submit(m) PROVE Jobs' /\ Hand' /\ OneAnswers'
  <2>1. m # Nil /\ TenantOf[m] \in Tenants
    OBVIOUS
  <2>2. \A t \in Tenants : worker'[t] # worker[t] => worker[t] = "none" /\ worker'[t] = "new"
    BY <1>5, <2>1 DEF Submit, GetWorker
  <2> QED
    BY <1>5, <2>1, <2>2 DEF Submit
<1>6. CASE HandOff BY <1>6 DEF HandOff
<1>7. CASE ProcessQuits BY <1>7 DEF ProcessQuits
<1>8. ASSUME NEW t \in Tenants, StartWorker(t) PROVE Jobs' /\ Hand' /\ OneAnswers'
  BY <1>8, SMTT(30) DEF StartWorker, At
<1>9. ASSUME NEW t \in Tenants, TakeJob(t) PROVE Jobs' /\ Hand' /\ OneAnswers'
  <2>1. Head(queue[t]) \in Messages
    BY <1>9 DEF TakeJob
  <2> QED
    BY <1>9, <2>1, ZenonT(40) DEF TakeJob, At
<1>10. ASSUME NEW t \in Tenants, worker[t] # "answer", Finish(t), UNCHANGED sender
       PROVE  Jobs' /\ OneAnswers'
  BY <1>10, SMTT(30) DEF Finish
<1>11. ASSUME NEW t \in Tenants, Discard(t) PROVE Jobs' /\ Hand' /\ OneAnswers'
  BY <1>10, <1>11 DEF Discard, At
<1>12. ASSUME NEW t \in Tenants, Reuse(t) PROVE Jobs' /\ Hand' /\ OneAnswers'
  BY <1>12, SMTT(30) DEF Reuse, At
<1>13. ASSUME NEW t \in Tenants, Open(t) PROVE Jobs' /\ Hand' /\ OneAnswers'
  BY <1>13, SMTT(30) DEF Open, CallsOpen, At
<1>14. ASSUME NEW t \in Tenants, OpenFails(t) PROVE Jobs' /\ Hand' /\ OneAnswers'
  BY <1>10, <1>14 DEF OpenFails, CallsOpen, At
<1>15. ASSUME NEW t \in Tenants, Panic(t) PROVE Jobs' /\ Hand' /\ OneAnswers'
  BY <1>15 DEF Panic, storageVars
<1>16. ASSUME NEW t \in Tenants, SendMessage(t) PROVE Jobs' /\ Hand' /\ OneAnswers'
  BY <1>16 DEF SendMessage, At
<1>17. ASSUME NEW t \in Tenants, Answered(t) PROVE Jobs' /\ Hand' /\ OneAnswers'
  BY <1>17 DEF Answered, Finish, At
<1>18. ASSUME NEW t \in Tenants, TimerFires(t) PROVE Jobs' /\ Hand' /\ OneAnswers'
  BY <1>18 DEF TimerFires
<1>19. ASSUME NEW t \in Tenants, StopWorker(t) PROVE Jobs' /\ Hand' /\ OneAnswers'
  BY <1>19, SMTT(30) DEF StopWorker, At
<1>20. CASE MainStep
  BY <1>20 DEF MainStep, Cancel, CloseQuit, WaitEnds, Exit
<1>21. CASE UNCHANGED vars
  BY <1>21 DEF vars
<1> QED
  BY <1>1, <1>2, <1>3, <1>4, <1>5, <1>6, <1>7, <1>8, <1>9, <1>11, <1>12, <1>13, <1>14,
     <1>15, <1>16, <1>17, <1>18, <1>19, <1>20, <1>21
     DEF Next, ProcessStep, WorkerStep, Execute

-----------------------------------------------------------------------------
(* The order of the messages: a step either leaves the five variables      *)
(* alone, or moves one message one place on.                               *)

Doing(t) == IF job[t] = Nil THEN <<>> ELSE <<job[t]>>
Holding(t) == IF inHand # Nil /\ TenantOf[inHand] = t THEN <<inHand>> ELSE <<>>

(* The messages of a tenant in progress, in the order of acceptance.       *)
LEMMA InProgressIs ==
  ASSUME IInv, NEW t \in Tenants
  PROVE  /\ InProgress(t) = (Doing(t) \o queue[t]) \o Holding(t)
         /\ accepted[t] = executed[t] \o ((Doing(t) \o queue[t]) \o Holding(t))
         /\ executed[t] \in Seq(Messages) /\ queue[t] \in Seq(Messages)
         /\ Doing(t) \in Seq(Messages) /\ Holding(t) \in Seq(Messages)
<1>1. InProgress(t) = (Doing(t) \o queue[t]) \o Holding(t)
  BY DEF InProgress, Doing, Holding
<1>2. Doing(t) \in Seq(Messages) /\ Holding(t) \in Seq(Messages)
  BY DEF IInv, TypeOK, Doing, Holding
<1> QED
  BY <1>1, <1>2 DEF IInv, AcceptedInOrder, TypeOK

(* A step that moves no message keeps the order.                           *)
LEMMA OrderFrame ==
  ASSUME IInv, UNCHANGED <<accepted, executed, queue, job, inHand>>
  PROVE  AcceptedInOrder'
BY DEF IInv, AcceptedInOrder, InProgress

(* A message that a worker has finished was the oldest in progress.        *)
LEMMA OrderFinish ==
  ASSUME IInv, NEW t \in Tenants, worker[t] \in Busy, Finish(t),
         UNCHANGED <<accepted, queue, inHand>>
  PROVE  AcceptedInOrder'
<1>1. job[t] \in Messages /\ job[t] # Nil
  BY BusyHasJob, DispatcherAssumption
<1>2. /\ job' = [job EXCEPT ![t] = Nil]
      /\ executed' = [executed EXCEPT ![t] = Append(@, job[t])]
  BY DEF Finish
<1>3. ASSUME NEW u \in Tenants, u # t
      PROVE  accepted'[u] = executed'[u] \o InProgress(u)'
  <2>1. job'[u] = job[u] /\ executed'[u] = executed[u]
    BY <1>2, <1>3 DEF IInv, TypeOK
  <2> QED
    BY <2>1, <1>3 DEF IInv, AcceptedInOrder, InProgress
<1>4. accepted'[t] = executed'[t] \o InProgress(t)'
  <2>1. job'[t] = Nil /\ executed'[t] = Append(executed[t], job[t])
    BY <1>2 DEF IInv, TypeOK
  <2>2. InProgress(t)' = (<<>> \o queue[t]) \o Holding(t)
    BY <2>1 DEF InProgress, Holding
  <2>3. accepted[t] = executed[t] \o ((<<job[t]>> \o queue[t]) \o Holding(t))
    BY <1>1, InProgressIs DEF Doing
  <2>4. Append(executed[t], job[t]) \o ((<<>> \o queue[t]) \o Holding(t))
          = executed[t] \o ((<<job[t]>> \o queue[t]) \o Holding(t))
    <3>1. /\ executed[t] \in Seq(Messages) /\ queue[t] \in Seq(Messages)
          /\ Holding(t) \in Seq(Messages)
      BY InProgressIs
    <3> QED
      BY <1>1, <3>1, SeqFinish, ZenonT(40)
  <2> QED
    BY <2>1, <2>2, <2>3, <2>4
<1> QED
  BY <1>3, <1>4 DEF AcceptedInOrder

(* Every step of the dispatcher keeps the order of the messages.           *)
LEMMA OrderStep == IInv /\ [Next]_vars => AcceptedInOrder'
<1> SUFFICES ASSUME IInv, [Next]_vars PROVE AcceptedInOrder'
  OBVIOUS
<1>1. CASE \/ Setup \/ ConnectionLost \/ Reconnect \/ ProcessQuits
           \/ \E m \in Messages : Deliver(m)
           \/ \E t \in Tenants : \/ StartWorker(t) \/ Reuse(t) \/ Open(t) \/ Panic(t)
                                 \/ SendMessage(t) \/ TimerFires(t) \/ StopWorker(t)
           \/ MainStep \/ UNCHANGED vars
  <2>1. UNCHANGED <<accepted, executed, queue, job, inHand>>
    BY <1>1 DEF Setup, ConnectionLost, Reconnect, ProcessQuits, Deliver, StartWorker, Reuse,
       Open, Panic, SendMessage, TimerFires, StopWorker, MainStep, Cancel, CloseQuit,
       WaitEnds, Exit, vars, processVars
  <2> QED
    BY <2>1, OrderFrame
<1>2. ASSUME NEW m \in Messages, Submit(m) PROVE AcceptedInOrder'
  <2> DEFINE t == TenantOf[m]
  <2>1. /\ t \in Tenants /\ m # Nil /\ inHand = Nil /\ inHand' = m
        /\ accepted' = [accepted EXCEPT ![t] = Append(@, m)]
        /\ UNCHANGED <<executed, queue, job>>
    BY <1>2, DispatcherAssumption DEF Submit, GetWorker, IInv, Hand
  <2> HIDE DEF t
  <2>2. ASSUME NEW u \in Tenants, u # t
        PROVE  accepted'[u] = executed'[u] \o InProgress(u)'
    <3>1. accepted'[u] = accepted[u]
      BY <2>1, <2>2 DEF IInv, TypeOK
    <3>2. InProgress(u)' = InProgress(u)
      BY <2>1, <2>2 DEF InProgress, t
    <3> QED
      BY <2>1, <3>1, <3>2 DEF IInv, AcceptedInOrder
  <2>3. accepted'[t] = executed'[t] \o InProgress(t)'
    <3>1. accepted'[t] = Append(accepted[t], m)
      BY <2>1 DEF IInv, TypeOK
    <3>2. InProgress(t)' = (Doing(t) \o queue[t]) \o <<m>>
      BY <2>1 DEF InProgress, Doing, t
    <3>3. accepted[t] = executed[t] \o ((Doing(t) \o queue[t]) \o <<>>)
      BY <2>1, InProgressIs DEF Holding
    <3>4. /\ executed[t] \in Seq(Messages) /\ queue[t] \in Seq(Messages)
          /\ Doing(t) \in Seq(Messages)
      BY <2>1, InProgressIs
    <3>5. Append(executed[t] \o ((Doing(t) \o queue[t]) \o <<>>), m)
            = executed[t] \o ((Doing(t) \o queue[t]) \o <<m>>)
      BY <3>4, SeqAccept, ZenonT(40)
    <3> QED
      BY <2>1, <3>1, <3>2, <3>3, <3>5
  <2> QED
    BY <2>2, <2>3 DEF AcceptedInOrder
<1>3. CASE HandOff
  <2>0. inHand \in Messages /\ TenantOf[inHand] \in Tenants /\ inHand # Nil
    BY <1>3, HandHasMessage, DispatcherAssumption DEF HandOff
  <2> PICK t \in Tenants : t = TenantOf[inHand]
    BY <2>0
  <2>1. /\ inHand' = Nil
        /\ queue' = [queue EXCEPT ![t] = Append(@, inHand)]
        /\ UNCHANGED <<accepted, executed, job>>
    BY <1>3 DEF HandOff
  <2>2. ASSUME NEW u \in Tenants, u # t
        PROVE  accepted'[u] = executed'[u] \o InProgress(u)'
    <3>1. queue'[u] = queue[u]
      BY <2>1, <2>2 DEF IInv, TypeOK
    <3>2. InProgress(u)' = InProgress(u)
      BY <2>1, <2>2, <3>1 DEF InProgress
    <3> QED
      BY <2>1, <3>2 DEF IInv, AcceptedInOrder
  <2>3. accepted'[t] = executed'[t] \o InProgress(t)'
    <3>1. queue'[t] = Append(queue[t], inHand)
      BY <2>1 DEF IInv, TypeOK
    <3>2. InProgress(t)' = (Doing(t) \o Append(queue[t], inHand)) \o <<>>
      BY <2>1, <3>1 DEF InProgress, Doing
    <3>3. accepted[t] = executed[t] \o ((Doing(t) \o queue[t]) \o <<inHand>>)
      BY <2>0, InProgressIs DEF Holding
    <3>4. (Doing(t) \o Append(queue[t], inHand)) \o <<>> = (Doing(t) \o queue[t]) \o <<inHand>>
      BY <2>0, InProgressIs, SeqHandOff, ZenonT(40)
    <3> QED
      BY <2>1, <3>2, <3>3, <3>4
  <2> QED
    BY <2>2, <2>3 DEF AcceptedInOrder
<1>4. ASSUME NEW t \in Tenants, TakeJob(t) PROVE AcceptedInOrder'
  <2>1. /\ job[t] = Nil /\ queue[t] # <<>>
        /\ job' = [job EXCEPT ![t] = Head(queue[t])]
        /\ queue' = [queue EXCEPT ![t] = Tail(@)]
        /\ UNCHANGED <<accepted, executed, inHand>>
    BY <1>4 DEF TakeJob, At, IInv, Jobs, Busy, processVars
  <2>2. ASSUME NEW u \in Tenants, u # t
        PROVE  accepted'[u] = executed'[u] \o InProgress(u)'
    <3>1. job'[u] = job[u] /\ queue'[u] = queue[u]
      BY <2>1, <2>2 DEF IInv, TypeOK
    <3>2. inHand' = inHand
      BY <2>1
    <3>3. InProgress(u)' = InProgress(u)
      BY <3>1, <3>2 DEF InProgress
    <3> QED
      BY <2>1, <3>3 DEF IInv, AcceptedInOrder
  <2>3. accepted'[t] = executed'[t] \o InProgress(t)'
    <3>1. job'[t] = Head(queue[t]) /\ queue'[t] = Tail(queue[t])
      BY <2>1 DEF IInv, TypeOK
    <3>2. Head(queue[t]) # Nil
      <4>1. queue[t] \in Seq(Messages)
        BY InProgressIs
      <4>2. Head(queue[t]) \in Messages
        BY <2>1, <4>1, HeadTailProperties
      <4> QED
        BY <4>2, DispatcherAssumption
    <3>3. InProgress(t)' = (<<Head(queue[t])>> \o Tail(queue[t])) \o Holding(t)
      BY <2>1, <3>1, <3>2 DEF InProgress, Holding
    <3>4. accepted[t] = executed[t] \o ((<<>> \o queue[t]) \o Holding(t))
      BY <2>1, InProgressIs DEF Doing
    <3> QED
      BY <2>1, <3>3, <3>4, InProgressIs, SeqTake
  <2> QED
    BY <2>2, <2>3 DEF AcceptedInOrder
<1>5. ASSUME NEW t \in Tenants, Discard(t) \/ OpenFails(t) \/ Answered(t)
      PROVE  AcceptedInOrder'
  <2>1. worker[t] \in Busy /\ Finish(t) /\ UNCHANGED <<accepted, queue, inHand>>
    BY <1>5 DEF Discard, OpenFails, CallsOpen, Answered, At, Busy, processVars
  <2> QED
    BY <2>1, OrderFinish
<1> QED
  BY <1>1, <1>2, <1>3, <1>4, <1>5 DEF Next, ProcessStep, WorkerStep, Execute

-----------------------------------------------------------------------------
(* The open storages. *)

(* A worker lets go of its storages before it ends (closeDB, Run).         *)
LEMMA StoragesStep == IInv /\ [Next]_vars => IdleHasNone' /\ Counted'
<1> SUFFICES ASSUME IInv, [Next]_vars PROVE IdleHasNone' /\ Counted'
  OBVIOUS
<1> USE DispatcherAssumption
    DEF IInv, TypeOK, IdleHasNone, Counted, Idle, brokerVars, processVars, mainVars,
        storageVars
<1>1. CASE Setup BY <1>1 DEF Setup
<1>2. CASE ConnectionLost BY <1>2 DEF ConnectionLost
<1>3. CASE Reconnect BY <1>3 DEF Reconnect
<1>4. ASSUME NEW m \in Messages, Deliver(m) PROVE IdleHasNone' /\ Counted'
  BY <1>4 DEF Deliver
<1>5. ASSUME NEW m \in Messages, Submit(m) PROVE IdleHasNone' /\ Counted'
  <2>1. UNCHANGED <<db, main, uncounted>>
    BY <1>5 DEF Submit
  <2>2. TenantOf[m] \in Tenants
    OBVIOUS
  <2>3. \A t \in Tenants :
          worker'[t] # worker[t] => worker[t] = "none" /\ worker'[t] = "new"
    BY <1>5, <2>2 DEF Submit, GetWorker
  <2>4. IdleHasNone'
    BY <2>1, <2>3
  <2>5. Counted'
    BY <2>1, <2>3
  <2> QED
    BY <2>4, <2>5
<1>6. CASE HandOff BY <1>6 DEF HandOff
<1>7. CASE ProcessQuits BY <1>7 DEF ProcessQuits
<1>8. ASSUME NEW t \in Tenants, StartWorker(t) PROVE IdleHasNone' /\ Counted'
  BY <1>8 DEF StartWorker, At
<1>9. ASSUME NEW t \in Tenants, TakeJob(t) PROVE IdleHasNone' /\ Counted'
  BY <1>9 DEF TakeJob, At
<1>10. ASSUME NEW t \in Tenants, worker[t] \in Busy, Finish(t), UNCHANGED mainVars,
              \A u \in Tenants : db'[u] = db[u] \/ db'[u] = {}
       PROVE  IdleHasNone' /\ Counted'
  BY <1>10 DEF Finish, Busy
<1>11. ASSUME NEW t \in Tenants, Discard(t) PROVE IdleHasNone' /\ Counted'
  BY <1>10, <1>11 DEF Discard, At, Busy
<1>12. ASSUME NEW t \in Tenants, Reuse(t) PROVE IdleHasNone' /\ Counted'
  BY <1>12 DEF Reuse, At
<1>13. ASSUME NEW t \in Tenants, Open(t) PROVE IdleHasNone' /\ Counted'
  BY <1>13 DEF Open, CallsOpen, At
<1>14. ASSUME NEW t \in Tenants, OpenFails(t) PROVE IdleHasNone' /\ Counted'
  BY <1>10, <1>14 DEF OpenFails, CallsOpen, At, Busy
<1>15. ASSUME NEW t \in Tenants, Panic(t) PROVE IdleHasNone' /\ Counted'
  BY <1>15 DEF Panic
<1>16. ASSUME NEW t \in Tenants, SendMessage(t) PROVE IdleHasNone' /\ Counted'
  BY <1>16 DEF SendMessage, At
<1>17. ASSUME NEW t \in Tenants, Answered(t) PROVE IdleHasNone' /\ Counted'
  BY <1>10, <1>17 DEF Answered, At, Busy
<1>18. ASSUME NEW t \in Tenants, TimerFires(t) PROVE IdleHasNone' /\ Counted'
  BY <1>18 DEF TimerFires, CloseStorages, At
<1>19. ASSUME NEW t \in Tenants, StopWorker(t) PROVE IdleHasNone' /\ Counted'
  BY <1>19 DEF StopWorker, CloseStorages, At
<1>20. CASE MainStep
  BY <1>20 DEF MainStep, Cancel, CloseQuit, WaitEnds, Exit
<1>21. CASE UNCHANGED vars
  BY <1>21 DEF vars
<1> QED
  BY <1>1, <1>2, <1>3, <1>4, <1>5, <1>6, <1>7, <1>8, <1>9, <1>11, <1>12, <1>13, <1>14,
     <1>15, <1>16, <1>17, <1>18, <1>19, <1>20, <1>21
     DEF Next, ProcessStep, WorkerStep, Execute

(* Closing storages gives their objects back. *)
LEMMA FewerOpeners ==
  ASSUME IInv, UNCHANGED gone,
         \A t \in Tenants : db'[t] \subseteq db[t]
  PROVE  PoolNotOverdrawn'
<1> SUFFICES ASSUME NEW e \in ECs PROVE Taken(e)' <= PoolSize
  BY DEF PoolNotOverdrawn
<1> DEFINE Left == {t \in Tenants : e \in db'[t]}
<1>1. Left \subseteq Openers(e)
  BY DEF Openers
<1>2. IsFiniteSet(Openers(e)) /\ Cardinality(Openers(e)) \in Nat
  BY OpenersType
<1>3. IsFiniteSet(Left) /\ Cardinality(Left) <= Cardinality(Openers(e))
  BY <1>1, <1>2, FS_Subset
<1>4. Cardinality(Left) \in Nat
  BY <1>3, FS_CardinalityType
<1>5. Taken(e)' = gone[e] + Cardinality(Left)
  BY DEF Taken
<1>6. gone[e] + Cardinality(Openers(e)) <= PoolSize /\ gone[e] \in Nat /\ PoolSize \in Nat
  BY DispatcherAssumption DEF IInv, TypeOK, PoolNotOverdrawn, Taken, Openers
<1> QED
  BY <1>2, <1>3, <1>4, <1>5, <1>6

(* An open takes an object that is in the channel, and a failed open keeps *)
(* as many from coming back as the worker had.                             *)
LEMMA OverdrawnStep == IInv /\ [Next]_vars => PoolNotOverdrawn'
<1> SUFFICES ASSUME IInv, [Next]_vars PROVE PoolNotOverdrawn'
  OBVIOUS
<1>1. CASE \/ Setup \/ ConnectionLost \/ Reconnect \/ ProcessQuits \/ HandOff
           \/ \E m \in Messages : Deliver(m) \/ Submit(m)
           \/ \E t \in Tenants : \/ StartWorker(t) \/ TakeJob(t) \/ Discard(t) \/ Reuse(t)
                                 \/ Panic(t) \/ SendMessage(t) \/ Answered(t)
           \/ MainStep \/ UNCHANGED vars
  <2>1. UNCHANGED <<db, gone>>
    BY <1>1 DEF Setup, ConnectionLost, Reconnect, ProcessQuits, HandOff, Deliver, Submit,
       StartWorker, TakeJob, Discard, Reuse, Panic, SendMessage, Answered, MainStep, Cancel,
       CloseQuit, WaitEnds, Exit, vars, storageVars
  <2> QED
    BY <2>1, FewerOpeners
<1>2. ASSUME NEW t \in Tenants, TimerFires(t) \/ StopWorker(t) PROVE PoolNotOverdrawn'
  <2>1. UNCHANGED gone /\ \A u \in Tenants : db'[u] \subseteq db[u]
    BY <1>2 DEF TimerFires, StopWorker, CloseStorages, IInv, TypeOK
  <2> QED
    BY <2>1, FewerOpeners
<1>3. ASSUME NEW t \in Tenants, Open(t) PROVE PoolNotOverdrawn'
  <2>1. /\ EcOf[job[t]] \in ECs /\ EcOf[job[t]] \notin db[t] /\ Taken(EcOf[job[t]]) < PoolSize
        /\ UNCHANGED gone
        /\ db' = [db EXCEPT ![t] = @ \cup {EcOf[job[t]]}]
    BY <1>3, BusyHasJob DEF Open, CallsOpen, At, Busy
  <2> SUFFICES ASSUME NEW e \in ECs PROVE Taken(e)' <= PoolSize
    BY DEF PoolNotOverdrawn
  <2>2. IsFiniteSet(Openers(e)) /\ Cardinality(Openers(e)) \in Nat
    BY OpenersType
  <2>3. gone[e] \in Nat /\ PoolSize \in Nat /\ Taken(e) = gone[e] + Cardinality(Openers(e))
    BY DispatcherAssumption DEF IInv, TypeOK, Taken, Openers
  <2>4. Taken(e)' = gone[e] + Cardinality(Openers(e)')
    BY <2>1 DEF Taken, Openers
  <2>5. CASE e = EcOf[job[t]]
    <3>1. Openers(e)' = Openers(e) \cup {t} /\ t \notin Openers(e)
      BY <2>1, <2>5 DEF Openers, IInv, TypeOK
    <3>2. Cardinality(Openers(e)') = Cardinality(Openers(e)) + 1
      BY <2>2, <3>1, FS_AddElement
    <3> QED
      BY <2>1, <2>2, <2>3, <2>4, <2>5, <3>2
  <2>6. CASE e # EcOf[job[t]]
    <3>1. Openers(e)' = Openers(e)
      BY <2>1, <2>6 DEF Openers, IInv, TypeOK
    <3> QED
      BY <2>3, <2>4, <3>1 DEF IInv, PoolNotOverdrawn
  <2> QED
    BY <2>5, <2>6
<1>4. ASSUME NEW t \in Tenants, OpenFails(t) PROVE PoolNotOverdrawn'
  <2>1. EcOf[job[t]] \in ECs /\ EcOf[job[t]] \notin db[t] /\ db' = [db EXCEPT ![t] = {}]
    BY <1>4, BusyHasJob DEF OpenFails, CallsOpen, At, Busy
  <2>2. CASE t \in Refused
    <3>1. UNCHANGED gone /\ \A u \in Tenants : db'[u] \subseteq db[u]
      BY <1>4, <2>1, <2>2 DEF OpenFails, IInv, TypeOK
    <3> QED
      BY <3>1, FewerOpeners
  <2>3. CASE t \notin Refused
    <3> DEFINE Lost == db[t] \cup {EcOf[job[t]]}
    <3>1. /\ gone' = [e \in ECs |-> gone[e] + IF e \in Lost THEN 1 ELSE 0]
          /\ Taken(EcOf[job[t]]) < PoolSize
      BY <1>4, <2>3 DEF OpenFails, CallsOpen
    <3> SUFFICES ASSUME NEW e \in ECs PROVE Taken(e)' <= PoolSize
      BY DEF PoolNotOverdrawn
    <3>2. IsFiniteSet(Openers(e)) /\ Cardinality(Openers(e)) \in Nat
      BY OpenersType
    <3>3. /\ gone[e] \in Nat /\ PoolSize \in Nat
          /\ Taken(e) = gone[e] + Cardinality(Openers(e)) /\ Taken(e) <= PoolSize
      BY DispatcherAssumption DEF IInv, TypeOK, Taken, Openers, PoolNotOverdrawn
    <3>4. Taken(e)' = gone'[e] + Cardinality(Openers(e)')
      BY DEF Taken, Openers
    <3>5. CASE e \in db[t]
      <4>1. gone'[e] = gone[e] + 1
        BY <3>1, <3>5
      <4>2. t \in Openers(e) /\ Openers(e)' = Openers(e) \ {t}
        BY <2>1, <3>5 DEF Openers, IInv, TypeOK
      <4>3. Cardinality(Openers(e)') = Cardinality(Openers(e)) - 1
        BY <3>2, <4>2, FS_RemoveElement
      <4> QED
        BY <3>2, <3>3, <3>4, <4>1, <4>3
    <3>6. CASE e \notin db[t]
      <4>1. Openers(e)' = Openers(e)
        BY <2>1, <3>6 DEF Openers, IInv, TypeOK
      <4>2. CASE e = EcOf[job[t]]
        <5>1. gone'[e] = gone[e] + 1
          BY <3>1, <4>2
        <5> QED
          BY <3>1, <3>2, <3>3, <3>4, <4>1, <4>2, <5>1
      <4>3. CASE e # EcOf[job[t]]
        <5>1. gone'[e] = gone[e]
          BY <3>1, <3>3, <3>6, <4>3
        <5> QED
          BY <3>3, <3>4, <4>1, <5>1
      <4> QED
        BY <4>2, <4>3
    <3> QED
      BY <3>5, <3>6
  <2> QED
    BY <2>2, <2>3
<1> QED
  BY <1>1, <1>2, <1>3, <1>4 DEF Next, ProcessStep, WorkerStep, Execute

-----------------------------------------------------------------------------
(* Before the first message.                                               *)
LEMMA InitIInv == Init => IInv
<1> SUFFICES ASSUME Init PROVE IInv
  OBVIOUS
<1> USE DispatcherAssumption DEF Init
<1>1. TypeOK
  <2>1. \A t \in Tenants : Len(queue[t]) <= QueueCap
    <3>1. Len(<<>>) = 0
      BY EmptySeq
    <3> QED
      BY <3>1
  <2>2. /\ accepted \in [Tenants -> Seq(Messages)]
        /\ queue \in [Tenants -> Seq(Messages)]
        /\ executed \in [Tenants -> Seq(Messages)]
    <3>1. <<>> \in Seq(Messages)
      BY EmptySeq
    <3> QED
      BY <3>1
  <2>3. gone \in [ECs -> 0 .. PoolSize] /\ faults \in 0 .. MaxFaults /\ losses \in 0 .. MaxLosses
    OBVIOUS
  <2> QED
    BY <2>1, <2>2, <2>3 DEF TypeOK, WorkerPCs, Idle
<1>2. Jobs /\ Hand /\ OneAnswers
  BY DEF Jobs, Hand, OneAnswers, Busy
<1>3. AcceptedInOrder
  <2>1. <<>> = <<>> \o ((<<>> \o <<>>) \o <<>>)
    BY ConcatEmptySeq
  <2>2. \A t \in Tenants : InProgress(t) = (<<>> \o <<>>) \o <<>>
    BY DEF InProgress
  <2> QED
    BY <2>1, <2>2 DEF AcceptedInOrder
<1>4. IdleHasNone /\ Counted
  BY DEF IdleHasNone, Counted
<1>5. PoolNotOverdrawn
  <2>1. ASSUME NEW e \in ECs PROVE Taken(e) = 0
    <3>1. gone[e] = 0 /\ Openers(e) = {}
      BY DEF Openers
    <3>2. Cardinality({}) = 0
      BY FS_EmptySet
    <3>3. Taken(e) = gone[e] + Cardinality(Openers(e))
      BY DEF Taken, Openers
    <3> QED
      BY <3>1, <3>2, <3>3
  <2> QED
    BY <2>1 DEF PoolNotOverdrawn
<1> QED
  BY <1>1, <1>2, <1>3, <1>4, <1>5 DEF IInv

(* No step of the broker, the process goroutine, a worker or main() leaves *)
(* the inductive invariant.                                                *)
THEOREM Inductive == Spec => []IInv
<1>1. IInv /\ [Next]_vars => IInv'
  BY TypeStep, PossessionStep, OrderStep, StoragesStep, OverdrawnStep DEF IInv
<1> QED
  BY InitIInv, <1>1, PTL DEF Spec

(* The variables of the dispatcher and its workers keep their types; no    *)
(* job channel is filled beyond its capacity.                              *)
THEOREM TypeCorrect == Spec => []TypeOK
<1>1. IInv => TypeOK
  BY DEF IInv
<1> QED
  BY Inductive, <1>1, PTL

(* What Submit took over is executed once and in the order of acceptance,  *)
(* whatever is lost, delivered again, refused or failing.                  *)
THEOREM Order == Spec => []AcceptedInOrder
<1>1. IInv => AcceptedInOrder
  BY DEF IInv
<1> QED
  BY Inductive, <1>1, PTL

(* When ClosePool runs, only a worker that wg.Wait did not know of has an  *)
(* open storage.                                                           *)
THEOREM CloseWaits == Spec => []ClosedBeforePool
<1>1. IInv => ClosedBeforePool
  BY DEF IInv, IdleHasNone, Counted, ClosedBeforePool, Idle
<1> QED
  BY Inductive, <1>1, PTL

(* The storages open in the workers and the objects lost to failed opens   *)
(* are never more than the pool has: an open waits for an object instead.  *)
THEOREM Overdraw == Spec => []PoolNotOverdrawn
<1>1. IInv => PoolNotOverdrawn
  BY DEF IInv
<1> QED
  BY Inductive, <1>1, PTL

=============================================================================
