------------------------- MODULE EvalVerdictProofs -------------------------
(***************************************************************************)
(* What becomes of one task, for every set of tasks, messages and          *)
(* processes, every retry limit and any number of mishaps: until one of    *)
(* its deliveries comes back, a task is run once at a time, stores one     *)
(* batch of results, is tried EvalMaxRetry + 1 times, keeps its verdict    *)
(* and is reported as it is stored; and whatever comes back, it is marked  *)
(* failed only after its last retry, and never without a report.           *)
(*                                                                         *)
(* Three invariants are proved one on top of the other, each with one      *)
(* lemma per action: Holding (who works on a delivery holds it), Counted   *)
(* (x-retry counts the runs), Course (where a task stands is where its one *)
(* active message stands).  FInv adds what a failure owes to the channel.  *)
(***************************************************************************)
EXTENDS EvalPipelineProofs

Undisturbed(t) == "redelivered" \notin incidents[t]

(* Handlers outlive their delivery only in a process that lost its eval    *)
(* channel, and then the task has been redelivered.                        *)
Holding ==
    /\ \A p \in Procs, m \in Messages :
         dlq[p][m] # "idle" => Holds(p, m, EvalDLQName)
    /\ \A p \in Procs, m \in Messages :
         handler[p][m] # "idle" =>
           /\ proc[p] # "down"
           /\ proc[p] = "up" \/ Undisturbed(Task(m)) => Holds(p, m, EvalQueueName)

(* What befell a task is not forgotten. *)
Remembered == \A t \in Tasks : incidents[t] \subseteq incidents'[t]

Start(m) == msg[m].at # "unsent" /\ Task(m) \in Tasks /\ msg'[m].body = msg[m].body

LEMMA RememberedStep == ASSUME TypeOK, [Next]_vars PROVE Remembered
  <1> USE DEF history, vars
  <1>1. ASSUME NEW p \in Procs, NEW m \in Messages, NEW what \in Incident,
               Befalls(Task(m), what)
        PROVE  Remembered
      BY <1>1 DEF Befalls, Remembered, TypeOK
  <1>2. ASSUME NEW ms, Redelivered(ms) PROVE Remembered
      BY <1>2 DEF Redelivered, Remembered
  <1>3. CASE incidents' = incidents BY <1>3 DEF Remembered
  <1>4. ASSUME NEW t \in Tasks, Api(t) \/ FatalRequest PROVE Remembered
      BY <1>3, <1>4 DEF Api, CommitTask, RejectTask, PublishTask, OrphanTask, FatalRequest
  <1>5. ASSUME NEW p \in Procs, Dies(p) \/ LoseChannel(p) \/ Restart(p) PROVE Remembered
      BY <1>2, <1>3, <1>5 DEF Dies, LoseChannel, Restart
  <1>6. ASSUME NEW p \in Procs, NEW m \in Messages,
               ProcessMessage(p, m) \/ HandleFailure(p, m)
        PROVE  Remembered
      BY <1>1, <1>3, <1>6
      DEF Incident, ProcessMessage, HandleFailure, ReadRow, SkipDone, ReadFails, RunReturns,
          SaveSuccess, SaveFails, StoreResults, Notify, AckDone, GiveUp, Retry, RetryFails
  <1>7. ASSUME NEW p \in Procs, NEW m \in Messages,
               Deliver(p, m) \/ Spawn(p, m) \/ DlqDeliver(p, m) \/ HandleDLQMessage(p, m)
        PROVE  Remembered
      BY <1>3, <1>7
      DEF Deliver, Spawn, DlqDeliver, HandleDLQMessage, DlqMark, DlqNotify, DlqFails, DlqAck
  <1>8. CASE FatalRequest BY <1>3, <1>8 DEF FatalRequest
  <1>9. CASE UNCHANGED vars BY <1>3, <1>9
  <1>10. QED BY <1>4, <1>5, <1>6, <1>7, <1>8, <1>9 DEF Next, Crash, RunPanics

-----------------------------------------------------------------------------
(* Holding *)

(* Nobody starts to work on a message: who goes on holds what he held. *)
LEMMA QuietHolding ==
  ASSUME IInv, Holding, Remembered, msg' = msg, proc' = proc,
         \A r \in Procs, k \in Messages :
            /\ handler'[r][k] # "idle" => handler[r][k] # "idle"
            /\ dlq'[r][k] # "idle" => dlq[r][k] # "idle"
  PROVE  Holding'
  BY DEF Holding, Holds, Remembered, Undisturbed, Task, IInv, Flow, Sent

(* An answer takes the message from its holder, who goes idle. *)
LEMMA AnswerHolding ==
  ASSUME IInv, Holding, Remembered, Kept, proc' = proc,
         NEW p \in Procs, NEW m \in Messages, NEW q \in {EvalQueueName, EvalDLQName},
         Takes(p, m, q),
         q = EvalQueueName => handler'[p][m] = "idle",
         q = EvalDLQName => dlq'[p][m] = "idle",
         \A r \in Procs, k \in Messages :
            /\ handler'[r][k] # "idle" => handler[r][k] # "idle"
            /\ dlq'[r][k] # "idle" => dlq[r][k] # "idle"
  PROVE  Holding'
  <1>0. EvalQueueName # EvalDLQName BY DEF EvalQueueName, EvalDLQName
  <1>1. ASSUME NEW r \in Procs, NEW k \in Messages, dlq'[r][k] # "idle"
        PROVE  Holds(r, k, EvalDLQName)'
      BY <1>0, <1>1 DEF Holding, Takes, Only, Holds
  <1>2. ASSUME NEW r \in Procs, NEW k \in Messages, handler'[r][k] # "idle"
        PROVE  /\ proc'[r] # "down"
               /\ proc'[r] = "up" \/ Undisturbed(Task(k))' => Holds(r, k, EvalQueueName)'
    <2>1. handler[r][k] # "idle" /\ proc[r] # "down" BY <1>2 DEF Holding
    <2>2. Task(k)' = Task(k) /\ Task(k) \in Tasks
        BY <2>1 DEF IInv, Flow, Sent, Kept, Task
    <2>3. Undisturbed(Task(k))' => Undisturbed(Task(k))
        BY <2>2 DEF Undisturbed, Remembered
    <2>4. ASSUME proc'[r] = "up" \/ Undisturbed(Task(k))' PROVE Holds(r, k, EvalQueueName)'
      <3>1. Holds(r, k, EvalQueueName) BY <2>1, <2>3, <2>4 DEF Holding
      <3>2. QED BY <1>0, <1>2, <3>1 DEF Takes, Only, Holds
    <2>5. QED BY <2>1, <2>4
  <1>3. QED BY <1>1, <1>2 DEF Holding

(* A message that is ready or unsent is in nobody's hands, except for      *)
(* handlers of a redelivered task that lost their channel.                 *)
LEMMA NobodyWorks ==
  ASSUME IInv, Holding, NEW m \in Messages, msg[m].at # "unacked", NEW r \in Procs
  PROVE  /\ dlq[r][m] = "idle"
         /\ handler[r][m] # "idle" => proc[r] = "noEval" /\ ~Undisturbed(Task(m))
  BY DEF Holding, Holds, IInv, TypeOK

LEMMA DeliverHolding ==
  ASSUME IInv, Holding, Remembered, NEW p \in Procs, NEW m \in Messages,
         Deliver(p, m) \/ DlqDeliver(p, m)
  PROVE  Holding'
  <1> USE DEF history, IInv
  <1>0. EvalQueueName # EvalDLQName BY DEF EvalQueueName, EvalDLQName
  <1>1. /\ proc' = proc /\ Only(m) /\ Kept
        /\ msg[m].at = "ready" /\ msg'[m].at = "unacked" /\ msg'[m].owner = p
      BY ConsumeFact, EvalAssumption
      DEF Deliver, DlqDeliver, Goto, DlqGoto, EvalAssumption, TypeOK, MsgType
  <1>2. \A r \in Procs, k \in Messages \ {m} :
          handler'[r][k] = handler[r][k] /\ dlq'[r][k] = dlq[r][k]
      BY GotoFact, DlqGotoFact DEF Deliver, DlqDeliver, HandlerPC, DlqPC
  <1>3. \A r \in Procs : dlq[r][m] = "idle"
          /\ (handler[r][m] # "idle" => proc[r] = "noEval" /\ ~Undisturbed(Task(m)))
      BY <1>1, NobodyWorks
  <1>4. Task(m)' = Task(m) /\ Task(m) \in Tasks BY <1>1 DEF Flow, Sent, Kept, Task
  <1>5. ~Undisturbed(Task(m)) => ~Undisturbed(Task(m))'
      BY <1>4 DEF Undisturbed, Remembered
  <1>6. ASSUME NEW r \in Procs, NEW k \in Messages \ {m}
        PROVE  /\ dlq'[r][k] # "idle" => Holds(r, k, EvalDLQName)'
               /\ handler'[r][k] # "idle" =>
                    /\ proc'[r] # "down"
                    /\ proc'[r] = "up" \/ Undisturbed(Task(k))'
                         => Holds(r, k, EvalQueueName)'
    <2>1. msg'[k] = msg[k] BY <1>1 DEF Only
    <2>2. QED
        BY <1>1, <1>2, <2>1 DEF Holding, Holds, Task, Flow, Sent, Remembered, Undisturbed
  <1>7. CASE Deliver(p, m)
    <2>1. /\ dlq' = dlq /\ handler'[p][m] = "buffered" /\ proc[p] = "up"
          /\ \A r \in Procs \ {p} : handler'[r][m] = handler[r][m]
          /\ msg'[m].queue = EvalQueueName
        BY <1>7, GotoFact, ConsumeFact, EvalAssumption
        DEF Deliver, HandlerPC, EvalAssumption, TypeOK, MsgType
    <2>2. ASSUME NEW r \in Procs
          PROVE  /\ dlq'[r][m] # "idle" => Holds(r, m, EvalDLQName)'
                 /\ handler'[r][m] # "idle" =>
                    /\ proc'[r] # "down"
                    /\ proc'[r] = "up" \/ Undisturbed(Task(m))'
                         => Holds(r, m, EvalQueueName)'
        BY <1>1, <1>3, <1>4, <1>5, <2>1 DEF Holds
    <2>3. QED BY <1>6, <2>2 DEF Holding
  <1>8. CASE DlqDeliver(p, m)
    <2>1. /\ handler' = handler
          /\ \A r \in Procs \ {p} : dlq'[r][m] = dlq[r][m]
          /\ msg'[m].queue = EvalDLQName
        BY <1>8, DlqGotoFact, ConsumeFact, EvalAssumption
        DEF DlqDeliver, DlqPC, EvalAssumption, TypeOK, MsgType
    <2>2. ASSUME NEW r \in Procs
          PROVE  /\ dlq'[r][m] # "idle" => Holds(r, m, EvalDLQName)'
                 /\ handler'[r][m] # "idle" =>
                    /\ proc'[r] # "down"
                    /\ proc'[r] = "up" \/ Undisturbed(Task(m))'
                         => Holds(r, m, EvalQueueName)'
        BY <1>1, <1>3, <1>4, <1>5, <2>1 DEF Holds
    <2>3. QED BY <1>6, <2>2 DEF Holding
  <1>9. QED BY <1>7, <1>8

(* A new message is in nobody's hands. *)
LEMMA PublishHolding ==
  ASSUME IInv, Holding, Remembered, Kept, proc' = proc, dlq' = dlq,
         NEW n \in Messages, msg[n].at = "unsent", Only(n),
         \A r \in Procs, k \in Messages : handler'[r][k] # "idle" => handler[r][k] # "idle"
  PROVE  Holding'
  <1>1. \A r \in Procs : handler[r][n] = "idle" /\ dlq[r][n] = "idle"
      BY DEF IInv, Flow, Sent
  <1>2. \A k \in Messages \ {n} : msg'[k] = msg[k] BY DEF Only
  <1>3. QED BY <1>1, <1>2 DEF Holding, Holds, Task, IInv, Flow, Sent, Remembered, Undisturbed

(* A process that ends leaves no handler behind. *)
LEMMA DiesHolding ==
  ASSUME IInv, Holding, Remembered, NEW p \in Procs, Dies(p) PROVE Holding'
  <1> USE DEF IInv
  <1>1. \A k \in Messages : k \notin Held(p, Queues) => msg'[k] = msg[k]
      BY ReleaseExact DEF Dies, TypeOK, MsgType
  <1>2. \A r \in Procs \ {p}, k \in Messages, q \in Queues :
          Holds(r, k, q) => k \notin Held(p, Queues)
      BY DEF Held, Holds
  <1>3. /\ \A k \in Messages : handler'[p][k] = "idle" /\ dlq'[p][k] = "idle"
        /\ \A r \in Procs \ {p} :
             handler'[r] = handler[r] /\ dlq'[r] = dlq[r] /\ proc'[r] = proc[r]
      BY DEF Dies, TypeOK
  <1>4. Kept BY ReleaseFact, BrokerAssumption DEF Dies, TypeOK, MsgType
  <1>5. ASSUME NEW r \in Procs, NEW k \in Messages, dlq'[r][k] # "idle"
        PROVE  Holds(r, k, EvalDLQName)'
    <2>1. r # p /\ dlq[r][k] # "idle" BY <1>3, <1>5
    <2>2. Holds(r, k, EvalDLQName) BY <2>1 DEF Holding
    <2>3. k \notin Held(p, Queues) BY <1>2, <2>1, <2>2, EvalAssumption DEF EvalAssumption
    <2>4. QED BY <1>1, <2>2, <2>3 DEF Holds
  <1>6. ASSUME NEW r \in Procs, NEW k \in Messages, handler'[r][k] # "idle"
        PROVE  /\ proc'[r] # "down"
               /\ proc'[r] = "up" \/ Undisturbed(Task(k))' => Holds(r, k, EvalQueueName)'
    <2>1. r # p /\ handler[r][k] # "idle" /\ proc'[r] = proc[r] BY <1>3, <1>6
    <2>2. Task(k)' = Task(k) /\ Task(k) \in Tasks
        BY <1>4, <2>1 DEF Flow, Sent, Kept, Task
    <2>3. Undisturbed(Task(k))' => Undisturbed(Task(k))
        BY <2>2 DEF Undisturbed, Remembered
    <2>4. ASSUME proc'[r] = "up" \/ Undisturbed(Task(k))' PROVE Holds(r, k, EvalQueueName)'
      <3>1. Holds(r, k, EvalQueueName) BY <2>1, <2>3, <2>4 DEF Holding
      <3>2. k \notin Held(p, Queues) BY <1>2, <2>1, <3>1, EvalAssumption DEF EvalAssumption
      <3>3. QED BY <1>1, <3>1, <3>2 DEF Holds
    <2>5. QED BY <2>1, <2>4 DEF Holding
  <1>7. QED BY <1>5, <1>6 DEF Holding

(* The tasks of the deliveries a closed channel gives back are disturbed.  *)
LEMMA GivenBack ==
  ASSUME IInv, NEW ms \in SUBSET Messages, Redelivered(ms), NEW k \in ms, msg[k].at # "unsent",
         Task(k)' = Task(k)
  PROVE  ~Undisturbed(Task(k))'
  <1>1. Task(k) \in Tasks BY DEF IInv, Flow, Sent
  <1>2. incidents'[Task(k)] = incidents[Task(k)] \cup {"redelivered"}
      BY <1>1 DEF Redelivered
  <1>3. QED BY <1>2 DEF Undisturbed

LEMMA LoseChannelHolding ==
  ASSUME IInv, Holding, Remembered, NEW p \in Procs, LoseChannel(p) PROVE Holding'
  <1> USE DEF IInv
  <1> DEFINE lost == Held(p, {EvalQueueName})
  <1>0. EvalQueueName # EvalDLQName BY DEF EvalQueueName, EvalDLQName
  <1>1. \A k \in Messages : k \notin lost => msg'[k] = msg[k]
    <2>1. {EvalQueueName} \in SUBSET Queues BY EvalAssumption DEF EvalAssumption
    <2>2. MsgType /\ Release(p, {EvalQueueName}) BY DEF LoseChannel, TypeOK, MsgType
    <2>3. QED BY <2>1, <2>2, ReleaseExact
  <1>2. \A r \in Procs, k \in Messages, q \in Queues :
          Holds(r, k, q) /\ (r # p \/ q # EvalQueueName) => k \notin lost
      BY DEF Held, Holds
  <1>3. /\ \A r \in Procs, k \in Messages : handler'[r][k] \in {"idle", handler[r][k]}
        /\ dlq' = dlq /\ proc'[p] = "noEval" /\ \A r \in Procs \ {p} : proc'[r] = proc[r]
      BY DEF LoseChannel, TypeOK
  <1>4. Kept
      BY ReleaseFact, BrokerAssumption, EvalAssumption
      DEF LoseChannel, TypeOK, MsgType, EvalAssumption
  <1>5. ASSUME NEW r \in Procs, NEW k \in Messages, dlq'[r][k] # "idle"
        PROVE  Holds(r, k, EvalDLQName)'
    <2>1. Holds(r, k, EvalDLQName) BY <1>3, <1>5 DEF Holding
    <2>2. k \notin lost BY <1>0, <1>2, <2>1, EvalAssumption DEF EvalAssumption
    <2>3. QED BY <1>1, <2>1, <2>2 DEF Holds
  <1>6. ASSUME NEW r \in Procs, NEW k \in Messages, handler'[r][k] # "idle"
        PROVE  /\ proc'[r] # "down"
               /\ proc'[r] = "up" \/ Undisturbed(Task(k))' => Holds(r, k, EvalQueueName)'
    <2>1. handler[r][k] # "idle" BY <1>3, <1>6
    <2>2. Task(k)' = Task(k) /\ Task(k) \in Tasks /\ msg[k].at # "unsent"
        BY <1>4, <2>1 DEF Flow, Sent, Kept, Task
    <2>3. Undisturbed(Task(k))' => Undisturbed(Task(k)) /\ k \notin lost
      <3>1. lost \in SUBSET Messages /\ Redelivered(lost) BY DEF LoseChannel, Held
      <3>2. k \in lost => ~Undisturbed(Task(k))' BY <2>2, <3>1, GivenBack
      <3>3. QED BY <2>2, <3>2 DEF Undisturbed, Remembered
    <2>4. ASSUME proc'[r] = "up" \/ Undisturbed(Task(k))' PROVE Holds(r, k, EvalQueueName)'
      <3>1. r # p => (proc'[r] = "up" => proc[r] = "up") BY <1>3
      <3>2. r = p => Undisturbed(Task(k))' BY <1>3, <2>4
      <3>3. Holds(r, k, EvalQueueName) BY <2>1, <2>3, <2>4, <3>1, <3>2 DEF Holding
      <3>4. k \notin lost BY <1>2, <2>3, <3>2, <3>3, EvalAssumption DEF EvalAssumption
      <3>5. QED BY <1>1, <3>3, <3>4 DEF Holds
    <2>5. proc'[r] # "down" BY <1>3, <2>1 DEF Holding
    <2>6. QED BY <2>4, <2>5
  <1>7. QED BY <1>5, <1>6 DEF Holding

(* The handlers of a step on one delivery. *)
LEMMA StepHolding == ASSUME IInv, Holding, [Next]_vars PROVE Holding'
  <1> USE DEF IInv, stores, workers, history
  <1>0. Remembered BY RememberedStep
  <1>1. ASSUME NEW t \in Tasks, CommitTask(t) \/ RejectTask(t) \/ OrphanTask(t) \/ FatalRequest
        PROVE  Holding'
      BY <1>0, <1>1, QuietHolding DEF CommitTask, RejectTask, OrphanTask, FatalRequest
  <1>2. ASSUME NEW t \in Tasks, PublishTask(t) PROVE Holding'
    <2>1. Kept /\ \E n \in Messages : msg[n].at = "unsent" /\ Only(n)
        BY <1>2, PublishFact, EvalAssumption
        DEF PublishTask, EvalAssumption, TypeOK, MsgType, Tasks
    <2>2. QED BY <1>0, <1>2, <2>1, PublishHolding DEF PublishTask
  <1>3. ASSUME NEW p \in Procs, NEW m \in Messages,
               \/ Spawn(p, m) \/ ReadRow(p, m) \/ RunReturns(p, m) \/ SaveSuccess(p, m)
               \/ StoreResults(p, m) \/ Notify(p, m)
        PROVE  Holding'
    <2>1. PICK pc \in HandlerPC : Goto(p, m, pc)
        BY <1>3 DEF Spawn, ReadRow, RunReturns, SaveSuccess, StoreResults, Notify, HandlerPC
    <2>2. msg' = msg /\ handler[p][m] # "idle"
        BY <1>3 DEF Spawn, ReadRow, RunReturns, SaveSuccess, StoreResults, Notify
    <2>3. QED BY <1>0, <2>1, <2>2, GotoFact, QuietHolding
  <1>4. ASSUME NEW p \in Procs, NEW m \in Messages, DlqMark(p, m) \/ DlqNotify(p, m)
        PROVE  Holding'
    <2>1. PICK pc \in DlqPC : DlqGoto(p, m, pc) BY <1>4 DEF DlqMark, DlqNotify, DlqPC
    <2>2. msg' = msg /\ dlq[p][m] # "idle" BY <1>4 DEF DlqMark, DlqNotify
    <2>3. QED BY <1>0, <2>1, <2>2, DlqGotoFact, QuietHolding
  <1>5. ASSUME NEW p \in Procs, NEW m \in Messages,
               \/ SkipDone(p, m) \/ AckDone(p, m) \/ ReadFails(p, m) \/ GiveUp(p, m)
               \/ SaveFails(p, m) \/ RetryFails(p, m)
        PROVE  Holding'
    <2>1. Goto(p, m, "idle")
        BY <1>5 DEF SkipDone, AckDone, ReadFails, GiveUp, SaveFails, RetryFails
    <2>2. \/ Ack(p, m, EvalQueueName) \/ Requeue(p, m, EvalQueueName)
          \/ DeadLetter(p, m, EvalQueueName, EvalDLQName)
        BY <1>5 DEF SkipDone, AckDone, ReadFails, GiveUp, SaveFails, RetryFails
    <2>3. Takes(p, m, EvalQueueName) /\ Kept
        BY <2>2, AckExact, RequeueExact, DeadLetterExact, AckFact, RequeueFact, DeadLetterFact,
           EvalAssumption
        DEF EvalAssumption, TypeOK, MsgType, Answered
    <2>4. /\ proc' = proc /\ handler'[p][m] = "idle"
          /\ \A r \in Procs, k \in Messages :
               /\ handler'[r][k] # "idle" => handler[r][k] # "idle"
               /\ dlq'[r][k] # "idle" => dlq[r][k] # "idle"
        BY <2>1, GotoFact DEF HandlerPC
    <2>5. EvalQueueName # EvalDLQName BY DEF EvalQueueName, EvalDLQName
    <2>6. QED BY <1>0, <2>3, <2>4, <2>5, AnswerHolding
  <1>6. ASSUME NEW p \in Procs, NEW m \in Messages, DlqFails(p, m) \/ DlqAck(p, m)
        PROVE  Holding'
    <2>1. DlqGoto(p, m, "idle") BY <1>6 DEF DlqFails, DlqAck
    <2>2. Ack(p, m, EvalDLQName) \/ Requeue(p, m, EvalDLQName) BY <1>6 DEF DlqFails, DlqAck
    <2>3. Takes(p, m, EvalDLQName) /\ Kept
        BY <2>2, AckExact, RequeueExact, AckFact, RequeueFact, EvalAssumption
        DEF EvalAssumption, TypeOK, MsgType, Answered
    <2>4. EvalQueueName # EvalDLQName BY DEF EvalQueueName, EvalDLQName
    <2>5. QED BY <1>0, <2>1, <2>3, <2>4, DlqGotoFact, AnswerHolding DEF DlqPC
  <1>7. ASSUME NEW p \in Procs, NEW m \in Messages, Retry(p, m) PROVE Holding'
    <2>1. Goto(p, m, "ackOld") /\ handler[p][m] # "idle" BY <1>7 DEF Retry
    <2>2. Task(m) \in Bodies /\ msg[m].retry + 1 \in Nat
        BY <2>1 DEF Flow, Sent, Tasks, TypeOK, Record
    <2>3. Kept /\ \E n \in Messages : msg[n].at = "unsent" /\ Only(n)
        BY <1>7, <2>2, PublishFact, EvalAssumption DEF Retry, EvalAssumption, TypeOK, MsgType
    <2>4. QED BY <1>0, <2>1, <2>3, GotoFact, PublishHolding DEF HandlerPC
  <1>8. ASSUME NEW p \in Procs, NEW m \in Messages, Deliver(p, m) \/ DlqDeliver(p, m)
        PROVE  Holding'
      BY <1>0, <1>8, DeliverHolding
  <1>9. ASSUME NEW p \in Procs, Dies(p) \/ LoseChannel(p) \/ Restart(p) PROVE Holding'
    <2>1. CASE Restart(p)
      <3>1. /\ proc[p] = "down" /\ proc'[p] = "up" /\ \A r \in Procs \ {p} : proc'[r] = proc[r]
            /\ msg' = msg /\ handler' = handler /\ dlq' = dlq
          BY <2>1 DEF Restart, TypeOK
      <3>2. QED BY <1>0, <3>1 DEF Holding, Holds, Task, Flow, Sent, Remembered, Undisturbed
    <2>2. QED BY <1>0, <1>9, <2>1, DiesHolding, LoseChannelHolding
  <1>10. CASE FatalRequest BY <1>0, <1>10, QuietHolding DEF FatalRequest
  <1>11. CASE UNCHANGED vars BY <1>0, <1>11, QuietHolding DEF vars
  <1>12. QED
      BY <1>1, <1>2, <1>3, <1>4, <1>5, <1>6, <1>7, <1>8, <1>9, <1>10, <1>11
      DEF Next, Api, Crash, RunPanics, ProcessMessage, HandleFailure, HandleDLQMessage

-----------------------------------------------------------------------------
(* Counted: x-retry exceeds neither the runs nor its limit, and a run      *)
(* comes before every dead letter but those of an unreadable row.          *)
Waiting == {"idle", "buffered", "fetch"}
Spent(t) == attempts[t] > EvalMaxRetry \/ "unread" \in incidents[t]

Counted ==
    /\ \A m \in Messages : msg[m].at # "unsent" =>
         /\ msg[m].retry <= EvalMaxRetry
         /\ attempts[Task(m)] >= msg[m].retry
         /\ msg[m].queue = EvalDLQName => Spent(Task(m))
         /\ \A p \in Procs :
              handler[p][m] \notin Waiting => attempts[Task(m)] > msg[m].retry
    /\ \A t \in Tasks : status[t] = "failed" => Spent(t)

(* What a step may do without a run that justifies it. *)
Counting ==
    /\ Kept
    /\ \A t \in Tasks : attempts'[t] >= attempts[t]
    /\ \A m \in Messages : msg[m].at # "unsent" =>
         /\ msg'[m].queue = EvalDLQName => msg[m].queue = EvalDLQName \/ Spent(Task(m))'
         /\ \A p \in Procs : handler'[p][m] \notin Waiting =>
              handler[p][m] \notin Waiting \/ attempts'[Task(m)] > msg[m].retry
    /\ \A m \in Messages : msg[m].at = "unsent" /\ msg'[m].at # "unsent" =>
         /\ msg'[m].retry <= EvalMaxRetry
         /\ attempts'[msg'[m].body] >= msg'[m].retry
         /\ msg'[m].queue # EvalDLQName
         /\ \A p \in Procs : handler'[p][m] \in Waiting
    /\ \A t \in Tasks : status'[t] = "failed" => status[t] = "failed" \/ Spent(t)'

LEMMA CountedStep ==
  ASSUME IInv, IInv', Counted, Remembered, Counting PROVE Counted'
  <1>1. ASSUME NEW t \in Tasks, Spent(t) PROVE Spent(t)'
      BY <1>1, EvalAssumption
      DEF Spent, Remembered, Counting, IInv, TypeOK, EvalAssumption
  <1>2. \A t \in Tasks : status'[t] = "failed" => Spent(t)'
      BY <1>1 DEF Counted, Counting
  <1>3. ASSUME NEW m \in Messages, msg'[m].at # "unsent"
        PROVE  /\ msg'[m].retry <= EvalMaxRetry
               /\ attempts'[Task(m)'] >= msg'[m].retry
               /\ msg'[m].queue = EvalDLQName => Spent(Task(m))'
               /\ \A p \in Procs :
                    handler'[p][m] \notin Waiting => attempts'[Task(m)'] > msg'[m].retry
    <2>1. CASE msg[m].at = "unsent" BY <1>3, <2>1 DEF Counting, Task
    <2>2. CASE msg[m].at # "unsent"
      <3>1. /\ msg'[m].body = msg[m].body /\ msg'[m].retry = msg[m].retry
            /\ msg[m].body \in Tasks
          BY <2>2 DEF Counting, Kept, IInv, Flow, Sent, Task
      <3>2. /\ attempts[msg[m].body] \in Nat /\ attempts'[msg[m].body] \in Nat
            /\ msg[m].retry \in Nat /\ attempts'[msg[m].body] >= attempts[msg[m].body]
          BY <3>1 DEF IInv, TypeOK, Record, Counting
      <3>3. attempts[msg[m].body] >= msg[m].retry /\ msg[m].retry <= EvalMaxRetry
          BY <2>2 DEF Counted, Task
      <3>4. msg'[m].queue = EvalDLQName => Spent(Task(m))'
        <4>1. Spent(Task(m)) => Spent(Task(m))' BY <1>1, <3>1 DEF Spent, Task
        <4>2. QED BY <2>2, <4>1 DEF Counted, Counting
      <3>5. \A p \in Procs :
              handler'[p][m] \notin Waiting => attempts'[msg[m].body] > msg[m].retry
          BY <2>2, <3>2 DEF Counted, Counting, Task
      <3>6. QED BY <3>1, <3>2, <3>3, <3>4, <3>5 DEF Task
    <2>3. QED BY <2>1, <2>2
  <1>4. QED BY <1>2, <1>3 DEF Counted, Task

(* Closing channels starts no handler. *)
LEMMA CloseHandlers ==
  ASSUME IInv, NEW p \in Procs, Dies(p) \/ LoseChannel(p)
  PROVE  \A r \in Procs, k \in Messages : handler'[r][k] \in {"idle", handler[r][k]}
  <1>1. CASE Dies(p) BY <1>1 DEF Dies, IInv, TypeOK
  <1>2. CASE LoseChannel(p) BY <1>2 DEF LoseChannel, IInv, TypeOK
  <1>3. QED BY <1>1, <1>2

LEMMA StepCounted ==
  ASSUME IInv, IInv', Holding, Counted, [Next]_vars PROVE Counted'
  <1> USE DEF IInv, stores, workers, history
  <1>0. Remembered BY RememberedStep
  <1>a. \A t \in Tasks : attempts[t] \in Nat BY DEF TypeOK
  <1>b. ASSUME attempts' = attempts PROVE \A t \in Tasks : attempts'[t] >= attempts[t]
      BY <1>a, <1>b
  (* Nothing moves but the rows and the histories. *)
  <1>c. ASSUME msg' = msg,
               \A p \in Procs, m \in Messages :
                 handler'[p][m] \notin Waiting => handler[p][m] \notin Waiting,
               attempts' = attempts,
               \A t \in Tasks : status'[t] = "failed" => status[t] = "failed" \/ Spent(t)'
        PROVE  Counted'
    <2>1. Counting BY <1>b, <1>c, QuietBroker DEF Counting, Calm
    <2>2. QED BY <1>0, <2>1, CountedStep
  <1>1. ASSUME NEW t \in Tasks, CommitTask(t) \/ RejectTask(t) \/ OrphanTask(t) \/ FatalRequest
        PROVE  Counted'
    <2>1. \A u \in Tasks : status'[u] = "failed" => status[u] = "failed"
        BY <1>1 DEF CommitTask, RejectTask, OrphanTask, FatalRequest, TypeOK
    <2>2. QED BY <1>1, <1>c, <2>1 DEF CommitTask, RejectTask, OrphanTask, FatalRequest
  <1>2. ASSUME NEW t \in Tasks, PublishTask(t) PROVE Counted'
    <2>1. /\ Kept
          /\ \E n \in Messages :
               /\ msg[n].at = "unsent" /\ Only(n)
               /\ msg'[n] = [at |-> "ready", queue |-> EvalQueueName, body |-> t,
                             retry |-> 0, owner |-> NoProc]
        BY <1>2, PublishFact, EvalAssumption
        DEF PublishTask, EvalAssumption, TypeOK, MsgType, Tasks
    <2>2. PICK n \in Messages :
               /\ msg[n].at = "unsent" /\ Only(n) /\ msg'[n].queue = EvalQueueName
               /\ msg'[n].body = t /\ msg'[n].retry = 0
        BY <2>1
    <2>3. EvalQueueName # EvalDLQName BY DEF EvalQueueName, EvalDLQName
    <2>4. \A p \in Procs : handler[p][n] \in Waiting BY <2>2 DEF Flow, Sent, Waiting
    <2>5. handler' = handler /\ attempts' = attempts /\ status' = status
        BY <1>2 DEF PublishTask
    <2>6. msg'[n].retry <= EvalMaxRetry BY <2>2, EvalAssumption DEF EvalAssumption
    <2>7. Counting BY <1>a, <2>1, <2>2, <2>3, <2>4, <2>5, <2>6 DEF Counting, Only
    <2>8. QED BY <1>0, <2>7, CountedStep
  <1>3. ASSUME NEW p \in Procs, NEW m \in Messages, ReadRow(p, m) PROVE Counted'
    <2>1. msg[m].at # "unsent" /\ Task(m) \in Tasks BY <1>3 DEF ReadRow, Flow, Sent
    <2>2. \A t \in Tasks : attempts'[t] \in {attempts[t], attempts[t] + 1}
        BY <1>3 DEF ReadRow, TypeOK
    <2>3. /\ attempts[Task(m)] < CountedRuns => attempts'[Task(m)] = attempts[Task(m)] + 1
          /\ attempts[Task(m)] >= CountedRuns => attempts'[Task(m)] = attempts[Task(m)]
          /\ \A t \in Tasks : attempts'[t] >= attempts[t]
        BY <1>a, <1>3, <2>1, <2>2, EvalAssumption
        DEF ReadRow, TypeOK, CountedRuns, EvalAssumption
    <2>4. attempts'[Task(m)] > msg[m].retry
        BY <1>a, <2>1, <2>3, EvalAssumption
        DEF Counted, TypeOK, Record, CountedRuns, EvalAssumption
    <2>5. \A r \in Procs, k \in Messages : r # p \/ k # m => handler'[r][k] = handler[r][k]
        BY <1>3, GotoFact DEF ReadRow, HandlerPC
    <2>6. msg' = msg /\ status' = status BY <1>3 DEF ReadRow
    <2>7. Counting BY <2>1, <2>3, <2>4, <2>5, <2>6, QuietBroker DEF Counting, Calm
    <2>8. QED BY <1>0, <2>7, CountedStep
  <1>4. ASSUME NEW p \in Procs, NEW m \in Messages,
               \/ Spawn(p, m) \/ RunReturns(p, m) \/ SaveSuccess(p, m)
               \/ StoreResults(p, m) \/ Notify(p, m)
        PROVE  Counted'
    <2>1. PICK pc \in HandlerPC :
            Goto(p, m, pc) /\ (pc \notin Waiting => handler[p][m] \notin Waiting)
        BY <1>4 DEF Spawn, RunReturns, SaveSuccess, StoreResults, Notify, HandlerPC, Waiting
    <2>2. \A r \in Procs, k \in Messages :
            handler'[r][k] \notin Waiting => handler[r][k] \notin Waiting
        BY <2>1, GotoFact
    <2>3. \A u \in Tasks : status'[u] = "failed" => status[u] = "failed"
        BY <1>4 DEF Spawn, RunReturns, SaveSuccess, StoreResults, Notify, TypeOK
    <2>4. QED
        BY <1>4, <1>c, <2>2, <2>3 DEF Spawn, RunReturns, SaveSuccess, StoreResults, Notify
  <1>5. ASSUME NEW p \in Procs, NEW m \in Messages, DlqMark(p, m) \/ DlqNotify(p, m)
        PROVE  Counted'
    <2>1. handler' = handler /\ msg' = msg /\ attempts' = attempts /\ incidents' = incidents
        BY <1>5 DEF DlqMark, DlqNotify, DlqGoto
    <2>2. msg[m].at # "unsent" /\ msg[m].queue = EvalDLQName /\ Task(m) \in Tasks
        BY <1>5 DEF DlqMark, DlqNotify, Holding, Holds, Flow, Sent
    <2>3. Spent(Task(m)) BY <2>2 DEF Counted
    <2>4. \A u \in Tasks : status'[u] = "failed" => status[u] = "failed" \/ Spent(u)'
        BY <1>5, <2>1, <2>3 DEF DlqMark, DlqNotify, TypeOK, Spent
    <2>5. QED BY <1>c, <2>1, <2>4
  <1>6. ASSUME NEW p \in Procs, NEW m \in Messages,
               \/ SkipDone(p, m) \/ AckDone(p, m) \/ ReadFails(p, m) \/ GiveUp(p, m)
               \/ SaveFails(p, m) \/ RetryFails(p, m)
        PROVE  Counted'
    <2>1. Goto(p, m, "idle")
        BY <1>6 DEF SkipDone, AckDone, ReadFails, GiveUp, SaveFails, RetryFails
    <2>2. \/ Ack(p, m, EvalQueueName) \/ Requeue(p, m, EvalQueueName)
          \/ DeadLetter(p, m, EvalQueueName, EvalDLQName)
        BY <1>6 DEF SkipDone, AckDone, ReadFails, GiveUp, SaveFails, RetryFails
    <2>3. Kept /\ NothingNew /\ Only(m)
        BY <2>2, AckFact, RequeueFact, DeadLetterFact, EvalAssumption
        DEF EvalAssumption, TypeOK, MsgType, Answered
    <2>4. msg[m].at # "unsent" /\ Task(m) \in Tasks
        BY <1>6 DEF SkipDone, AckDone, ReadFails, GiveUp, SaveFails, RetryFails, Flow, Sent
    <2>5. \A r \in Procs, k \in Messages :
            handler'[r][k] \notin Waiting => handler[r][k] \notin Waiting
        BY <2>1, GotoFact DEF HandlerPC, Waiting
    <2>6. attempts' = attempts
        BY <1>6 DEF SkipDone, AckDone, ReadFails, GiveUp, SaveFails, RetryFails, Befalls
    <2>7. \A u \in Tasks : status'[u] = "failed" => status[u] = "failed"
        BY <1>6 DEF SkipDone, AckDone, ReadFails, GiveUp, SaveFails, RetryFails, TypeOK
    <2>8. msg'[m].queue = EvalDLQName => msg[m].queue = EvalDLQName \/ Spent(Task(m))'
      <3>1. CASE ReadFails(p, m)
          BY <2>3, <2>4, <3>1 DEF ReadFails, Befalls, Spent, TypeOK, Kept, Task
      <3>2. CASE GiveUp(p, m)
        <4>1. attempts[Task(m)] > msg[m].retry
            BY <2>4, <3>2 DEF GiveUp, Counted, Waiting
        <4>2. msg[m].retry >= EvalMaxRetry BY <3>2 DEF GiveUp, RetriesExceeded
        <4>3. QED
            BY <1>a, <2>3, <2>4, <2>6, <4>1, <4>2, EvalAssumption
            DEF Spent, TypeOK, Record, EvalAssumption, Kept, Task
      <3>3. CASE SkipDone(p, m) \/ AckDone(p, m) \/ SaveFails(p, m) \/ RetryFails(p, m)
          BY <3>3 DEF SkipDone, AckDone, SaveFails, RetryFails, Ack, Requeue, TypeOK, Record
      <3>4. QED BY <1>6, <3>1, <3>2, <3>3
    <2>9. Counting BY <1>b, <2>3, <2>5, <2>6, <2>7, <2>8 DEF Counting, Only, NothingNew
    <2>10. QED BY <1>0, <2>9, CountedStep
  <1>7. ASSUME NEW p \in Procs, NEW m \in Messages, DlqFails(p, m) \/ DlqAck(p, m)
        PROVE  Counted'
    <2>1. Kept /\ NothingNew /\ Only(m)
        BY <1>7, AckFact, RequeueFact, EvalAssumption
        DEF DlqFails, DlqAck, EvalAssumption, TypeOK, MsgType, Answered
    <2>2. handler' = handler /\ attempts' = attempts /\ incidents' = incidents
        BY <1>7 DEF DlqFails, DlqAck, DlqGoto
    <2>3. msg[m].at # "unsent" /\ msg[m].queue = EvalDLQName /\ Task(m) \in Tasks
        BY <1>7 DEF DlqFails, DlqAck, Holding, Holds, Flow, Sent
    <2>4. Spent(Task(m)) BY <2>3 DEF Counted
    <2>5. \A u \in Tasks : status'[u] = "failed" => status[u] = "failed" \/ Spent(u)'
        BY <1>7, <2>2, <2>4 DEF DlqFails, DlqAck, TypeOK, Spent
    <2>6. Counting BY <1>b, <2>1, <2>2, <2>3, <2>5 DEF Counting, Only, NothingNew
    <2>7. QED BY <1>0, <2>6, CountedStep
  <1>8. ASSUME NEW p \in Procs, NEW m \in Messages, Deliver(p, m) \/ DlqDeliver(p, m)
        PROVE  Counted'
    <2>1. Kept /\ NothingNew /\ Only(m) /\ msg'[m].queue = msg[m].queue
        BY <1>8, ConsumeFact, EvalAssumption
        DEF Deliver, DlqDeliver, EvalAssumption, TypeOK, MsgType
    <2>2. \A r \in Procs, k \in Messages :
            handler'[r][k] \notin Waiting => handler[r][k] \notin Waiting
        BY <1>8, GotoFact DEF Deliver, DlqDeliver, DlqGoto, HandlerPC, Waiting
    <2>3. attempts' = attempts /\ status' = status BY <1>8 DEF Deliver, DlqDeliver
    <2>4. Counting BY <1>b, <2>1, <2>2, <2>3 DEF Counting, Only, NothingNew
    <2>5. QED BY <1>0, <2>4, CountedStep
  <1>9. ASSUME NEW p \in Procs, NEW m \in Messages, Retry(p, m) PROVE Counted'
    <2>1. /\ msg[m].at # "unsent" /\ Task(m) \in Tasks /\ msg[m].retry \in Nat
          /\ attempts[Task(m)] > msg[m].retry
        BY <1>9 DEF Retry, Flow, Sent, TypeOK, Record, Counted, Waiting
    <2>2. /\ Kept
          /\ \E n \in Messages :
               /\ msg[n].at = "unsent" /\ Only(n)
               /\ msg'[n] = [at |-> "ready", queue |-> EvalQueueName, body |-> Task(m),
                             retry |-> msg[m].retry + 1, owner |-> NoProc]
        BY <1>9, <2>1, PublishFact, EvalAssumption
        DEF Retry, EvalAssumption, TypeOK, MsgType, Tasks
    <2>3. PICK n \in Messages :
               /\ msg[n].at = "unsent" /\ Only(n) /\ msg'[n].queue = EvalQueueName
               /\ msg'[n].body = Task(m) /\ msg'[n].retry = msg[m].retry + 1
        BY <2>2
    <2>4. EvalQueueName # EvalDLQName BY DEF EvalQueueName, EvalDLQName
    <2>5. \A r \in Procs, k \in Messages :
            handler'[r][k] \notin Waiting => handler[r][k] \notin Waiting
        BY <1>9, GotoFact DEF Retry, HandlerPC, Waiting
    <2>6. \A r \in Procs : handler[r][n] \in Waiting BY <2>3 DEF Flow, Sent, Waiting
    <2>7. attempts' = attempts /\ status' = status BY <1>9 DEF Retry
    <2>8. attempts'[msg'[n].body] >= msg'[n].retry /\ msg'[n].retry <= EvalMaxRetry
        BY <1>a, <1>9, <2>1, <2>3, <2>7, EvalAssumption
        DEF Retry, RetriesExceeded, EvalAssumption
    <2>9. Counting BY <1>b, <2>2, <2>3, <2>4, <2>5, <2>6, <2>7, <2>8 DEF Counting, Only
    <2>10. QED BY <1>0, <2>9, CountedStep
  <1>10. ASSUME NEW p \in Procs, Dies(p) \/ LoseChannel(p) PROVE Counted'
    <2>1. {EvalQueueName} \in SUBSET Queues BY EvalAssumption DEF EvalAssumption
    <2>2. Kept /\ NothingNew /\ \A k \in Messages : msg'[k].queue = msg[k].queue
        BY <1>10, <2>1, ReleaseFact, ReleaseExact, BrokerAssumption
        DEF Dies, LoseChannel, TypeOK, MsgType
    <2>3. \A r \in Procs, k \in Messages :
            handler'[r][k] \notin Waiting => handler[r][k] \notin Waiting
        BY <1>10, CloseHandlers DEF Waiting
    <2>4. attempts' = attempts /\ status' = status BY <1>10 DEF Dies, LoseChannel
    <2>5. Counting BY <1>b, <2>2, <2>3, <2>4 DEF Counting, NothingNew
    <2>6. QED BY <1>0, <2>5, CountedStep
  <1>11. ASSUME NEW p \in Procs, Restart(p) PROVE Counted'
      BY <1>11, <1>c DEF Restart
  <1>12. CASE FatalRequest BY <1>12, <1>c DEF FatalRequest
  <1>13. CASE UNCHANGED vars BY <1>13, <1>c DEF vars
  <1>14. QED
      BY <1>1, <1>2, <1>3, <1>4, <1>5, <1>6, <1>7, <1>8, <1>9, <1>10, <1>11, <1>12, <1>13
      DEF Next, Api, Crash, RunPanics, ProcessMessage, HandleFailure, HandleDLQMessage

-----------------------------------------------------------------------------
(* Course: until a delivery of a task comes back, the task has at most one *)
(* active message, and its row, its results, its notifications and its     *)
(* runs are what the position of that message says.                        *)
Old(m)    == \E p \in Procs : handler[p][m] = "ackOld"
Saved(m)  == \E p \in Procs : handler[p][m] \in Settling
Stored(m) == \E p \in Procs : handler[p][m] \in Reporting
Told(m)   == \E p \in Procs : handler[p][m] = "ack"
Begun(m)  == \E p \in Procs : handler[p][m] \notin Waiting
Marked(m) == \E p \in Procs : dlq[p][m] \in Reporting

Active(m, t) == Live(m) /\ Task(m) = t /\ ~Old(m)

(* The runs of a task are counted as long as none of its deliveries was    *)
(* put back either.                                                        *)
Counts(t) == incidents[t] \subseteq {"unread"}

OnEval(m, t) ==
    /\ Saved(m) => status[t] = "success"
    /\ ~Saved(m) => \/ status[t] = "pending"
                    \/ status[t] = "success" /\ "replyLost" \in incidents[t]
    /\ <<t, "failed">> \notin notified
    /\ <<t, "success">> \in notified => Told(m)
    /\ results[t] > 0 => Stored(m)
    /\ Counts(t) =>
         /\ msg[m].retry <= EvalMaxRetry
         /\ Begun(m) => attempts[t] = msg[m].retry + 1
         /\ ~Begun(m) => attempts[t] = msg[m].retry

OnDlq(m, t) ==
    /\ status[t] = "success" => "replyLost" \in incidents[t]
    /\ <<t, "success">> \notin notified
    /\ <<t, "failed">> \in notified => status[t] = "failed"
    /\ Marked(m) => status[t] = "failed"

Placed(m, t) ==
    /\ msg[m].queue = EvalQueueName => OnEval(m, t)
    /\ msg[m].queue = EvalDLQName => OnDlq(m, t)

Summary(t) ==
    /\ results[t] <= 1
    /\ Counts(t) => attempts[t] <= EvalMaxRetry + 1
    /\ \A s \in Settled : <<t, s>> \in notified => status[t] = s

Course(t) ==
    /\ Summary(t)
    /\ \A m, n \in Messages : Active(m, t) /\ Active(n, t) => m = n
    /\ \A m \in Messages : Active(m, t) => Placed(m, t)

(* Before its publication a task is only a row. *)
Opening(t) ==
    /\ api[t] \in {"new", "rejected"} => status[t] = "none"
    /\ api[t] \in {"committed", "orphaned"} => status[t] = "pending"
    /\ api[t] = "published" => status[t] # "none"
    /\ api[t] # "published" =>
         results[t] = 0 /\ attempts[t] = 0 /\ \A s \in Settled : <<t, s>> \notin notified

(* Nobody is told of a verdict the row does not have. *)
Reported(t) == \A s \in Settled : <<t, s>> \in notified => status[t] \in Settled

Coursed ==
    \A t \in Tasks : Opening(t) /\ Reported(t) /\ (Undisturbed(t) => Course(t))

-----------------------------------------------------------------------------
(* What a step leaves alone: the row of a task, and a message with         *)
(* everybody who works on it.                                              *)
Rows(t) ==
    /\ api'[t] = api[t] /\ status'[t] = status[t] /\ results'[t] = results[t]
    /\ attempts'[t] = attempts[t] /\ incidents'[t] = incidents[t]
    /\ \A s \in Settled : <<t, s>> \in notified' <=> <<t, s>> \in notified

Apart(k) ==
    /\ msg'[k] = msg[k]
    /\ \A r \in Procs : handler'[r][k] = handler[r][k] /\ dlq'[r][k] = dlq[r][k]

LEMMA RowsStep ==
  ASSUME NEW t \in Tasks, Opening(t), Reported(t), Rows(t) PROVE Opening(t)' /\ Reported(t)'
  BY DEF Opening, Reported, Rows

LEMMA SummaryRows ==
  ASSUME NEW t \in Tasks, Summary(t), Rows(t) PROVE Summary(t)'
  BY DEF Summary, Rows, Counts

LEMMA ApartActive ==
  ASSUME NEW t \in Tasks, NEW k \in Messages, Apart(k)
  PROVE  /\ Active(k, t)' <=> Active(k, t)
         /\ Rows(t) /\ Placed(k, t) => Placed(k, t)'
  <1>1. /\ msg'[k] = msg[k]
        /\ Old(k)' <=> Old(k)
        /\ Saved(k)' <=> Saved(k)
        /\ Stored(k)' <=> Stored(k)
        /\ Told(k)' <=> Told(k)
        /\ Begun(k)' <=> Begun(k)
        /\ Marked(k)' <=> Marked(k)
      BY DEF Apart, Old, Saved, Stored, Told, Begun, Marked
  <1>2. Active(k, t)' <=> Active(k, t) BY <1>1 DEF Active, Live, Task
  <1>3. ASSUME Rows(t), Placed(k, t) PROVE Placed(k, t)'
    <2>1. OnEval(k, t) => OnEval(k, t)' BY <1>1, <1>3 DEF OnEval, Rows, Counts, Settled
    <2>2. OnDlq(k, t) => OnDlq(k, t)' BY <1>1, <1>3 DEF OnDlq, Rows, Settled
    <2>3. QED BY <1>1, <1>3, <2>1, <2>2 DEF Placed
  <1>4. QED BY <1>2, <1>3

(* A task none of whose messages the step touches. *)
LEMMA FrameCourse ==
  ASSUME NEW t \in Tasks, Course(t), Rows(t),
         \A k \in Messages : Apart(k) \/ Task(k)' # t
  PROVE  Course(t)'
  <1>1. \A k \in Messages : Active(k, t)' => Apart(k) /\ Active(k, t)
      BY ApartActive DEF Active
  <1>2. \A k \in Messages : Active(k, t)' => Placed(k, t)'
      BY <1>1, ApartActive DEF Course
  <1>3. \A m, n \in Messages : Active(m, t)' /\ Active(n, t)' => m = n
      BY <1>1 DEF Course
  <1>4. Summary(t)' BY SummaryRows DEF Course
  <1>5. QED BY <1>2, <1>3, <1>4 DEF Course

(* The step on the active message of a task. *)
LEMMA MovedCourse ==
  ASSUME NEW t \in Tasks, Course(t), NEW m \in Messages, Active(m, t),
         \A k \in Messages \ {m} : Apart(k),
         Summary(t)', Active(m, t)' => Placed(m, t)'
  PROVE  Course(t)'
  <1>1. \A k \in Messages : Active(k, t)' => k = m
      BY ApartActive DEF Course
  <1>2. QED BY <1>1 DEF Course

(* The step that takes the last of a message away. *)
LEMMA GoneCourse ==
  ASSUME NEW t \in Tasks, Course(t), NEW m \in Messages, ~Live(m)',
         \A k \in Messages \ {m} : Apart(k), Rows(t)
  PROVE  Course(t)'
  <1>1. \A k \in Messages : Active(k, t)' => k # m /\ Active(k, t)
      BY ApartActive DEF Active
  <1>2. \A k \in Messages : Active(k, t)' => Placed(k, t)'
      BY <1>1, ApartActive DEF Course
  <1>3. \A k, n \in Messages : Active(k, t)' /\ Active(n, t)' => k = n
      BY <1>1 DEF Course
  <1>4. Summary(t)' BY SummaryRows DEF Course
  <1>5. QED BY <1>2, <1>3, <1>4 DEF Course

(* A step on message m of task u is over when u is where it should be. *)
LEMMA StepOn ==
  ASSUME Coursed, NEW u \in Tasks, NEW m \in Messages,
         msg'[m].body = u, \A k \in Messages \ {m} : Apart(k),
         \A t \in Tasks \ {u} : Rows(t),
         Opening(u)', Reported(u)', Undisturbed(u)' => Course(u)'
  PROVE  Coursed'
  <1>1. ASSUME NEW t \in Tasks \ {u} PROVE Opening(t)' /\ Reported(t)'
      BY <1>1, RowsStep DEF Coursed
  <1>2. ASSUME NEW t \in Tasks \ {u}, Undisturbed(t)' PROVE Course(t)'
    <2>1. Undisturbed(t) BY <1>2 DEF Undisturbed, Rows
    <2>2. \A k \in Messages : Apart(k) \/ Task(k)' # t BY <1>2 DEF Task
    <2>3. QED BY <1>2, <2>1, <2>2, FrameCourse DEF Coursed
  <1>3. QED BY <1>1, <1>2 DEF Coursed

-----------------------------------------------------------------------------
(* Who works on a message of an undisturbed task does so alone.            *)
Alone(p, m) == \A r \in Procs \ {p} : handler[r][m] = "idle"

At(p, m) ==
    /\ Old(m) <=> handler[p][m] = "ackOld"
    /\ Saved(m) <=> handler[p][m] \in Settling
    /\ Stored(m) <=> handler[p][m] \in Reporting
    /\ Told(m) <=> handler[p][m] = "ack"
    /\ Begun(m) <=> handler[p][m] \notin Waiting

LEMMA AloneAt ==
  ASSUME NEW p \in Procs, NEW m \in Messages, Alone(p, m) PROVE At(p, m)
  BY DEF Alone, At, Old, Saved, Stored, Told, Begun, Settling, Reporting, Waiting

LEMMA AloneAtNext ==
  ASSUME NEW p \in Procs, NEW m \in Messages, Alone(p, m)' PROVE At(p, m)'
  BY DEF Alone, At, Old, Saved, Stored, Told, Begun, Settling, Reporting, Waiting

LEMMA Focus ==
  ASSUME IInv, Holding, NEW p \in Procs, NEW m \in Messages, handler[p][m] # "idle"
  PROVE  /\ msg[m].at # "unsent" /\ Task(m) \in Tasks /\ api[Task(m)] = "published"
         /\ Undisturbed(Task(m)) =>
              /\ Holds(p, m, EvalQueueName) /\ Live(m) /\ msg[m].queue = EvalQueueName
              /\ Alone(p, m) /\ \A r \in Procs : dlq[r][m] = "idle"
  <1>0. EvalQueueName # EvalDLQName BY DEF EvalQueueName, EvalDLQName
  <1>1. msg[m].at # "unsent" /\ Task(m) \in Tasks /\ api[Task(m)] = "published"
      BY DEF IInv, Flow, Sent
  <1>2. ASSUME Undisturbed(Task(m))
        PROVE  /\ Holds(p, m, EvalQueueName) /\ Live(m) /\ msg[m].queue = EvalQueueName
               /\ Alone(p, m) /\ \A r \in Procs : dlq[r][m] = "idle"
    <2>1. Holds(p, m, EvalQueueName) BY <1>2 DEF Holding
    <2>2. \A r \in Procs \ {p} : handler[r][m] = "idle"
        BY <1>2, <2>1 DEF Holding, Holds
    <2>3. \A r \in Procs : dlq[r][m] = "idle" BY <1>0, <2>1 DEF Holding, Holds
    <2>4. QED BY <2>1, <2>2, <2>3 DEF Holds, Live, Alone
  <1>3. QED BY <1>1, <1>2

LEMMA FocusActive ==
  ASSUME IInv, Holding, Coursed, NEW p \in Procs, NEW m \in Messages,
         handler[p][m] \notin {"idle", "ackOld"},
         NEW u \in Tasks, u = Task(m), Undisturbed(u)
  PROVE  /\ Course(u) /\ Summary(u) /\ Active(m, u) /\ At(p, m) /\ OnEval(m, u)
  <1>1. /\ Live(m) /\ msg[m].queue = EvalQueueName /\ Alone(p, m) BY Focus
  <1>2. At(p, m) BY <1>1, AloneAt
  <1>3. Active(m, u) BY <1>1, <1>2 DEF Active, At
  <1>4. Course(u) BY DEF Coursed
  <1>5. QED BY <1>1, <1>2, <1>3, <1>4 DEF Course, Placed

(* Only message m and handler p of it move. *)
LEMMA GotoApart ==
  ASSUME TypeOK, NEW p \in Procs, NEW m \in Messages, NEW pc \in HandlerPC, Goto(p, m, pc),
         Only(m)
  PROVE  \A k \in Messages \ {m} : Apart(k)
  BY GotoFact DEF Apart, Only

LEMMA DlqGotoApart ==
  ASSUME TypeOK, NEW p \in Procs, NEW m \in Messages, NEW pc \in DlqPC, DlqGoto(p, m, pc),
         Only(m)
  PROVE  \A k \in Messages \ {m} : Apart(k)
  BY DlqGotoFact DEF Apart, Only

(* A handler that moves on within processMessage. *)
LEMMA MoveCourse ==
  ASSUME IInv, Holding, Coursed, NEW p \in Procs, NEW m \in Messages,
         NEW pc \in HandlerPC \ {"idle", "ackOld"},
         handler[p][m] \notin {"idle", "ackOld"}, Goto(p, m, pc), msg' = msg,
         NEW u \in Tasks, u = Task(m), \A t \in Tasks \ {u} : Rows(t),
         incidents' = incidents, Opening(u)', Reported(u)',
         Summary(u) /\ OnEval(m, u) /\ At(p, m) /\ At(p, m)' => Summary(u)' /\ OnEval(m, u)'
  PROVE  Coursed'
  <1>1. \A k \in Messages \ {m} : Apart(k) BY GotoApart DEF Only, IInv
  <1>2. ASSUME Undisturbed(u)' PROVE Course(u)'
    <2>1. Undisturbed(u) BY <1>2 DEF Undisturbed
    <2>2. Alone(p, m) BY <2>1, Focus
    <2>3. Alone(p, m)' BY <2>2, GotoFact DEF Alone, IInv
    <2>4. At(p, m)' BY <2>3, AloneAtNext
    <2>5. /\ Course(u) /\ Summary(u) /\ Active(m, u) /\ At(p, m) /\ OnEval(m, u)
        BY <2>1, FocusActive
    <2>6. Summary(u)' /\ OnEval(m, u)' BY <2>4, <2>5
    <2>7. Placed(m, u)'
      <3>1. msg[m].queue = EvalQueueName BY <2>1, Focus
      <3>2. EvalQueueName # EvalDLQName BY DEF EvalQueueName, EvalDLQName
      <3>3. QED BY <2>6, <3>1, <3>2 DEF Placed
    <2>8. QED BY <1>1, <2>5, <2>6, <2>7, MovedCourse
  <1>3. QED BY <1>1, <1>2, StepOn DEF Task

-----------------------------------------------------------------------------
(* One lemma per action of a handler that goes on. *)
LEMMA SpawnCourse ==
  ASSUME IInv, Holding, Coursed, NEW p \in Procs, NEW m \in Messages,
         Spawn(p, m) \/ RunReturns(p, m)
  PROVE  Coursed'
  <1> USE DEF stores, workers, history
  <1>1. PICK pc \in {"fetch", "save", "fail", "hung"} :
          /\ Goto(p, m, pc)
          /\ pc = "fetch" => handler[p][m] = "buffered"
          /\ pc # "fetch" => handler[p][m] = "run"
      BY DEF Spawn, RunReturns
  <1>2. handler[p][m] \notin {"idle", "ackOld"} BY <1>1
  <1>3. PICK u \in Tasks : u = Task(m) BY <1>2, Focus
  <1>4. handler'[p][m] = pc BY <1>1, GotoFact DEF IInv, HandlerPC
  <1>5. /\ msg' = msg /\ api' = api /\ status' = status /\ results' = results
        /\ notified' = notified /\ attempts' = attempts /\ incidents' = incidents
      BY DEF Spawn, RunReturns
  <1>6. \A t \in Tasks : Rows(t) BY <1>5 DEF Rows
  <1>7. Opening(u)' /\ Reported(u)' BY <1>6, RowsStep DEF Coursed
  <1>8. Summary(u) /\ OnEval(m, u) /\ At(p, m) /\ At(p, m)' => Summary(u)' /\ OnEval(m, u)'
      BY <1>1, <1>4, <1>5 DEF Summary, OnEval, At, Counts, Settling, Reporting, Waiting
  <1>9. QED BY <1>1, <1>2, <1>3, <1>5, <1>6, <1>7, <1>8, MoveCourse DEF HandlerPC

LEMMA ReadRowCourse ==
  ASSUME IInv, Holding, Coursed, NEW p \in Procs, NEW m \in Messages, ReadRow(p, m)
  PROVE  Coursed'
  <1> USE DEF stores, workers, history
  <1>1. Goto(p, m, "run") /\ handler[p][m] = "fetch" BY DEF ReadRow
  <1>2. PICK u \in Tasks : u = Task(m) BY <1>1, Focus
  <1>3. handler'[p][m] = "run" BY <1>1, GotoFact DEF IInv, HandlerPC
  <1>4. /\ msg' = msg /\ api' = api /\ status' = status /\ results' = results
        /\ notified' = notified /\ incidents' = incidents
        /\ attempts' = [attempts EXCEPT ![u] = IF @ < CountedRuns THEN @ + 1 ELSE @]
      BY <1>2 DEF ReadRow
  <1>5. /\ attempts[u] < CountedRuns => attempts'[u] = attempts[u] + 1
        /\ attempts[u] \in Nat /\ msg[m].retry \in Nat
        /\ \A t \in Tasks \ {u} : attempts'[t] = attempts[t]
      BY <1>4 DEF IInv, TypeOK, Record
  <1>6. \A t \in Tasks \ {u} : Rows(t) BY <1>4, <1>5 DEF Rows
  <1>7. api[u] = "published" BY <1>1, <1>2, Focus
  <1>8. Opening(u)' /\ Reported(u)'
      BY <1>4, <1>7 DEF Coursed, Opening, Reported
  <1>9. Summary(u) /\ OnEval(m, u) /\ At(p, m) /\ At(p, m)' => Summary(u)' /\ OnEval(m, u)'
      BY <1>1, <1>3, <1>4, <1>5, EvalAssumption
      DEF Summary, OnEval, At, Counts, CountedRuns, Settling, Reporting, Waiting,
          EvalAssumption
  <1>10. QED BY <1>1, <1>2, <1>4, <1>6, <1>8, <1>9, MoveCourse DEF HandlerPC

LEMMA SaveSuccessCourse ==
  ASSUME IInv, Holding, Coursed, NEW p \in Procs, NEW m \in Messages, SaveSuccess(p, m)
  PROVE  Coursed'
  <1> USE DEF stores, workers, history
  <1>1. Goto(p, m, "results") /\ handler[p][m] = "save" BY DEF SaveSuccess
  <1>2. PICK u \in Tasks : u = Task(m) BY <1>1, Focus
  <1>3. handler'[p][m] = "results" BY <1>1, GotoFact DEF IInv, HandlerPC
  <1>4. /\ msg' = msg /\ api' = api /\ results' = results /\ attempts' = attempts
        /\ notified' = notified /\ incidents' = incidents
        /\ status' = [status EXCEPT ![u] = "success"]
      BY <1>2 DEF SaveSuccess
  <1>5. status'[u] = "success" /\ \A t \in Tasks \ {u} : status'[t] = status[t]
      BY <1>4 DEF IInv, TypeOK
  <1>6. \A t \in Tasks \ {u} : Rows(t) BY <1>4, <1>5 DEF Rows
  <1>7. api[u] = "published" BY <1>1, <1>2, Focus
  <1>8. Opening(u)' /\ Reported(u)'
      BY <1>4, <1>5, <1>7 DEF Coursed, Opening, Reported, Settled
  <1>9. Summary(u) /\ OnEval(m, u) /\ At(p, m) /\ At(p, m)' => Summary(u)' /\ OnEval(m, u)'
      BY <1>1, <1>3, <1>4, <1>5
      DEF Summary, OnEval, At, Counts, Settling, Reporting, Waiting, Settled
  <1>10. QED BY <1>1, <1>2, <1>4, <1>6, <1>8, <1>9, MoveCourse DEF HandlerPC

LEMMA StoreResultsCourse ==
  ASSUME IInv, Holding, Coursed, NEW p \in Procs, NEW m \in Messages, StoreResults(p, m)
  PROVE  Coursed'
  <1> USE DEF stores, workers, history
  <1>1. Goto(p, m, "notify") /\ handler[p][m] = "results" BY DEF StoreResults
  <1>2. PICK u \in Tasks : u = Task(m) BY <1>1, Focus
  <1>3. handler'[p][m] = "notify" BY <1>1, GotoFact DEF IInv, HandlerPC
  <1>4. /\ msg' = msg /\ api' = api /\ status' = status /\ attempts' = attempts
        /\ notified' = notified /\ incidents' = incidents
        /\ results' \in {results, [results EXCEPT ![u] = @ + 1]}
      BY <1>2 DEF StoreResults
  <1>5. /\ results'[u] \in {results[u], results[u] + 1} /\ results[u] \in Nat
        /\ \A t \in Tasks \ {u} : results'[t] = results[t]
      BY <1>4 DEF IInv, TypeOK
  <1>6. \A t \in Tasks \ {u} : Rows(t) BY <1>4, <1>5 DEF Rows
  <1>7. api[u] = "published" BY <1>1, <1>2, Focus
  <1>8. Opening(u)' /\ Reported(u)'
      BY <1>4, <1>7 DEF Coursed, Opening, Reported
  <1>9. Summary(u) /\ OnEval(m, u) /\ At(p, m) /\ At(p, m)' => Summary(u)' /\ OnEval(m, u)'
      BY <1>1, <1>3, <1>4, <1>5
      DEF Summary, OnEval, At, Counts, Settling, Reporting, Waiting
  <1>10. QED BY <1>1, <1>2, <1>4, <1>6, <1>8, <1>9, MoveCourse DEF HandlerPC

LEMMA NotifyCourse ==
  ASSUME IInv, Holding, Coursed, NEW p \in Procs, NEW m \in Messages, Notify(p, m)
  PROVE  Coursed'
  <1> USE DEF stores, workers, history
  <1>1. Goto(p, m, "ack") /\ handler[p][m] = "notify" BY DEF Notify
  <1>2. PICK u \in Tasks : u = Task(m) BY <1>1, Focus
  <1>3. handler'[p][m] = "ack" BY <1>1, GotoFact DEF IInv, HandlerPC
  <1>4. /\ msg' = msg /\ api' = api /\ status' = status /\ attempts' = attempts
        /\ results' = results /\ incidents' = incidents
        /\ notified' \in {notified, notified \cup {<<u, "success">>}}
      BY <1>2 DEF Notify
  <1>5. /\ \A t \in Tasks \ {u}, s \in Settled : <<t, s>> \in notified' <=> <<t, s>> \in notified
        /\ <<u, "failed">> \in notified' <=> <<u, "failed">> \in notified
      BY <1>4
  <1>6. \A t \in Tasks \ {u} : Rows(t) BY <1>4, <1>5 DEF Rows
  <1>7. api[u] = "published" /\ status[u] \in Settled
      BY <1>1, <1>2, Focus DEF IInv, Flow, SettledFirst, Settling
  <1>8. Opening(u)' /\ Reported(u)'
      BY <1>4, <1>7 DEF Coursed, Opening, Reported, Settled
  <1>9. Summary(u) /\ OnEval(m, u) /\ At(p, m) /\ At(p, m)' => Summary(u)' /\ OnEval(m, u)'
      BY <1>1, <1>3, <1>4, <1>5
      DEF Summary, OnEval, At, Counts, Settling, Reporting, Waiting, Settled
  <1>10. QED BY <1>1, <1>2, <1>4, <1>6, <1>8, <1>9, MoveCourse DEF HandlerPC

-----------------------------------------------------------------------------
(* Answers: an acknowledged message is gone, one put back or dead-lettered *)
(* is the active one, and nobody works on it.                              *)
LEMMA AckCourse ==
  ASSUME IInv, Holding, Coursed, NEW p \in Procs, NEW m \in Messages,
         SkipDone(p, m) \/ AckDone(p, m)
  PROVE  Coursed'
  <1> USE DEF stores, workers, history
  <1>1. Goto(p, m, "idle") /\ Ack(p, m, EvalQueueName) /\ handler[p][m] # "idle"
      BY DEF SkipDone, AckDone
  <1>2. PICK u \in Tasks : u = Task(m) BY <1>1, Focus
  <1>3. Takes(p, m, EvalQueueName) /\ (Holds(p, m, EvalQueueName) => msg'[m].at = "gone")
      BY <1>1, AckExact, EvalAssumption DEF EvalAssumption, IInv, TypeOK, MsgType
  <1>4. Kept BY <1>1, AckFact, EvalAssumption
      DEF EvalAssumption, IInv, TypeOK, MsgType, Answered
  <1>5. msg'[m].body = u BY <1>1, <1>2, <1>4, Focus DEF Kept, Task
  <1>6. \A k \in Messages \ {m} : Apart(k)
      BY <1>1, <1>3, GotoApart DEF Takes, IInv, HandlerPC
  <1>7. \A t \in Tasks : Rows(t) BY DEF SkipDone, AckDone, Rows
  <1>8. Opening(u)' /\ Reported(u)' BY <1>7, RowsStep DEF Coursed
  <1>9. ASSUME Undisturbed(u)' PROVE Course(u)'
    <2>1. Undisturbed(u) BY <1>7, <1>9 DEF Undisturbed, Rows
    <2>2. ~Live(m)' BY <1>1, <1>2, <1>3, <2>1, Focus DEF Live
    <2>3. QED BY <1>6, <1>7, <2>1, <2>2, GoneCourse DEF Coursed
  <1>10. QED BY <1>5, <1>6, <1>7, <1>8, <1>9, StepOn

(* Nobody works on m. *)
Idle(m) == ~Old(m) /\ ~Saved(m) /\ ~Stored(m) /\ ~Told(m) /\ ~Begun(m) /\ ~Marked(m)

LEMMA IdleNext ==
  ASSUME NEW m \in Messages, \A r \in Procs : handler'[r][m] = "idle" /\ dlq'[r][m] = "idle"
  PROVE  Idle(m)'
  BY DEF Idle, Old, Saved, Stored, Told, Begun, Marked, Settling, Reporting, Waiting

LEMMA BackCourse ==
  ASSUME IInv, Holding, Coursed, Remembered, NEW p \in Procs, NEW m \in Messages,
         handler[p][m] \notin {"idle", "ackOld"}, Goto(p, m, "idle"),
         Takes(p, m, EvalQueueName), Kept,
         NEW u \in Tasks, u = Task(m), \A t \in Tasks \ {u} : Rows(t),
         Opening(u)', Reported(u)',
         /\ Summary(u) /\ OnEval(m, u) /\ At(p, m) /\ Idle(m)'
         /\ Holds(p, m, EvalQueueName)
         => Summary(u)' /\ Placed(m, u)'
  PROVE  Coursed'
  <1>1. msg'[m].body = u BY Focus DEF Kept, Task
  <1>2. \A k \in Messages \ {m} : Apart(k) BY GotoApart DEF Takes, IInv, HandlerPC
  <1>3. ASSUME Undisturbed(u)' PROVE Course(u)'
    <2>1. Undisturbed(u) BY <1>3 DEF Undisturbed, Remembered
    <2>2. /\ Holds(p, m, EvalQueueName) /\ Alone(p, m)
          /\ \A r \in Procs : dlq[r][m] = "idle"
        BY <2>1, Focus
    <2>3. Idle(m)' BY <2>2, GotoFact, IdleNext DEF Alone, IInv, HandlerPC
    <2>4. /\ Course(u) /\ Summary(u) /\ Active(m, u) /\ At(p, m) /\ OnEval(m, u)
        BY <2>1, FocusActive
    <2>5. Summary(u)' /\ Placed(m, u)' BY <2>2, <2>3, <2>4
    <2>6. QED BY <1>2, <2>4, <2>5, MovedCourse
  <1>4. QED BY <1>1, <1>2, <1>3, StepOn

LEMMA SaveFailsCourse ==
  ASSUME IInv, Holding, Coursed, Remembered, NEW p \in Procs, NEW m \in Messages,
         SaveFails(p, m) \/ RetryFails(p, m)
  PROVE  Coursed'
  <1> USE DEF stores, workers, history
  <1>1. /\ Goto(p, m, "idle") /\ Requeue(p, m, EvalQueueName)
        /\ handler[p][m] \in {"save", "fail"}
      BY DEF SaveFails, RetryFails
  <1>2. PICK u \in Tasks : u = Task(m) BY <1>1, Focus
  <1>3. /\ Takes(p, m, EvalQueueName)
        /\ Holds(p, m, EvalQueueName) => msg'[m].queue = EvalQueueName
      BY <1>1, RequeueExact, EvalAssumption DEF EvalAssumption, IInv, TypeOK, MsgType
  <1>4. Kept BY <1>1, RequeueFact, EvalAssumption
      DEF EvalAssumption, IInv, TypeOK, MsgType, Answered
  <1>5. /\ api' = api /\ results' = results /\ notified' = notified /\ attempts' = attempts
        /\ \/ status' = status /\ Befalls(u, "requeued")
           \/ status' = [status EXCEPT ![u] = "success"] /\ Befalls(u, "replyLost")
      BY <1>2 DEF SaveFails, RetryFails, Befalls
  <1>6. /\ \A t \in Tasks \ {u} : status'[t] = status[t] /\ incidents'[t] = incidents[t]
        /\ \/ status'[u] = status[u] /\ incidents'[u] = incidents[u] \cup {"requeued"}
           \/ status'[u] = "success" /\ incidents'[u] = incidents[u] \cup {"replyLost"}
      BY <1>5 DEF Befalls, IInv, TypeOK
  <1>7. \A t \in Tasks \ {u} : Rows(t) BY <1>5, <1>6 DEF Rows
  <1>8. api[u] = "published" BY <1>1, <1>2, Focus
  <1>9. Opening(u)' /\ Reported(u)'
      BY <1>5, <1>6, <1>8 DEF Coursed, Opening, Reported, Settled
  <1>10. ~Counts(u)' BY <1>6 DEF Counts
  <1>11. EvalQueueName # EvalDLQName BY DEF EvalQueueName, EvalDLQName
  <1>12. ASSUME Summary(u), OnEval(m, u), At(p, m), Idle(m)', Holds(p, m, EvalQueueName)
         PROVE  Summary(u)' /\ Placed(m, u)'
    <2>1. /\ ~Saved(m) /\ ~Told(m) /\ ~Stored(m)
        BY <1>1, <1>12 DEF At, Settling, Reporting
    <2>2. <<u, "failed">> \notin notified /\ <<u, "success">> \notin notified
        BY <1>12, <2>1 DEF OnEval
    <2>3. Summary(u)' BY <1>5, <1>10, <1>12, <2>2 DEF Summary, Settled
    <2>4. OnEval(m, u)'
        BY <1>5, <1>6, <1>10, <1>12, <2>1, <2>2 DEF OnEval, Idle
    <2>5. QED BY <1>3, <1>11, <1>12, <2>3, <2>4 DEF Placed
  <1>13. QED BY <1>1, <1>2, <1>3, <1>4, <1>7, <1>9, <1>12, BackCourse

LEMMA DeadLetterCourse ==
  ASSUME IInv, Holding, Coursed, Remembered, NEW p \in Procs, NEW m \in Messages,
         ReadFails(p, m) \/ GiveUp(p, m)
  PROVE  Coursed'
  <1> USE DEF stores, workers, history
  <1>1. /\ Goto(p, m, "idle") /\ DeadLetter(p, m, EvalQueueName, EvalDLQName)
        /\ handler[p][m] \in {"fetch", "fail"}
      BY DEF ReadFails, GiveUp
  <1>2. PICK u \in Tasks : u = Task(m) BY <1>1, Focus
  <1>3. /\ Takes(p, m, EvalQueueName)
        /\ Holds(p, m, EvalQueueName) => msg'[m].queue = EvalDLQName
      BY <1>1, DeadLetterExact, EvalAssumption DEF EvalAssumption, IInv, TypeOK, MsgType
  <1>4. Kept BY <1>1, DeadLetterFact, EvalAssumption
      DEF EvalAssumption, IInv, TypeOK, MsgType, Answered
  <1>5. /\ api' = api /\ results' = results /\ notified' = notified /\ attempts' = attempts
        /\ status' = status /\ (incidents' = incidents \/ Befalls(u, "unread"))
      BY <1>2 DEF ReadFails, GiveUp, Befalls
  <1>6. \A t \in Tasks \ {u} : incidents'[t] = incidents[t]
      BY <1>5 DEF Befalls, IInv, TypeOK
  <1>7. \A t \in Tasks \ {u} : Rows(t) BY <1>5, <1>6 DEF Rows
  <1>8. Opening(u)' /\ Reported(u)' BY <1>5 DEF Coursed, Opening, Reported
  <1>9. incidents[u] \subseteq incidents'[u] BY DEF Remembered
  <1>10. EvalQueueName # EvalDLQName BY DEF EvalQueueName, EvalDLQName
  <1>11. ASSUME Summary(u), OnEval(m, u), At(p, m), Idle(m)', Holds(p, m, EvalQueueName)
         PROVE  Summary(u)' /\ Placed(m, u)'
    <2>1. /\ ~Saved(m) /\ ~Told(m)
        BY <1>1, <1>11 DEF At, Settling, Reporting
    <2>2. <<u, "failed">> \notin notified /\ <<u, "success">> \notin notified
        BY <1>11, <2>1 DEF OnEval
    <2>3. Summary(u)' BY <1>5, <1>9, <1>11, <2>2 DEF Summary, Settled, Counts
    <2>4. OnDlq(m, u)'
        BY <1>5, <1>9, <1>11, <2>1, <2>2 DEF OnDlq, OnEval, Idle
    <2>5. QED BY <1>3, <1>10, <1>11, <2>3, <2>4 DEF Placed
  <1>12. handler[p][m] \notin {"idle", "ackOld"} BY <1>1
  <1>13. QED BY <1>1, <1>2, <1>3, <1>4, <1>7, <1>8, <1>11, <1>12, BackCourse

-----------------------------------------------------------------------------
(* The DLQ worker. *)
LEMMA DlqFocus ==
  ASSUME IInv, Holding, NEW p \in Procs, NEW m \in Messages, dlq[p][m] # "idle"
  PROVE  /\ msg[m].at # "unsent" /\ Task(m) \in Tasks /\ api[Task(m)] = "published"
         /\ Holds(p, m, EvalDLQName) /\ Live(m) /\ msg[m].queue = EvalDLQName
         /\ \A r \in Procs \ {p} : dlq[r][m] = "idle"
         /\ Undisturbed(Task(m)) => \A r \in Procs : handler[r][m] = "idle"
  <1>0. EvalQueueName # EvalDLQName BY DEF EvalQueueName, EvalDLQName
  <1>1. Holds(p, m, EvalDLQName) BY DEF Holding
  <1>2. msg[m].at # "unsent" /\ Task(m) \in Tasks /\ api[Task(m)] = "published"
      BY DEF IInv, Flow, Sent
  <1>3. \A r \in Procs \ {p} : dlq[r][m] = "idle" BY <1>1 DEF Holding, Holds
  <1>4. Undisturbed(Task(m)) => \A r \in Procs : handler[r][m] = "idle"
      BY <1>0, <1>1 DEF Holding, Holds
  <1>5. QED BY <1>1, <1>2, <1>3, <1>4 DEF Holds, Live

LEMMA DlqFocusActive ==
  ASSUME IInv, Holding, Coursed, NEW p \in Procs, NEW m \in Messages, dlq[p][m] # "idle",
         NEW u \in Tasks, u = Task(m), Undisturbed(u)
  PROVE  /\ Course(u) /\ Summary(u) /\ Active(m, u) /\ OnDlq(m, u)
         /\ Marked(m) <=> dlq[p][m] \in Reporting
  <1>1. Active(m, u) BY DlqFocus DEF Active, Old
  <1>2. Marked(m) <=> dlq[p][m] \in Reporting BY DlqFocus DEF Marked, Reporting
  <1>3. QED BY <1>1, <1>2, DlqFocus DEF Coursed, Course, Placed

LEMMA DlqMoveCourse ==
  ASSUME IInv, Holding, Coursed, NEW p \in Procs, NEW m \in Messages,
         NEW pc \in DlqPC, dlq[p][m] # "idle", DlqGoto(p, m, pc),
         Takes(p, m, EvalDLQName), Kept, msg'[m].queue = EvalDLQName,
         NEW u \in Tasks, u = Task(m), \A t \in Tasks \ {u} : Rows(t),
         incidents' = incidents, Opening(u)', Reported(u)',
         /\ Summary(u) /\ OnDlq(m, u)
         /\ (Marked(m) <=> dlq[p][m] \in Reporting) /\ (Marked(m)' <=> pc \in Reporting)
         => Summary(u)' /\ OnDlq(m, u)'
  PROVE  Coursed'
  <1>1. \A k \in Messages \ {m} : Apart(k) BY DlqGotoApart DEF Takes, IInv
  <1>2. msg'[m].body = u BY DlqFocus DEF Kept, Task
  <1>3. ASSUME Undisturbed(u)' PROVE Course(u)'
    <2>1. Undisturbed(u) BY <1>3 DEF Undisturbed
    <2>2. Marked(m)' <=> pc \in Reporting
        BY DlqFocus, DlqGotoFact DEF Marked, Reporting, IInv
    <2>3. /\ Course(u) /\ Summary(u) /\ Active(m, u) /\ OnDlq(m, u)
          /\ Marked(m) <=> dlq[p][m] \in Reporting
        BY <2>1, DlqFocusActive
    <2>4. Summary(u)' /\ OnDlq(m, u)' BY <2>2, <2>3
    <2>5. EvalQueueName # EvalDLQName BY DEF EvalQueueName, EvalDLQName
    <2>6. Placed(m, u)' BY <2>4, <2>5 DEF Placed
    <2>7. QED BY <1>1, <2>3, <2>4, <2>6, MovedCourse
  <1>4. QED BY <1>1, <1>2, <1>3, StepOn

LEMMA DlqMarkCourse ==
  ASSUME IInv, Holding, Coursed, NEW p \in Procs, NEW m \in Messages,
         DlqMark(p, m) \/ DlqNotify(p, m)
  PROVE  Coursed'
  <1> USE DEF stores, workers, history
  <1>1. PICK pc \in {"notify", "ack"} :
          /\ DlqGoto(p, m, pc)
          /\ pc = "notify" => DlqMark(p, m) /\ dlq[p][m] = "mark"
          /\ pc = "ack" => DlqNotify(p, m) /\ dlq[p][m] = "notify"
      BY DEF DlqMark, DlqNotify
  <1>2. dlq[p][m] # "idle" BY <1>1
  <1>3. PICK u \in Tasks : u = Task(m) BY <1>2, DlqFocus
  <1>4. /\ msg' = msg /\ api' = api /\ results' = results /\ attempts' = attempts
        /\ incidents' = incidents
        /\ pc = "notify" => notified' = notified /\ status' = [status EXCEPT ![u] = "failed"]
        /\ pc = "ack" => status' = status /\ notified' = notified \cup {<<u, "failed">>}
      BY <1>1, <1>3 DEF DlqMark, DlqNotify
  <1>5. /\ \A t \in Tasks \ {u} : status'[t] = status[t]
        /\ \A t \in Tasks \ {u}, s \in Settled : <<t, s>> \in notified' <=> <<t, s>> \in notified
        /\ <<u, "success">> \in notified' <=> <<u, "success">> \in notified
        /\ pc = "notify" => status'[u] = "failed"
      BY <1>4 DEF IInv, TypeOK
  <1>6. \A t \in Tasks \ {u} : Rows(t) BY <1>4, <1>5 DEF Rows
  <1>7. api[u] = "published" /\ (pc = "ack" => status[u] \in Settled)
      BY <1>1, <1>2, <1>3, DlqFocus DEF IInv, Flow, SettledFirst, Reporting
  <1>8. Opening(u)' /\ Reported(u)'
      BY <1>1, <1>4, <1>5, <1>7 DEF Coursed, Opening, Reported, Settled
  <1>9. /\ Summary(u) /\ OnDlq(m, u)
        /\ (Marked(m) <=> dlq[p][m] \in Reporting) /\ (Marked(m)' <=> pc \in Reporting)
        => Summary(u)' /\ OnDlq(m, u)'
      BY <1>1, <1>4, <1>5 DEF Summary, OnDlq, Counts, Reporting, Settled
  <1>10. Takes(p, m, EvalDLQName) /\ Kept BY <1>4, QuietBroker DEF Takes, Only, Calm
  <1>11. msg'[m].queue = EvalDLQName BY <1>2, <1>4, DlqFocus
  <1>12. QED
      BY <1>1, <1>2, <1>3, <1>4, <1>6, <1>8, <1>9, <1>10, <1>11, DlqMoveCourse DEF DlqPC

LEMMA DlqFailsCourse ==
  ASSUME IInv, Holding, Coursed, NEW p \in Procs, NEW m \in Messages, DlqFails(p, m)
  PROVE  Coursed'
  <1> USE DEF stores, workers, history
  <1>1. DlqGoto(p, m, "idle") /\ Requeue(p, m, EvalDLQName) /\ dlq[p][m] \in {"mark", "notify"}
      BY DEF DlqFails
  <1>2. dlq[p][m] # "idle" BY <1>1
  <1>3. PICK u \in Tasks : u = Task(m) BY <1>2, DlqFocus
  <1>4. /\ api' = api /\ results' = results /\ attempts' = attempts /\ incidents' = incidents
        /\ \/ notified' = notified /\ status' = status
           \/ notified' = notified /\ status' = [status EXCEPT ![u] = "failed"]
           \/ /\ dlq[p][m] = "notify"
              /\ status' = status /\ notified' = notified \cup {<<u, "failed">>}
      BY <1>3 DEF DlqFails
  <1>5. /\ \A t \in Tasks \ {u} : status'[t] = status[t]
        /\ \A t \in Tasks \ {u}, s \in Settled : <<t, s>> \in notified' <=> <<t, s>> \in notified
        /\ <<u, "success">> \in notified' <=> <<u, "success">> \in notified
        /\ \/ status'[u] = status[u] /\ (<<u, "failed">> \in notified' <=> <<u, "failed">> \in notified)
           \/ status'[u] = "failed"
           \/ dlq[p][m] = "notify" /\ status'[u] = status[u]
      BY <1>4 DEF IInv, TypeOK
  <1>6. \A t \in Tasks \ {u} : Rows(t) BY <1>4, <1>5 DEF Rows
  <1>7. api[u] = "published" /\ (dlq[p][m] = "notify" => status[u] \in Settled)
      BY <1>2, <1>3, DlqFocus DEF IInv, Flow, SettledFirst, Reporting
  <1>8. Opening(u)' /\ Reported(u)'
      BY <1>4, <1>5, <1>7 DEF Coursed, Opening, Reported, Settled
  <1>9. /\ Summary(u) /\ OnDlq(m, u)
        /\ (Marked(m) <=> dlq[p][m] \in Reporting) /\ (Marked(m)' <=> "idle" \in Reporting)
        => Summary(u)' /\ OnDlq(m, u)'
      BY <1>4, <1>5 DEF Summary, OnDlq, Counts, Reporting, Settled
  <1>10. Takes(p, m, EvalDLQName) /\ Kept
      BY <1>1, RequeueExact, RequeueFact, EvalAssumption
      DEF EvalAssumption, IInv, TypeOK, MsgType, Answered
  <1>11. msg'[m].queue = EvalDLQName
      BY <1>1, <1>2, DlqFocus, RequeueExact, EvalAssumption
      DEF EvalAssumption, IInv, TypeOK, MsgType
  <1>12. QED
      BY <1>1, <1>2, <1>3, <1>4, <1>6, <1>8, <1>9, <1>10, <1>11, DlqMoveCourse DEF DlqPC

LEMMA DlqAckCourse ==
  ASSUME IInv, Holding, Coursed, NEW p \in Procs, NEW m \in Messages, DlqAck(p, m)
  PROVE  Coursed'
  <1> USE DEF stores, workers, history
  <1>1. DlqGoto(p, m, "idle") /\ Ack(p, m, EvalDLQName) /\ dlq[p][m] # "idle"
      BY DEF DlqAck
  <1>2. PICK u \in Tasks : u = Task(m) BY <1>1, DlqFocus
  <1>3. Takes(p, m, EvalDLQName) /\ Kept
      BY <1>1, AckExact, AckFact, EvalAssumption
      DEF EvalAssumption, IInv, TypeOK, MsgType, Answered
  <1>4. ~Live(m)'
      BY <1>1, DlqFocus, AckExact, EvalAssumption DEF EvalAssumption, IInv, TypeOK, MsgType, Live
  <1>5. msg'[m].body = u BY <1>1, <1>2, <1>3, DlqFocus DEF Kept, Task
  <1>6. \A k \in Messages \ {m} : Apart(k)
      BY <1>1, <1>3, DlqGotoApart DEF Takes, IInv, DlqPC
  <1>7. \A t \in Tasks : Rows(t) BY DEF DlqAck, Rows
  <1>8. Opening(u)' /\ Reported(u)' BY <1>7, RowsStep DEF Coursed
  <1>9. ASSUME Undisturbed(u)' PROVE Course(u)'
    <2>1. Undisturbed(u) BY <1>7, <1>9 DEF Undisturbed, Rows
    <2>2. QED BY <1>4, <1>6, <1>7, <2>1, GoneCourse DEF Coursed
  <1>10. QED BY <1>5, <1>6, <1>7, <1>8, <1>9, StepOn

-----------------------------------------------------------------------------
(* A delivery: nobody worked on the message before, and nobody has begun   *)
(* to after.                                                               *)
LEMMA DeliverCourse ==
  ASSUME IInv, Holding, Coursed, NEW p \in Procs, NEW m \in Messages,
         Deliver(p, m) \/ DlqDeliver(p, m)
  PROVE  Coursed'
  <1> USE DEF stores, workers, history
  <1>1. /\ Only(m) /\ Kept /\ StaysLive /\ msg[m].at = "ready" /\ msg'[m].queue = msg[m].queue
      BY ConsumeFact, EvalAssumption
      DEF Deliver, DlqDeliver, EvalAssumption, IInv, TypeOK, MsgType
  <1>2. PICK u \in Tasks : u = Task(m) BY <1>1 DEF IInv, Flow, Sent
  <1>3. \A k \in Messages \ {m} : Apart(k)
      BY <1>1, GotoApart, DlqGotoApart DEF Deliver, DlqDeliver, IInv, HandlerPC, DlqPC
  <1>4. \A t \in Tasks : Rows(t) BY DEF Deliver, DlqDeliver, Rows
  <1>5. Opening(u)' /\ Reported(u)' BY <1>4, RowsStep DEF Coursed
  <1>6. msg'[m].body = u BY <1>1, <1>2 DEF Kept, Task
  <1>7. ASSUME Undisturbed(u)' PROVE Course(u)'
    <2>1. Undisturbed(u) BY <1>4, <1>7 DEF Undisturbed, Rows
    <2>2. \A r \in Procs : handler[r][m] = "idle" /\ dlq[r][m] = "idle"
        BY <1>1, <1>2, <2>1, NobodyWorks
    <2>3. \A r \in Procs :
            handler'[r][m] \in {"idle", "buffered"} /\ dlq'[r][m] \in {"idle", "mark"}
        BY <2>2, GotoFact, DlqGotoFact DEF Deliver, DlqDeliver, IInv, HandlerPC, DlqPC
    <2>4. /\ ~Old(m) /\ ~Saved(m) /\ ~Stored(m) /\ ~Told(m) /\ ~Begun(m) /\ ~Marked(m)
        BY <2>2 DEF Old, Saved, Stored, Told, Begun, Marked, Settling, Reporting, Waiting
    <2>5. /\ ~Old(m)' /\ ~Saved(m)' /\ ~Stored(m)' /\ ~Told(m)' /\ ~Begun(m)' /\ ~Marked(m)'
        BY <2>3 DEF Old, Saved, Stored, Told, Begun, Marked, Settling, Reporting, Waiting
    <2>6. Active(m, u) BY <1>1, <1>2, <2>4 DEF Active, Live
    <2>7. Course(u) BY <2>1 DEF Coursed
    <2>8. Placed(m, u) /\ Summary(u) BY <2>6, <2>7 DEF Course
    <2>9. Summary(u)' BY <1>4, <2>8, SummaryRows
    <2>10. msg'[m].retry = msg[m].retry BY <1>1 DEF Kept
    <2>11. Placed(m, u)'
      <3>1. OnEval(m, u) => OnEval(m, u)'
          BY <1>4, <2>4, <2>5, <2>10 DEF OnEval, Rows, Counts, Settled
      <3>2. OnDlq(m, u) => OnDlq(m, u)' BY <1>4, <2>4, <2>5 DEF OnDlq, Rows, Settled
      <3>3. QED BY <1>1, <2>8, <3>1, <3>2 DEF Placed
    <2>12. QED BY <1>3, <2>6, <2>7, <2>9, <2>11, MovedCourse
  <1>8. QED BY <1>3, <1>4, <1>5, <1>6, <1>7, StepOn

-----------------------------------------------------------------------------
(* Publications: the new message is the active one. *)
LEMMA PublishCourse ==
  ASSUME IInv, Holding, Coursed, NEW t \in Tasks, PublishTask(t) PROVE Coursed'
  <1> USE DEF stores, workers, history
  <1>1. PICK n \in Messages :
          /\ msg[n].at = "unsent" /\ Only(n)
          /\ msg'[n] = [at |-> "ready", queue |-> EvalQueueName, body |-> t,
                        retry |-> 0, owner |-> NoProc]
      BY PublishFact, EvalAssumption
      DEF PublishTask, EvalAssumption, IInv, TypeOK, MsgType, Tasks
  <1>2. /\ api[t] = "committed" /\ api' = [api EXCEPT ![t] = "published"]
        /\ status' = status /\ results' = results /\ notified' = notified
        /\ attempts' = attempts /\ incidents' = incidents /\ handler' = handler /\ dlq' = dlq
      BY DEF PublishTask
  <1>3. api'[t] = "published" /\ \A u \in Tasks \ {t} : api'[u] = api[u]
      BY <1>2 DEF IInv, TypeOK
  <1>4. \A k \in Messages \ {n} : Apart(k) BY <1>1, <1>2 DEF Apart, Only
  <1>5. \A u \in Tasks \ {t} : Rows(u) BY <1>2, <1>3 DEF Rows
  <1>6. /\ status[t] = "pending" /\ results[t] = 0 /\ attempts[t] = 0
        /\ \A s \in Settled : <<t, s>> \notin notified
      BY <1>2 DEF Coursed, Opening
  <1>7. Opening(t)' /\ Reported(t)' BY <1>2, <1>3, <1>6 DEF Opening, Reported
  <1>8. Course(t)'
    <2>1. \A k \in Messages : Active(k, t)' => k = n
      <3>1. \A k \in Messages : Live(k) => Task(k) # t
          BY <1>2 DEF IInv, Flow, Sent, Live
      <3>2. QED BY <1>1, <3>1 DEF Only, Active, Live, Task
    <2>2. \A r \in Procs : handler'[r][n] = "idle" /\ dlq'[r][n] = "idle"
        BY <1>1, <1>2 DEF IInv, Flow, Sent
    <2>3. Idle(n)' BY <2>2, IdleNext
    <2>4. Summary(t)' BY <1>2, <1>6, EvalAssumption DEF Summary, EvalAssumption
    <2>5. OnEval(n, t)'
        BY <1>1, <1>2, <1>6, <2>3, EvalAssumption
        DEF OnEval, Idle, Settled, EvalAssumption
    <2>6. EvalQueueName # EvalDLQName BY DEF EvalQueueName, EvalDLQName
    <2>7. Placed(n, t)' BY <1>1, <2>5, <2>6 DEF Placed
    <2>8. QED BY <2>1, <2>4, <2>7 DEF Course
  <1>9. msg'[n].body = t BY <1>1
  <1>10. QED BY <1>4, <1>5, <1>7, <1>8, <1>9, StepOn

LEMMA RetryCourse ==
  ASSUME IInv, Holding, Coursed, NEW p \in Procs, NEW m \in Messages, Retry(p, m)
  PROVE  Coursed'
  <1> USE DEF stores, workers, history
  <1>1. handler[p][m] = "fail" /\ Goto(p, m, "ackOld") /\ msg[m].retry < EvalMaxRetry
      BY EvalAssumption DEF Retry, RetriesExceeded, IInv, TypeOK, Record, EvalAssumption
  <1>2. PICK u \in Tasks : u = Task(m) BY <1>1, Focus
  <1>3. msg[m].at # "unsent" /\ msg[m].retry \in Nat
      BY <1>1, Focus DEF IInv, TypeOK, Record
  <1>4. /\ Kept
        /\ \E n \in Messages :
             /\ msg[n].at = "unsent" /\ Only(n)
             /\ msg'[n] = [at |-> "ready", queue |-> EvalQueueName, body |-> u,
                           retry |-> msg[m].retry + 1, owner |-> NoProc]
      BY <1>2, <1>3, PublishFact, EvalAssumption
      DEF Retry, EvalAssumption, IInv, TypeOK, MsgType, Tasks
  <1>5. PICK n \in Messages :
          /\ msg[n].at = "unsent" /\ Only(n)
          /\ msg'[n] = [at |-> "ready", queue |-> EvalQueueName, body |-> u,
                        retry |-> msg[m].retry + 1, owner |-> NoProc]
      BY <1>4
  <1>6. /\ handler'[p][m] = "ackOld" /\ dlq' = dlq
        /\ \A r \in Procs, k \in Messages :
             r # p \/ k # m => handler'[r][k] = handler[r][k]
      BY <1>1, GotoFact DEF IInv, HandlerPC
  <1>7. \A k \in Messages \ {m, n} : Apart(k) BY <1>5, <1>6 DEF Apart, Only
  <1>8. \A t \in Tasks : Rows(t) BY DEF Retry, Rows
  <1>9. msg'[m].body = u /\ msg'[n].body = u BY <1>2, <1>3, <1>4, <1>5 DEF Kept, Task
  <1>10. ASSUME NEW t \in Tasks, Undisturbed(t)' PROVE Course(t)'
    <2>1. Undisturbed(t) /\ Course(t) BY <1>8, <1>10 DEF Undisturbed, Rows, Coursed
    <2>2. CASE t # u
      <3>1. \A k \in Messages : Apart(k) \/ Task(k)' # t BY <1>7, <1>9, <2>2 DEF Task
      <3>2. QED BY <1>8, <2>1, <3>1, FrameCourse
    <2>3. CASE t = u
      <3>1. Undisturbed(u) BY <2>1, <2>3
      <3>2. handler[p][m] \notin {"idle", "ackOld"} BY <1>1
      <3>3. /\ Course(u) /\ Summary(u) /\ Active(m, u) /\ At(p, m) /\ OnEval(m, u)
          BY <1>2, <3>1, <3>2, FocusActive
      <3>4. \A k \in Messages : Active(k, u)' => k = n
        <4>1. Old(m)' BY <1>6 DEF Old
        <4>2. \A k \in Messages \ {m, n} : Active(k, u)' => Active(k, u) BY <1>7, ApartActive
        <4>3. QED BY <3>3, <4>1, <4>2 DEF Course, Active
      <3>5. \A r \in Procs : handler'[r][n] = "idle" /\ dlq'[r][n] = "idle"
          BY <1>3, <1>5, <1>6 DEF IInv, Flow, Sent
      <3>6. Idle(n)' BY <3>5, IdleNext
      <3>7. Summary(u)' BY <1>8, <3>3, SummaryRows
      <3>8. ~Saved(m) /\ ~Told(m) /\ ~Stored(m) /\ Begun(m)
          BY <1>1, <3>3 DEF At, Settling, Reporting, Waiting
      <3>9. OnEval(n, u)'
          BY <1>1, <1>3, <1>5, <1>8, <3>3, <3>6, <3>8, EvalAssumption
          DEF OnEval, Idle, Rows, Counts, Settled, EvalAssumption
      <3>10. EvalQueueName # EvalDLQName BY DEF EvalQueueName, EvalDLQName
      <3>11. Placed(n, u)' BY <1>5, <3>9, <3>10 DEF Placed
      <3>12. QED BY <2>3, <3>4, <3>7, <3>11 DEF Course
    <2>4. QED BY <2>2, <2>3
  <1>11. \A t \in Tasks : Opening(t)' /\ Reported(t)' BY <1>8, RowsStep DEF Coursed
  <1>12. QED BY <1>10, <1>11 DEF Coursed

-----------------------------------------------------------------------------
(* A closed channel touches no task that stays undisturbed. *)
LEMMA CloseCourse ==
  ASSUME IInv, Holding, Coursed, Remembered, NEW p \in Procs, Dies(p) \/ LoseChannel(p)
  PROVE  Coursed'
  <1> USE DEF stores, workers, history
  <1>0. EvalQueueName # EvalDLQName BY DEF EvalQueueName, EvalDLQName
  <1>1. PICK qs \in SUBSET Queues :
          /\ EvalQueueName \in qs /\ Release(p, qs) /\ Redelivered(Held(p, qs))
          /\ EvalDLQName \notin qs => dlq' = dlq
      BY EvalAssumption DEF Dies, LoseChannel, EvalAssumption
  <1>2. /\ Kept
        /\ \A k \in Messages : k \notin Held(p, qs) => msg'[k] = msg[k]
      BY <1>1, ReleaseFact, ReleaseExact, BrokerAssumption DEF IInv, TypeOK, MsgType
  <1>3. /\ \A r \in Procs \ {p} : handler'[r] = handler[r] /\ dlq'[r] = dlq[r]
        /\ \A k \in Messages : handler[p][k] = "idle" => handler'[p][k] = "idle"
        /\ \A k \in Messages : dlq[p][k] = "idle" => dlq'[p][k] = "idle"
    <2>1. CASE Dies(p) BY <2>1 DEF Dies, IInv, TypeOK
    <2>2. CASE LoseChannel(p) BY <2>2 DEF LoseChannel, IInv, TypeOK
    <2>3. QED BY <2>1, <2>2
  <1>4. /\ api' = api /\ status' = status /\ results' = results
        /\ notified' = notified /\ attempts' = attempts
      BY DEF Dies, LoseChannel
  <1>5. \A t \in Tasks : Opening(t)' /\ Reported(t)'
      BY <1>4 DEF Coursed, Opening, Reported
  <1>6. ASSUME NEW t \in Tasks, Undisturbed(t)' PROVE Course(t)'
    <2>1. Undisturbed(t) /\ Course(t) BY <1>6 DEF Undisturbed, Remembered, Coursed
    <2>2. incidents'[t] = incidents[t]
        BY <1>1, <1>6 DEF Redelivered, Undisturbed
    <2>3. Rows(t) BY <1>4, <2>2 DEF Rows
    <2>4. ASSUME NEW k \in Messages, Task(k)' = t PROVE Apart(k)
      <3>1. CASE msg[k].at = "unsent"
        <4>1. k \notin Held(p, qs) BY <3>1 DEF Held, Holds
        <4>2. \A r \in Procs : handler[r][k] = "idle" /\ dlq[r][k] = "idle"
            BY <3>1 DEF IInv, Flow, Sent
        <4>3. QED BY <1>2, <1>3, <4>1, <4>2 DEF Apart
      <3>2. CASE msg[k].at # "unsent"
        <4>1. Task(k) = t BY <1>2, <2>4, <3>2 DEF Kept, Task
        <4>2. Held(p, qs) \in SUBSET Messages BY DEF Held
        <4>3. k \notin Held(p, qs)
            BY <1>1, <1>6, <2>4, <3>2, <4>1, <4>2, GivenBack
        <4>4. handler[p][k] = "idle"
            BY <1>1, <2>1, <4>1, <4>3 DEF Holding, Held
        <4>5. EvalDLQName \in qs => dlq[p][k] = "idle" BY <4>3 DEF Holding, Held
        <4>6. \A r \in Procs : handler'[r][k] = handler[r][k] /\ dlq'[r][k] = dlq[r][k]
            BY <1>1, <1>3, <4>4, <4>5
        <4>7. QED BY <1>2, <4>3, <4>6 DEF Apart
      <3>3. QED BY <3>1, <3>2
    <2>5. \A k \in Messages : Apart(k) \/ Task(k)' # t BY <2>4
    <2>6. QED BY <2>1, <2>3, <2>5, FrameCourse
  <1>7. QED BY <1>5, <1>6 DEF Coursed

(* Requests and the rest: no message moves. *)
LEMMA QuietCourse ==
  ASSUME IInv, Coursed, msg' = msg, handler' = handler, dlq' = dlq, results' = results,
         attempts' = attempts, notified' = notified, incidents' = incidents,
         \A t \in Tasks : /\ api[t] = "published" => Rows(t)
                          /\ api[t] # "published" => Opening(t)' /\ status'[t] \notin Settled
  PROVE  Coursed'
  <1>1. \A k \in Messages : Apart(k) BY DEF Apart
  <1>2. ASSUME NEW t \in Tasks PROVE Opening(t)' /\ Reported(t)' /\ (Undisturbed(t)' => Course(t)')
    <2>1. CASE api[t] = "published"
        BY <1>1, <2>1, RowsStep, FrameCourse DEF Coursed, Rows, Undisturbed
    <2>2. CASE api[t] # "published"
      <3>1. results[t] = 0 /\ attempts[t] = 0 /\ \A s \in Settled : <<t, s>> \notin notified
          BY <2>2 DEF Coursed, Opening
      <3>2. \A k \in Messages : ~Active(k, t)
          BY <2>2 DEF IInv, Flow, Sent, Active, Live
      <3>3. \A k \in Messages : ~Active(k, t)' BY <1>1, <3>2, ApartActive
      <3>4. Summary(t)' BY <3>1, EvalAssumption DEF Summary, EvalAssumption
      <3>5. QED BY <2>2, <3>1, <3>3, <3>4 DEF Course, Reported
    <2>3. QED BY <2>1, <2>2
  <1>3. QED BY <1>2 DEF Coursed

LEMMA RequestCourse ==
  ASSUME IInv, Coursed, NEW t \in Tasks,
         CommitTask(t) \/ RejectTask(t) \/ OrphanTask(t) \/ FatalRequest
  PROVE  Coursed'
  <1> USE DEF stores, workers, history
  <1>1. /\ msg' = msg /\ handler' = handler /\ dlq' = dlq /\ results' = results
        /\ attempts' = attempts /\ notified' = notified /\ incidents' = incidents
      BY DEF CommitTask, RejectTask, OrphanTask, FatalRequest
  <1>2. ASSUME NEW u \in Tasks
        PROVE  /\ api[u] = "published" => Rows(u)
               /\ api[u] # "published" => Opening(u)' /\ status'[u] \notin Settled
    <2>1. Opening(u) BY DEF Coursed
    <2>2. /\ api[u] = "published" => api'[u] = api[u] /\ status'[u] = status[u]
          /\ api[u] # "published" =>
               /\ api'[u] # "published"
               /\ api'[u] \in {"new", "rejected"} => status'[u] = "none"
               /\ api'[u] \in {"committed", "orphaned"} => status'[u] = "pending"
      <3>1. CASE CommitTask(t) BY <2>1, <3>1 DEF CommitTask, IInv, TypeOK, Opening
      <3>2. CASE RejectTask(t) BY <2>1, <3>2 DEF RejectTask, IInv, TypeOK, Opening
      <3>3. CASE OrphanTask(t) BY <2>1, <3>3 DEF OrphanTask, IInv, TypeOK, Opening
      <3>4. CASE FatalRequest BY <2>1, <3>4 DEF FatalRequest, IInv, TypeOK, Opening
      <3>5. QED BY <3>1, <3>2, <3>3, <3>4
    <2>3. api'[u] \in {"new", "rejected", "committed", "published", "orphaned"}
        BY DEF CommitTask, RejectTask, OrphanTask, FatalRequest, IInv, TypeOK
    <2>4. CASE api[u] = "published" BY <1>1, <2>2, <2>4 DEF Rows
    <2>5. CASE api[u] # "published"
      <3>1. status'[u] \in {"none", "pending"} BY <2>2, <2>3, <2>5
      <3>2. results[u] = 0 /\ attempts[u] = 0 /\ \A s \in Settled : <<u, s>> \notin notified
          BY <2>1, <2>5 DEF Opening
      <3>3. Opening(u)' BY <1>1, <2>2, <2>5, <3>2 DEF Opening
      <3>4. QED BY <2>5, <3>1, <3>3 DEF Settled
    <2>6. QED BY <2>4, <2>5
  <1>3. QED BY <1>1, <1>2, QuietCourse

LEMMA StepCourse ==
  ASSUME IInv, Holding, Coursed, [Next]_vars PROVE Coursed'
  <1>0. Remembered BY RememberedStep DEF IInv
  <1>1. ASSUME NEW t \in Tasks, Api(t) PROVE Coursed'
      BY <1>1, RequestCourse, PublishCourse DEF Api
  <1>2. CASE FatalRequest BY <1>2, RequestCourse DEF FatalRequest
  <1>3. ASSUME NEW p \in Procs, Crash(p) \/ LoseChannel(p) PROVE Coursed'
      BY <1>0, <1>3, CloseCourse DEF Crash
  <1>4. ASSUME NEW p \in Procs, Restart(p) PROVE Coursed'
    <2> USE <1>4 DEF Restart, stores, history
    <2>1. \A t \in Tasks : Rows(t) BY DEF Rows
    <2>2. \A k \in Messages : Apart(k) BY DEF Apart
    <2>3. \A t \in Tasks : Undisturbed(t)' => Undisturbed(t) BY DEF Undisturbed
    <2>4. QED BY <2>1, <2>2, <2>3, RowsStep, FrameCourse DEF Coursed
  <1>5. ASSUME NEW p \in Procs, NEW m \in Messages,
               Deliver(p, m) \/ Spawn(p, m) \/ DlqDeliver(p, m) \/ RunPanics(p, m)
        PROVE  Coursed'
      BY <1>0, <1>5, DeliverCourse, SpawnCourse, CloseCourse DEF RunPanics
  <1>6. ASSUME NEW p \in Procs, NEW m \in Messages,
               ProcessMessage(p, m) \/ HandleFailure(p, m)
        PROVE  Coursed'
      BY <1>0, <1>6, ReadRowCourse, AckCourse, DeadLetterCourse, SpawnCourse,
         SaveSuccessCourse, SaveFailsCourse, StoreResultsCourse, NotifyCourse, RetryCourse
      DEF ProcessMessage, HandleFailure
  <1>7. ASSUME NEW p \in Procs, NEW m \in Messages, HandleDLQMessage(p, m) PROVE Coursed'
      BY <1>7, DlqMarkCourse, DlqFailsCourse, DlqAckCourse DEF HandleDLQMessage
  <1>8. CASE UNCHANGED vars
    <2> USE <1>8 DEF vars, stores, workers, history
    <2>1. \A t \in Tasks : Rows(t) BY DEF Rows
    <2>2. \A k \in Messages : Apart(k) BY DEF Apart
    <2>3. \A t \in Tasks : Undisturbed(t)' => Undisturbed(t) BY DEF Undisturbed
    <2>4. QED BY <2>1, <2>2, <2>3, RowsStep, FrameCourse DEF Coursed
  <1>9. QED
      BY <1>1, <1>2, <1>3, <1>4, <1>5, <1>6, <1>7, <1>8 DEF Next

-----------------------------------------------------------------------------
(* The three invariants together, on top of that of EvalPipelineProofs.    *)
VInv == IInv /\ Holding /\ Counted /\ Coursed

LEMMA InitVInv == Init => VInv
  <1> SUFFICES ASSUME Init PROVE VInv
      OBVIOUS
  <1>1. IInv BY InitIInv
  <1> USE DEF Init, BrokerInit
  <1>2. Holding BY DEF Holding
  <1>3. Counted BY DEF Counted
  <1>4. Coursed
    <2>1. \A m \in Messages, t \in Tasks : ~Active(m, t) BY DEF Active, Live
    <2>2. \A t \in Tasks : Opening(t) /\ Reported(t) BY DEF Opening, Reported
    <2>3. \A t \in Tasks : Summary(t) BY EvalAssumption DEF Summary, EvalAssumption
    <2>4. QED BY <2>1, <2>2, <2>3 DEF Coursed, Course
  <1>5. QED BY <1>1, <1>2, <1>3, <1>4 DEF VInv

LEMMA StepVInv == VInv /\ [Next]_vars => VInv'
  <1> SUFFICES ASSUME VInv, [Next]_vars PROVE VInv'
      OBVIOUS
  <1> USE DEF VInv
  <1>1. IInv' BY StepIInv
  <1>2. Holding' BY StepHolding
  <1>3. Counted' BY <1>1, StepCounted
  <1>4. Coursed' BY StepCourse
  <1>5. QED BY <1>1, <1>2, <1>3, <1>4

LEMMA VInvariance == Spec => []VInv
  BY InitVInv, StepVInv, PTL DEF Spec

-----------------------------------------------------------------------------
(* Until a delivery of a task comes back, no two handlers run the task or  *)
(* store its outcome at the same time.                                     *)
THEOREM RunsOneAtATime == Spec => []OneRunAtATime
  <1>1. VInv => OneRunAtATime
    <2> SUFFICES ASSUME VInv, NEW t \in Tasks, Undisturbed(t),
                        NEW p \in Procs, NEW m \in Messages, NEW q \in Procs, NEW n \in Messages,
                        Task(m) = t, Task(n) = t,
                        handler[p][m] \in {"run", "save", "results"},
                        handler[q][n] \in {"run", "save", "results"}
                 PROVE  p = q /\ m = n
        BY DEF OneRunAtATime, Busy, Undisturbed
    <2>1. Active(m, t) /\ Active(n, t) /\ Course(t) BY FocusActive DEF VInv
    <2>2. m = n BY <2>1 DEF Course
    <2>3. Alone(p, m) BY Focus DEF VInv
    <2>4. QED BY <2>2, <2>3 DEF Alone
  <1>2. QED BY VInvariance, <1>1, PTL

(* Until then a task stores at most one batch of results. *)
THEOREM StoresResultsOnce == Spec => []ResultsOnce
  <1>1. VInv => ResultsOnce
      BY DEF VInv, Coursed, Undisturbed, Course, Summary, ResultsOnce
  <1>2. QED BY VInvariance, <1>1, PTL

(* Nobody is told of a verdict the row does not have; until a delivery     *)
(* comes back what was told is what the row says.                          *)
THEOREM ReportsWhatIsStored == Spec => []NotifiedAsStored
  <1>1. VInv => NotifiedAsStored
      BY DEF VInv, Coursed, Undisturbed, Course, Summary, Reported, NotifiedAsStored
  <1>2. QED BY VInvariance, <1>1, PTL

(* A task is marked failed only behind EvalMaxRetry + 1 runs, or because   *)
(* its row could not be read, whatever comes back.                         *)
THEOREM FailsOnlyAfterRetries == Spec => []FailedOnlyAfterRetries
  <1>1. VInv => FailedOnlyAfterRetries
      BY DEF VInv, Counted, Spent, FailedOnlyAfterRetries
  <1>2. QED BY VInvariance, <1>1, PTL

(* As long as no delivery of a task was put back or came back, the task is *)
(* run EvalMaxRetry + 1 times at most.                                     *)
THEOREM RetriesBoundRuns == Spec => []AttemptsFollowRetries
  <1>1. VInv => AttemptsFollowRetries
      BY DEF VInv, Coursed, Undisturbed, Course, Summary, Counts, AttemptsFollowRetries
  <1>2. QED BY VInvariance, <1>1, PTL

-----------------------------------------------------------------------------
(* The steps that write a verdict. *)
LEMMA Judging ==
  ASSUME VInv, NEW p \in Procs, NEW m \in Messages,
         \/ SaveSuccess(p, m) \/ SaveFails(p, m) \/ DlqMark(p, m) \/ DlqFails(p, m),
         NEW u \in Tasks, u = Task(m), ~CameBack(u)
  PROVE  /\ Live(m)
         /\ handler[p][m] = "save" => status[u] = "pending"
         /\ dlq[p][m] # "idle" => status[u] # "success"
  <1>1. Undisturbed(u) /\ "replyLost" \notin incidents[u]
      BY DEF CameBack, Undisturbed
  <1>2. CASE handler[p][m] = "save"
    <2>1. /\ Live(m) /\ OnEval(m, u) /\ At(p, m) /\ \A r \in Procs : dlq[r][m] = "idle"
        BY <1>1, <1>2, Focus, FocusActive DEF VInv
    <2>2. ~Saved(m) BY <1>2, <2>1 DEF At, Settling
    <2>3. QED BY <1>1, <1>2, <2>1, <2>2 DEF OnEval
  <1>3. CASE dlq[p][m] # "idle"
    <2>1. /\ Live(m) /\ OnDlq(m, u) /\ \A r \in Procs : handler[r][m] = "idle"
        BY <1>1, <1>3, DlqFocus, DlqFocusActive DEF VInv
    <2>2. QED BY <1>1, <1>3, <2>1 DEF OnDlq
  <1>4. QED BY <1>2, <1>3 DEF SaveSuccess, SaveFails, DlqMark, DlqFails

LEMMA StepVerdict ==
  ASSUME VInv, [Next]_vars, NEW t \in Tasks, status[t] \in Settled, status'[t] # status[t]
  PROVE  CameBack(t)
  <1> USE DEF stores, workers, history
  <1>1. ASSUME NEW p \in Procs, NEW m \in Messages,
               \/ SaveSuccess(p, m) \/ SaveFails(p, m) \/ DlqMark(p, m) \/ DlqFails(p, m)
        PROVE  CameBack(t)
    <2>1. handler[p][m] = "save" \/ dlq[p][m] # "idle"
        BY <1>1 DEF SaveSuccess, SaveFails, DlqMark, DlqFails
    <2>2. PICK u \in Tasks : u = Task(m) BY <2>1, Focus, DlqFocus DEF VInv
    <2>3. /\ \/ status' = status
             \/ handler[p][m] = "save"
             \/ dlq[p][m] # "idle" /\ status' = [status EXCEPT ![u] = "failed"]
          /\ \A x \in Tasks \ {u} : status'[x] = status[x]
        BY <1>1, <2>2 DEF SaveSuccess, SaveFails, DlqMark, DlqFails, VInv, IInv, TypeOK
    <2>4. t = u BY <2>3
    <2>5. ASSUME ~CameBack(t) PROVE FALSE
      <3>1. /\ handler[p][m] = "save" => status[u] = "pending"
            /\ dlq[p][m] # "idle" => status[u] # "success"
          BY <1>1, <2>2, <2>4, <2>5, Judging
      <3>2. status \in [Tasks -> {"none", "pending"} \cup Settled] BY DEF VInv, IInv, TypeOK
      <3>3. QED BY <2>3, <2>4, <3>1, <3>2 DEF Settled
    <2>6. QED BY <2>5
  <1>2. ASSUME NEW u \in Tasks, Api(u) PROVE CameBack(t)
    <2>1. CommitTask(u) BY <1>2 DEF Api, RejectTask, PublishTask, OrphanTask
    <2>2. status[u] = "none" BY <2>1 DEF CommitTask, VInv, Coursed, Opening
    <2>3. QED BY <2>1, <2>2 DEF CommitTask, VInv, IInv, TypeOK, Settled
  <1>3. ASSUME NEW p \in Procs, Crash(p) \/ LoseChannel(p) \/ Restart(p) PROVE CameBack(t)
      BY <1>3 DEF Crash, Dies, LoseChannel, Restart
  <1>4. ASSUME NEW p \in Procs, NEW m \in Messages,
               \/ Deliver(p, m) \/ Spawn(p, m) \/ DlqDeliver(p, m) \/ RunPanics(p, m)
               \/ HandleFailure(p, m)
        PROVE  CameBack(t)
      BY <1>4
      DEF Deliver, Spawn, DlqDeliver, RunPanics, Dies, HandleFailure, GiveUp, Retry, RetryFails
  <1>5. ASSUME NEW p \in Procs, NEW m \in Messages, ProcessMessage(p, m) PROVE CameBack(t)
      BY <1>1, <1>5
      DEF ProcessMessage, ReadRow, SkipDone, ReadFails, RunReturns, StoreResults, Notify, AckDone
  <1>6. ASSUME NEW p \in Procs, NEW m \in Messages, HandleDLQMessage(p, m) PROVE CameBack(t)
      BY <1>1, <1>6 DEF HandleDLQMessage, DlqNotify, DlqAck
  <1>7. CASE FatalRequest BY <1>7 DEF FatalRequest
  <1>8. CASE UNCHANGED vars BY <1>8 DEF vars
  <1>9. QED
      BY <1>2, <1>3, <1>4, <1>5, <1>6, <1>7, <1>8 DEF Next

(* A verdict changes only after a delivery of the task came back, although *)
(* neither worker looks at the verdict it overwrites.                      *)
THEOREM VerdictsAreFinal == Spec => VerdictIsFinal
  <1>1. VInv /\ [Next]_vars =>
          [\A t \in Tasks :
             status[t] \in Settled /\ status'[t] # status[t] => CameBack(t)]_vars
      BY StepVerdict
  <1>2. QED BY VInvariance, <1>1, PTL DEF Spec, VerdictIsFinal
-----------------------------------------------------------------------------
(* Failures *)

DeadCopy(m, t) == Live(m) /\ msg[m].queue = EvalDLQName /\ Task(m) = t

(* Whoever is about to acknowledge a dead-lettered delivery has reported it. *)
Heard == \A p \in Procs, m \in Messages :
    dlq[p][m] = "ack" => <<Task(m), "failed">> \in notified

FInv == VInv /\ Heard /\ FailureIsReported

(* What an answer on queue q does to the dead-lettered copies.             *)
LEMMA AnsweredCopy ==
  ASSUME TypeOK, NEW p \in Procs, NEW m \in Messages, NEW q \in {EvalQueueName, EvalDLQName},
         \/ Ack(p, m, q) /\ q = EvalQueueName
         \/ Requeue(p, m, q)
         \/ DeadLetter(p, m, q, EvalDLQName)
  PROVE  \A k \in Messages, t \in Tasks : DeadCopy(k, t) => DeadCopy(k, t)'
  <1>0. EvalQueueName # EvalDLQName BY DEF EvalQueueName, EvalDLQName
  <1>1. MsgType /\ q \in Queues /\ EvalDLQName \in Queues
      BY EvalAssumption DEF TypeOK, MsgType, EvalAssumption
  <1>2. SUFFICES ASSUME NEW k \in Messages, NEW t \in Tasks, DeadCopy(k, t)
                 PROVE  DeadCopy(k, t)'
        OBVIOUS
  <1>3. Kept /\ Takes(p, m, q)
      BY <1>1, AckFact, AckExact, RequeueFact, RequeueExact, DeadLetterFact, DeadLetterExact
         DEF Answered
  <1>4. Task(k)' = t BY <1>2, <1>3 DEF Kept, DeadCopy, Live, Task
  <1>5. CASE msg'[k] = msg[k] BY <1>2, <1>4, <1>5 DEF DeadCopy, Live
  <1>6. CASE msg'[k] # msg[k]
    <2>1. k = m /\ Holds(p, m, q) BY <1>3, <1>6 DEF Takes, Only
    <2>2. q = EvalDLQName BY <1>2, <2>1 DEF DeadCopy, Holds
    <2>3. msg'[m].at = "ready" /\ msg'[m].queue = EvalDLQName
        BY <1>0, <1>1, <2>1, <2>2, RequeueExact, DeadLetterExact
    <2>4. QED BY <1>4, <2>1, <2>3 DEF DeadCopy, Live
  <1>7. QED BY <1>5, <1>6

(* A dead-lettered copy goes with DlqAck only. *)
LEMMA CopyStays ==
  ASSUME IInv, [Next]_vars, NEW k \in Messages, NEW t \in Tasks, DeadCopy(k, t)
  PROVE  DeadCopy(k, t)' \/ \E p \in Procs : DlqAck(p, k)
  <1> USE DEF stores, history, workers
  <1>0. MsgType /\ EvalQueueName \in Queues /\ EvalDLQName \in Queues
      BY EvalAssumption DEF IInv, TypeOK, MsgType, EvalAssumption
  <1>1. msg' = msg => DeadCopy(k, t)' BY DEF DeadCopy, Live, Task
  <1>2. ASSUME NEW q \in Queues, NEW u \in Tasks, NEW r \in Nat, Publish(q, u, r)
        PROVE  DeadCopy(k, t)'
    <2>1. PICK n \in Messages : msg[n].at = "unsent" /\ Only(n)
        BY <1>0, <1>2, PublishFact DEF Tasks
    <2>2. k # n BY <2>1 DEF DeadCopy, Live
    <2>3. QED BY <2>1, <2>2 DEF Only, DeadCopy, Live, Task
  <1>3. ASSUME NEW p \in Procs, NEW m \in Messages, NEW q \in Queues, Consume(p, m, q)
        PROVE  DeadCopy(k, t)'
    <2>1. /\ Kept /\ StaysLive /\ Only(m)
          /\ msg'[m].queue = msg[m].queue
        BY <1>0, <1>3, ConsumeFact
    <2>2. QED BY <2>1 DEF Only, Kept, StaysLive, DeadCopy, Live, Task
  <1>4. ASSUME NEW p \in Procs, NEW qs \in SUBSET Queues, Release(p, qs)
        PROVE  DeadCopy(k, t)'
    <2>1. Kept /\ StaysLive /\ msg'[k].queue = msg[k].queue
        BY <1>0, <1>4, ReleaseFact, ReleaseExact, BrokerAssumption
    <2>2. QED BY <2>1 DEF Kept, StaysLive, DeadCopy, Live, Task
  <1>5. ASSUME NEW u \in Tasks, Api(u) \/ FatalRequest PROVE DeadCopy(k, t)'
    <2>1. CASE PublishTask(u) BY <1>0, <1>2, <2>1 DEF PublishTask
    <2>2. CASE ~PublishTask(u)
        BY <1>1, <1>5, <2>2 DEF Api, CommitTask, RejectTask, OrphanTask, FatalRequest
    <2>3. QED BY <2>1, <2>2
  <1>6. ASSUME NEW p \in Procs, Dies(p) \/ LoseChannel(p) \/ Restart(p)
        PROVE  DeadCopy(k, t)'
      BY <1>0, <1>1, <1>4, <1>6 DEF Dies, LoseChannel, Restart
  <1>7. ASSUME NEW p \in Procs, NEW m \in Messages,
               Deliver(p, m) \/ Spawn(p, m) \/ DlqDeliver(p, m)
        PROVE  DeadCopy(k, t)'
      BY <1>0, <1>1, <1>3, <1>7 DEF Deliver, Spawn, DlqDeliver
  <1>8. ASSUME NEW p \in Procs, NEW m \in Messages, ProcessMessage(p, m)
        PROVE  DeadCopy(k, t)'
    <2>1. \/ msg' = msg \/ Ack(p, m, EvalQueueName) \/ Requeue(p, m, EvalQueueName)
          \/ DeadLetter(p, m, EvalQueueName, EvalDLQName)
        BY <1>8 DEF ProcessMessage, ReadRow, SkipDone, ReadFails, RunReturns, SaveSuccess,
                    SaveFails, StoreResults, Notify, AckDone
    <2>2. QED BY <1>1, <2>1, AnsweredCopy DEF IInv
  <1>9. ASSUME NEW p \in Procs, NEW m \in Messages, HandleFailure(p, m)
        PROVE  DeadCopy(k, t)'
    <2>1. CASE Retry(p, m)
      <3>1. Publish(EvalQueueName, Task(m), msg[m].retry + 1) BY <2>1 DEF Retry
      <3>2. msg[m].retry + 1 \in Nat BY DEF IInv, TypeOK, Record
      <3>3. Task(m) \in Tasks BY <2>1 DEF Retry, IInv, Flow, Sent
      <3>4. QED BY <1>0, <1>2, <3>1, <3>2, <3>3
    <2>2. CASE GiveUp(p, m) \/ RetryFails(p, m)
      <3>1. Requeue(p, m, EvalQueueName) \/ DeadLetter(p, m, EvalQueueName, EvalDLQName)
          BY <2>2 DEF GiveUp, RetryFails
      <3>2. QED BY <3>1, AnsweredCopy DEF IInv
    <2>3. QED BY <1>9, <2>1, <2>2 DEF HandleFailure
  <1>10. ASSUME NEW p \in Procs, NEW m \in Messages, HandleDLQMessage(p, m), ~DlqAck(p, k)
         PROVE  DeadCopy(k, t)'
    <2>1. CASE DlqAck(p, m)
      <3>1. k # m BY <1>10, <2>1
      <3>2. Kept /\ Only(m) BY <1>0, <2>1, AckFact DEF DlqAck, Answered
      <3>3. QED BY <3>1, <3>2 DEF Only, DeadCopy, Live, Task
    <2>2. CASE DlqMark(p, m) \/ DlqNotify(p, m) BY <1>1, <2>2 DEF DlqMark, DlqNotify
    <2>3. CASE DlqFails(p, m) BY <2>3, AnsweredCopy DEF DlqFails, IInv
    <2>4. QED BY <1>10, <2>1, <2>2, <2>3 DEF HandleDLQMessage
  <1>11. CASE UNCHANGED vars BY <1>1, <1>11 DEF vars
  <1>12. CASE FatalRequest BY <1>1, <1>12 DEF FatalRequest
  <1>13. QED
      BY <1>5, <1>6, <1>7, <1>8, <1>9, <1>10, <1>11, <1>12 DEF Next, Crash, RunPanics

(* A failure is written only by a DLQ worker, which still holds its copy.  *)
LEMMA FailedByDlq ==
  ASSUME VInv, [Next]_vars, NEW t \in Tasks, status[t] # "failed", status'[t] = "failed"
  PROVE  \E m \in Messages : DeadCopy(m, t)'
  <1>1. PICK p \in Procs, m \in Messages :
          (DlqMark(p, m) \/ DlqFails(p, m)) /\ dlq[p][m] = "mark"
          /\ status' = [status EXCEPT ![Task(m)] = "failed"]
    <2>1. status' # status OBVIOUS
    <2>2. \A u \in Tasks : status' # [status EXCEPT ![u] = "pending"]
          /\ status' # [status EXCEPT ![u] = "success"]
        BY DEF VInv, IInv, TypeOK
    <2>3. \A m \in Messages : status' # [status EXCEPT ![Task(m)] = "success"]
        BY DEF VInv, IInv, TypeOK
    <2>4. QED
        BY <2>1, <2>2, <2>3
        DEF Next, Api, CommitTask, RejectTask, PublishTask, OrphanTask, FatalRequest, Crash,
            RunPanics, Dies, LoseChannel, Restart, Deliver, Spawn, DlqDeliver, ProcessMessage,
            ReadRow, SkipDone, ReadFails, RunReturns, SaveSuccess, SaveFails, StoreResults,
            Notify, AckDone, HandleFailure, GiveUp, Retry, RetryFails, HandleDLQMessage,
            DlqMark, DlqNotify, DlqFails, DlqAck, stores, vars
  <1>2. Task(m) = t BY <1>1 DEF VInv, IInv, TypeOK
  <1>3. DeadCopy(m, t)
    <2>1. Holds(p, m, EvalDLQName) BY <1>1 DEF VInv, Holding
    <2>2. QED BY <1>2, <2>1 DEF Holds, DeadCopy, Live
  <1>4. ~\E r \in Procs : DlqAck(r, m)
    <2>1. ASSUME NEW r \in Procs, DlqAck(r, m) PROVE FALSE
      <3>1. status' = status BY <2>1 DEF DlqAck, stores
      <3>2. QED BY <3>1
    <2>2. QED BY <2>1
  <1>5. QED BY <1>3, <1>4, CopyStays DEF VInv

(* What was published on the channel stays published. *)
LEMMA ReportsStay == ASSUME [Next]_vars PROVE notified \subseteq notified'
  BY DEF Next, Api, CommitTask, RejectTask, PublishTask, OrphanTask, FatalRequest, Crash,
         RunPanics, Dies, LoseChannel, Restart, Deliver, Spawn, DlqDeliver, ProcessMessage,
         ReadRow, SkipDone, ReadFails, RunReturns, SaveSuccess, SaveFails, StoreResults,
         Notify, AckDone, HandleFailure, GiveUp, Retry, RetryFails, HandleDLQMessage,
         DlqMark, DlqNotify, DlqFails, DlqAck, stores, vars

(* A DLQ worker reaches its Ack through the publication. *)
LEMMA ReachesAck ==
  ASSUME VInv, [Next]_vars, NEW p \in Procs, NEW m \in Messages,
         dlq'[p][m] = "ack", dlq[p][m] # "ack"
  PROVE  DlqNotify(p, m)
  <1> USE DEF workers
  <1>1. CASE dlq' = dlq BY <1>1
  <1>2. ASSUME NEW r \in Procs, NEW k \in Messages, NEW pc \in DlqPC, DlqGoto(r, k, pc)
        PROVE  r = p /\ k = m /\ pc = "ack"
      BY <1>2, DlqGotoFact DEF VInv, IInv
  <1>3. ASSUME NEW r \in Procs, Dies(r) PROVE FALSE
      BY <1>3 DEF Dies, VInv, IInv, TypeOK
  <1>4. CASE \E t \in Tasks : Api(t)
      BY <1>1, <1>4 DEF Api, CommitTask, RejectTask, PublishTask, OrphanTask
  <1>5. CASE FatalRequest BY <1>1, <1>5 DEF FatalRequest
  <1>6. ASSUME NEW r \in Procs, Crash(r) \/ LoseChannel(r) \/ Restart(r) PROVE FALSE
      BY <1>1, <1>3, <1>6 DEF Crash, LoseChannel, Restart
  <1>7. ASSUME NEW r \in Procs, NEW k \in Messages,
               Deliver(r, k) \/ Spawn(r, k) \/ ProcessMessage(r, k) \/ HandleFailure(r, k)
        PROVE  FALSE
      BY <1>1, <1>7 DEF Deliver, Spawn, ProcessMessage, ReadRow, SkipDone, ReadFails, RunReturns,
         SaveSuccess, SaveFails, StoreResults, Notify, AckDone, HandleFailure, GiveUp, Retry,
         RetryFails, Goto
  <1>8. ASSUME NEW r \in Procs, NEW k \in Messages,
               DlqDeliver(r, k) \/ HandleDLQMessage(r, k)
        PROVE  DlqNotify(p, m)
    <2>1. "mark" \in DlqPC /\ "notify" \in DlqPC /\ "idle" \in DlqPC /\ "ack" \in DlqPC
        BY DEF DlqPC
    <2>2. CASE DlqDeliver(r, k) BY <1>2, <2>1, <2>2 DEF DlqDeliver
    <2>3. CASE DlqMark(r, k) BY <1>2, <2>1, <2>3 DEF DlqMark
    <2>4. CASE DlqNotify(r, k)
      <3>1. r = p /\ k = m BY <1>2, <2>1, <2>4 DEF DlqNotify
      <3>2. QED BY <2>4, <3>1
    <2>5. CASE DlqFails(r, k) BY <1>2, <2>1, <2>5 DEF DlqFails
    <2>6. CASE DlqAck(r, k) BY <1>2, <2>1, <2>6 DEF DlqAck
    <2>7. QED BY <1>8, <2>2, <2>3, <2>4, <2>5, <2>6 DEF HandleDLQMessage
  <1>9. CASE UNCHANGED vars BY <1>1, <1>9 DEF vars
  <1>10. QED
      BY <1>3, <1>4, <1>5, <1>6, <1>7, <1>8, <1>9 DEF Next, RunPanics

LEMMA StepFInv == FInv /\ [Next]_vars => FInv'
  <1> SUFFICES ASSUME FInv, [Next]_vars PROVE FInv'
      OBVIOUS
  <1>1. VInv' BY StepVInv DEF FInv
  <1>2. notified \subseteq notified' BY ReportsStay
  <1>3. Heard'
    <2>1. SUFFICES ASSUME NEW p \in Procs, NEW m \in Messages, dlq'[p][m] = "ack"
                   PROVE  <<Task(m)', "failed">> \in notified'
          BY DEF Heard
    <2>2. CASE dlq[p][m] = "ack"
      <3>1. PICK t \in Tasks : DeadCopy(m, t)
        <4>1. Holds(p, m, EvalDLQName) BY <2>2 DEF FInv, VInv, Holding
        <4>2. Task(m) \in Tasks BY <4>1 DEF FInv, VInv, IInv, Flow, Sent, Holds
        <4>3. QED BY <4>1, <4>2 DEF DeadCopy, Holds, Live
      <3>2. ~\E r \in Procs : DlqAck(r, m)
        <4>1. ASSUME NEW r \in Procs, DlqAck(r, m) PROVE FALSE
          <5>1. dlq[r][m] = "ack" BY <4>1 DEF DlqAck
          <5>2. r = p BY <2>2, <5>1 DEF FInv, VInv, Holding, Holds
          <5>3. dlq'[p][m] = "idle"
              BY <4>1, <5>2, DlqGotoFact DEF DlqAck, DlqPC, FInv, VInv, IInv
          <5>4. QED BY <2>1, <5>3
        <4>2. QED BY <4>1
      <3>3. Task(m)' = Task(m)
          BY <3>1, <3>2, CopyStays DEF DeadCopy, FInv, VInv
      <3>4. QED BY <1>2, <2>2, <3>3 DEF FInv, Heard
    <2>3. CASE dlq[p][m] # "ack"
      <3>1. DlqNotify(p, m) BY <2>1, <2>3, ReachesAck DEF FInv
      <3>2. Task(m)' = Task(m) BY <3>1 DEF DlqNotify, Task
      <3>3. QED BY <3>1, <3>2 DEF DlqNotify
    <2>4. QED BY <2>2, <2>3
  <1>4. FailureIsReported'
    <2>1. SUFFICES ASSUME NEW t \in Tasks, status'[t] = "failed",
                          <<t, "failed">> \notin notified'
                   PROVE  \E m \in Messages : DeadCopy(m, t)'
          BY DEF FailureIsReported, DeadCopy
    <2>2. CASE status[t] # "failed" BY <2>1, <2>2, FailedByDlq DEF FInv
    <2>3. CASE status[t] = "failed"
      <3>1. PICK m \in Messages : DeadCopy(m, t)
          BY <1>2, <2>1, <2>3 DEF FInv, FailureIsReported, DeadCopy
      <3>2. ~\E p \in Procs : DlqAck(p, m)
        <4>1. ASSUME NEW p \in Procs, DlqAck(p, m) PROVE FALSE
          <5>1. <<t, "failed">> \in notified
              BY <3>1, <4>1 DEF DlqAck, FInv, Heard, DeadCopy
          <5>2. QED BY <1>2, <2>1, <5>1
        <4>2. QED BY <4>1
      <3>3. QED BY <3>1, <3>2, CopyStays DEF FInv, VInv
    <2>4. QED BY <2>2, <2>3
  <1>5. QED BY <1>1, <1>3, <1>4 DEF FInv

(* No crash, closed channel or failed call lets a task fail in silence.    *)
THEOREM FailuresAreReported == Spec => []FailureIsReported
  <1>1. Init => FInv
    <2>1. Init => Heard /\ FailureIsReported BY DEF Init, Heard, FailureIsReported
    <2>2. QED BY <2>1, InitVInv DEF FInv
  <1>2. FInv => FailureIsReported BY DEF FInv
  <1>3. QED BY <1>1, <1>2, StepFInv, PTL DEF Spec
=============================================================================
