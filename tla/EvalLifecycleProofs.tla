------------------------ MODULE EvalLifecycleProofs ------------------------
(***************************************************************************)
(* The refinement of the evaluation pipeline: with its queues, workers,    *)
(* retries, crashes and lost replies it is a TaskLifecycle.  One lemma per *)
(* kind of step says which abstract step it takes, most of them none.      *)
(***************************************************************************)
EXTENDS EvalVerdictProofs

(* How the abstract variables move. *)
SameWork     == \A t \in Tasks : LiveFor(t)' <=> LiveFor(t)
SameCameBack == \A t \in Tasks : CameBack(t)' <=> CameBack(t)
Stutters     == status' = status /\ SameWork /\ SameCameBack

LEMMA SameOutstanding ==
  ASSUME SameWork PROVE [t \in Tasks |-> LiveFor(t)]' = [t \in Tasks |-> LiveFor(t)]
  <1>1. \A t \in Tasks : LiveFor(t)' = LiveFor(t) BY DEF SameWork, LiveFor
  <1>2. QED BY <1>1

LEMMA SameRevisable ==
  ASSUME SameCameBack PROVE {t \in Tasks : CameBack(t)}' = {t \in Tasks : CameBack(t)}
  BY DEF SameCameBack

LEMMA StutterMaps == ASSUME Stutters PROVE UNCHANGED Lifecycle!vars
  BY SameOutstanding, SameRevisable DEF Stutters, Lifecycle!vars

(* The broker side of SameWork: no copy appears, none is lost. *)
LEMMA SameMessages ==
  ASSUME IInv, Kept, StaysLive, \A k \in Messages : Live(k)' => Live(k)
  PROVE  SameWork
  <1>1. \A k \in Messages : (Live(k)' <=> Live(k)) /\ (Live(k) => Task(k)' = Task(k))
      BY DEF StaysLive, Kept, Live, Task
  <1>2. QED BY <1>1 DEF SameWork, LiveFor

LEMMA UntouchedMessages == msg' = msg => SameWork
  BY DEF SameWork, LiveFor, Live, Task

LEMMA UntouchedIncidents == incidents' = incidents => SameCameBack
  BY DEF SameCameBack, CameBack

(* A note that a read failed or a delivery was put back revises nothing.   *)
LEMMA HarmlessIncident ==
  ASSUME TypeOK, NEW u, NEW what \in {"unread", "requeued"}, Befalls(u, what)
  PROVE  SameCameBack
  BY DEF Befalls, SameCameBack, CameBack, TypeOK

(* A message taken by its holder and put back, or dead-lettered.           *)
LEMMA AnswerKeepsWork ==
  ASSUME IInv, NEW p \in Procs, NEW m \in Messages, NEW q \in {EvalQueueName, EvalDLQName},
         Requeue(p, m, q) \/ DeadLetter(p, m, q, EvalDLQName)
  PROVE  SameWork
  <1>1. q \in Queues /\ EvalDLQName \in Queues BY EvalAssumption DEF EvalAssumption
  <1>2. MsgType BY DEF IInv, TypeOK, MsgType
  <1>3. Kept /\ StaysLive /\ Takes(p, m, q)
    <2>1. CASE Requeue(p, m, q)
        BY <1>1, <1>2, <2>1, RequeueFact, RequeueExact DEF Answered
    <2>2. CASE DeadLetter(p, m, q, EvalDLQName)
        BY <1>1, <1>2, <2>2, DeadLetterFact, DeadLetterExact DEF Answered
    <2>3. QED BY <2>1, <2>2
  <1>4. \A k \in Messages : Live(k)' => Live(k) BY <1>3 DEF Takes, Only, Holds, Live
  <1>5. QED BY <1>3, <1>4, SameMessages

LEMMA DeliverKeepsWork ==
  ASSUME IInv, NEW p \in Procs, NEW m \in Messages, NEW q \in {EvalQueueName, EvalDLQName},
         Consume(p, m, q)
  PROVE  SameWork
  <1>1. q \in Queues BY EvalAssumption DEF EvalAssumption
  <1>2. MsgType BY DEF IInv, TypeOK, MsgType
  <1>3. Kept /\ StaysLive /\ Only(m) /\ msg[m].at = "ready" BY <1>1, <1>2, ConsumeFact
  <1>4. \A k \in Messages : Live(k)' => Live(k) BY <1>3 DEF Only, Live
  <1>5. QED BY <1>3, <1>4, SameMessages

(* A sent message is of a published task, whose row has a status. *)
LEMMA RowOfSent ==
  ASSUME VInv, NEW m \in Messages, msg[m].at # "unsent"
  PROVE  /\ Task(m) \in Tasks /\ api[Task(m)] = "published"
         /\ status[Task(m)] = "pending" \/ status[Task(m)] \in Settled
  <1>1. Task(m) \in Tasks /\ api[Task(m)] = "published" BY DEF VInv, IInv, Flow, Sent
  <1>2. status[Task(m)] # "none" BY <1>1 DEF VInv, Coursed, Opening
  <1>3. QED BY <1>1, <1>2 DEF VInv, IInv, TypeOK

-----------------------------------------------------------------------------
(* An acknowledgement: the work of the task ends, or another copy is left. *)
LEMMA AckMaps ==
  ASSUME VInv, IInv', NEW p \in Procs, NEW m \in Messages,
         SkipDone(p, m) \/ AckDone(p, m) \/ DlqAck(p, m)
  PROVE  [Lifecycle!Next]_(Lifecycle!vars)
  <1> USE DEF stores, history
  <1>1. /\ status' = status /\ api' = api /\ incidents' = incidents
        /\ handler[p][m] # "idle" \/ dlq[p][m] # "idle"
      BY DEF SkipDone, AckDone, DlqAck
  <1>2. PICK q \in Queues : Ack(p, m, q)
      BY EvalAssumption DEF SkipDone, AckDone, DlqAck, EvalAssumption
  <1>3. MsgType BY DEF VInv, IInv, TypeOK, MsgType
  <1>4. Kept /\ Only(m) /\ Takes(p, m, q) /\ (Holds(p, m, q) => msg'[m].at = "gone")
      BY <1>2, <1>3, AckFact, AckExact DEF Answered
  <1>5. msg[m].at # "unsent" BY <1>1, Focus, DlqFocus DEF VInv
  <1>6. PICK u \in Tasks : u = Task(m) BY <1>5, RowOfSent
  <1>7. api[u] = "published" /\ (status[u] = "pending" \/ status[u] \in Settled)
      BY <1>5, <1>6, RowOfSent
  <1>8. \A t \in Tasks \ {u} : LiveFor(t)' <=> LiveFor(t)
    <2>1. Task(m)' = Task(m) BY <1>4, <1>5 DEF Kept, Task
    <2>2. \A k \in Messages \ {m} : (Live(k)' <=> Live(k)) /\ Task(k)' = Task(k)
        BY <1>4 DEF Only, Live, Task
    <2>3. QED BY <1>6, <2>1, <2>2 DEF LiveFor
  <1>9. SameCameBack BY <1>1, UntouchedIncidents
  <1>10. CASE LiveFor(u)' <=> LiveFor(u)
    <2>1. SameWork BY <1>8, <1>10 DEF SameWork
    <2>2. QED BY <1>1, <1>9, <2>1, StutterMaps DEF Stutters
  <1>11. CASE ~(LiveFor(u)' <=> LiveFor(u))
    <2>1. ~LiveFor(u)'
      <3>1. \A k \in Messages : Live(k)' => Live(k)
          BY <1>4 DEF Takes, Only, Holds, Live
      <3>2. \A k \in Messages : Live(k)' => Task(k)' = Task(k)
          BY <3>1, <1>4 DEF Kept, Live, Task
      <3>3. LiveFor(u)' => LiveFor(u) BY <3>1, <3>2 DEF LiveFor
      <3>4. QED BY <1>11, <3>3
    <2>2. status[u] \in Settled
      <3>1. status'[u] # "pending" BY <1>1, <1>7, <2>1 DEF IInv, Flow, NoLostTask
      <3>2. QED BY <1>1, <1>7, <3>1
    <2>3. [t \in Tasks |-> LiveFor(t)]' = [[t \in Tasks |-> LiveFor(t)] EXCEPT ![u] = FALSE]
      <3>1. \A t \in Tasks \ {u} : LiveFor(t)' = LiveFor(t) BY <1>8 DEF LiveFor
      <3>2. LiveFor(u)' = FALSE BY <2>1
      <3>3. QED BY <3>1, <3>2
    <2>4. Lifecycle!Finish(u)
        BY <1>1, <1>9, <2>2, <2>3, SameRevisable
        DEF Lifecycle!Finish, Lifecycle!Verdicts, Settled
    <2>5. QED BY <2>4 DEF Lifecycle!Next
  <1>12. QED BY <1>10, <1>11

(* A verdict is written. *)
LEMMA JudgeMaps ==
  ASSUME VInv, NEW p \in Procs, NEW m \in Messages,
         SaveSuccess(p, m) \/ SaveFails(p, m) \/ DlqMark(p, m) \/ DlqFails(p, m)
  PROVE  [Lifecycle!Next]_(Lifecycle!vars)
  <1> USE DEF stores, history
  <1>1. handler[p][m] = "save" \/ dlq[p][m] # "idle"
      BY DEF SaveSuccess, SaveFails, DlqMark, DlqFails
  <1>2. msg[m].at # "unsent" BY <1>1, Focus, DlqFocus DEF VInv
  <1>3. PICK u \in Tasks : u = Task(m) BY <1>2, RowOfSent
  <1>4. status[u] = "pending" \/ status[u] \in Settled BY <1>2, <1>3, RowOfSent
  <1>5. SameWork
    <2>1. CASE msg' = msg BY <2>1, UntouchedMessages
    <2>2. CASE Requeue(p, m, EvalQueueName) \/ Requeue(p, m, EvalDLQName)
        BY <2>2, AnswerKeepsWork DEF VInv
    <2>3. QED BY <2>1, <2>2 DEF SaveSuccess, SaveFails, DlqMark, DlqFails
  <1>6. status' = status \/ \E v \in Lifecycle!Verdicts : status' = [status EXCEPT ![u] = v]
      BY <1>3 DEF SaveSuccess, SaveFails, DlqMark, DlqFails, Lifecycle!Verdicts
  <1>7. SameCameBack \/ (SaveFails(p, m) /\ Befalls(u, "replyLost"))
    <2>1. CASE SaveFails(p, m)
      <3>1. Befalls(u, "requeued") \/ Befalls(u, "replyLost") BY <1>3, <2>1 DEF SaveFails
      <3>2. Befalls(u, "requeued") => SameCameBack
          BY HarmlessIncident DEF VInv, IInv
      <3>3. QED BY <2>1, <3>1, <3>2
    <2>2. CASE ~SaveFails(p, m)
        BY <2>2, UntouchedIncidents DEF SaveSuccess, DlqMark, DlqFails
    <2>3. QED BY <2>1, <2>2
  <1>8. CASE Befalls(u, "replyLost") /\ ~SameCameBack
    <2>1. {t \in Tasks : CameBack(t)}' = {t \in Tasks : CameBack(t)} \cup {u}
      <3>1. incidents' = [incidents EXCEPT ![u] = incidents[u] \cup {"replyLost"}]
          BY <1>8 DEF Befalls
      <3>2. incidents'[u] = incidents[u] \cup {"replyLost"}
            /\ \A t \in Tasks \ {u} : incidents'[t] = incidents[t]
          BY <3>1 DEF VInv, IInv, TypeOK
      <3>3. CameBack(u)' /\ \A t \in Tasks \ {u} : CameBack(t)' <=> CameBack(t)
          BY <3>2 DEF CameBack
      <3>4. QED BY <3>3
    <2>2. ~CameBack(u)
      <3>1. SUFFICES ASSUME CameBack(u) PROVE SameCameBack
          BY <1>8
      <3>2. {t \in Tasks : CameBack(t)}' = {t \in Tasks : CameBack(t)} BY <2>1, <3>1
      <3>3. \A t \in Tasks : CameBack(t)' <=> t \in {x \in Tasks : CameBack(x)}' OBVIOUS
      <3>4. \A t \in Tasks : CameBack(t) <=> t \in {x \in Tasks : CameBack(x)} OBVIOUS
      <3>5. QED BY <3>2, <3>3, <3>4 DEF SameCameBack
    <2>3. LiveFor(u) /\ status[u] = "pending"
      <3>1. SaveFails(p, m) BY <1>7, <1>8
      <3>2. Live(m) BY <1>3, <2>2, <3>1, Judging
      <3>3. handler[p][m] = "save" BY <3>1 DEF SaveFails
      <3>4. QED BY <1>3, <2>2, <3>1, <3>2, <3>3, Judging DEF LiveFor
    <2>4. CASE status' = status
      <3>1. status'[u] = "success"
        <4>1. SaveFails(p, m) /\ incidents' = [incidents EXCEPT ![u] = @ \cup {"replyLost"}]
            BY <1>7, <1>8 DEF Befalls
        <4>2. CASE status' = [status EXCEPT ![u] = "success"]
            BY <4>2 DEF VInv, IInv, TypeOK
        <4>3. CASE Befalls(u, "requeued")
          <5>1. SameCameBack BY <4>3, HarmlessIncident DEF VInv, IInv
          <5>2. QED BY <1>8, <5>1
        <4>4. QED BY <1>3, <4>1, <4>2, <4>3 DEF SaveFails
      <3>2. QED BY <2>3, <2>4, <3>1
    <2>5. CASE \E v \in Lifecycle!Verdicts : status' = [status EXCEPT ![u] = v]
      <3>1. Lifecycle!Settle(u)
          BY <1>5, <2>1, <2>3, <2>5, SameOutstanding DEF Lifecycle!Settle
      <3>2. QED BY <3>1 DEF Lifecycle!Next
    <2>6. QED BY <1>6, <2>4, <2>5
  <1>9. CASE SameCameBack
    <2>1. CASE status' = status BY <1>5, <1>9, <2>1, StutterMaps DEF Stutters
    <2>2. CASE status' # status
      <3>1. CASE CameBack(u)
        <4>1. Lifecycle!Settle(u)
            BY <1>5, <1>6, <1>9, <2>2, <3>1, SameOutstanding, SameRevisable
            DEF Lifecycle!Settle
        <4>2. QED BY <4>1 DEF Lifecycle!Next
      <3>2. CASE ~CameBack(u)
        <4>1. /\ Live(m)
              /\ handler[p][m] = "save" => status[u] = "pending"
              /\ dlq[p][m] # "idle" => status[u] # "success"
            BY <1>3, <3>2, Judging
        <4>2. LiveFor(u) BY <1>3, <4>1 DEF LiveFor
        <4>3. status[u] = "pending"
          <5>1. SUFFICES ASSUME status[u] # "pending" PROVE FALSE
              OBVIOUS
          <5>2. dlq[p][m] # "idle" /\ status[u] = "failed" /\ handler[p][m] # "save"
              BY <1>1, <1>4, <4>1, <5>1 DEF Settled
          <5>3. status' = [status EXCEPT ![u] = "failed"]
              BY <1>3, <2>2, <5>2 DEF SaveSuccess, SaveFails, DlqMark, DlqFails
          <5>4. QED BY <2>2, <5>2, <5>3 DEF VInv, IInv, TypeOK
        <4>4. Lifecycle!Settle(u)
            BY <1>5, <1>6, <1>9, <2>2, <4>2, <4>3, SameOutstanding, SameRevisable
            DEF Lifecycle!Settle
        <4>5. QED BY <4>4 DEF Lifecycle!Next
      <3>3. QED BY <3>1, <3>2
    <2>3. QED BY <2>1, <2>2
  <1>10. QED BY <1>7, <1>8, <1>9

-----------------------------------------------------------------------------
(* A publication makes its task outstanding, the copy of a retry one that  *)
(* is outstanding already.                                                 *)
LEMMA PublishedWork ==
  ASSUME VInv, NEW u \in Tasks, NEW r \in Nat, Publish(EvalQueueName, u, r)
  PROVE  LiveFor(u)' /\ \A t \in Tasks \ {u} : LiveFor(t)' <=> LiveFor(t)
  <1>1. MsgType BY DEF VInv, IInv, TypeOK, MsgType
  <1>2. /\ Kept /\ StaysLive
        /\ \E n \in Messages :
             /\ msg[n].at = "unsent" /\ Only(n)
             /\ msg'[n] = [at |-> "ready", queue |-> EvalQueueName, body |-> u,
                           retry |-> r, owner |-> NoProc]
      BY <1>1, PublishFact, EvalAssumption DEF EvalAssumption, Tasks
  <1>3. PICK n \in Messages :
             /\ msg[n].at = "unsent" /\ Only(n)
             /\ msg'[n] = [at |-> "ready", queue |-> EvalQueueName, body |-> u,
                           retry |-> r, owner |-> NoProc]
      BY <1>2
  <1>4. Live(n)' /\ Task(n)' = u /\ ~Live(n) BY <1>3 DEF Live, Task
  <1>5. \A k \in Messages \ {n} : (Live(k)' <=> Live(k)) /\ Task(k)' = Task(k)
      BY <1>3 DEF Only, Live, Task
  <1>6. QED BY <1>4, <1>5 DEF LiveFor

LEMMA PublishMaps ==
  ASSUME VInv, NEW u \in Tasks, PublishTask(u) PROVE Lifecycle!Accept(u)
  <1> USE DEF stores, history
  <1>1. LiveFor(u)' /\ \A t \in Tasks \ {u} : LiveFor(t)' <=> LiveFor(t)
      BY PublishedWork DEF PublishTask
  <1>2. status' = status /\ SameCameBack BY UntouchedIncidents DEF PublishTask
  <1>3. status[u] = "pending" BY DEF PublishTask, VInv, Coursed, Opening
  <1>4. [t \in Tasks |-> LiveFor(t)]' = [[t \in Tasks |-> LiveFor(t)] EXCEPT ![u] = TRUE]
    <2>1. \A t \in Tasks \ {u} : LiveFor(t)' = LiveFor(t) BY <1>1 DEF LiveFor
    <2>2. LiveFor(u)' = TRUE BY <1>1 DEF LiveFor
    <2>3. QED BY <2>1, <2>2
  <1>5. QED BY <1>2, <1>3, <1>4, SameRevisable DEF Lifecycle!Accept

LEMMA RetryMaps ==
  ASSUME VInv, NEW p \in Procs, NEW m \in Messages, Retry(p, m) PROVE Stutters
  <1> USE DEF stores, history
  <1>1. handler[p][m] # "idle" /\ proc[p] = "up" BY DEF Retry
  <1>2. Live(m) BY <1>1 DEF VInv, Holding, Holds, Live
  <1>3. PICK u \in Tasks : u = Task(m) BY <1>1, Focus DEF VInv
  <1>4. msg[m].retry + 1 \in Nat BY DEF VInv, IInv, TypeOK, Record
  <1>5. LiveFor(u) BY <1>2, <1>3 DEF LiveFor
  <1>6. LiveFor(u)' /\ \A t \in Tasks \ {u} : LiveFor(t)' <=> LiveFor(t)
      BY <1>3, <1>4, PublishedWork DEF Retry
  <1>7. SameWork BY <1>5, <1>6 DEF SameWork
  <1>8. QED BY <1>7, UntouchedIncidents DEF Retry, Stutters

(* What a lost process or channel had in hand comes back, all of it        *)
(* outstanding work.                                                       *)
LEMMA CloseMaps ==
  ASSUME VInv, NEW p \in Procs, Dies(p) \/ LoseChannel(p) PROVE Lifecycle!ComeBack
  <1>1. PICK qs \in SUBSET Queues : Release(p, qs) /\ Redelivered(Held(p, qs))
      BY EvalAssumption DEF Dies, LoseChannel, EvalAssumption
  <1> DEFINE back == {t \in Tasks : \E m \in Held(p, qs) : Task(m) = t}
  <1>2. SameWork
    <2>1. MsgType BY DEF VInv, IInv, TypeOK, MsgType
    <2>2. Kept /\ StaysLive /\ \A k \in Messages : Live(k)' => Live(k)
        BY <1>1, <2>1, ReleaseFact, ReleaseExact, BrokerAssumption
    <2>3. QED BY <2>2, SameMessages DEF VInv
  <1>3. \A t \in back : LiveFor(t) BY DEF Held, Holds, LiveFor, Live
  <1>4. {t \in Tasks : CameBack(t)}' = {t \in Tasks : CameBack(t)} \cup back
    <2>1. \A t \in Tasks : incidents'[t] = IF t \in back
                                           THEN incidents[t] \cup {"redelivered"}
                                           ELSE incidents[t]
        BY <1>1 DEF Redelivered
    <2>2. \A t \in Tasks : CameBack(t)' <=> CameBack(t) \/ t \in back
        BY <2>1 DEF CameBack
    <2>3. QED BY <2>2
  <1>5. status' = status BY DEF Dies, LoseChannel, stores
  <1>6. back \in SUBSET {t \in Tasks : [x \in Tasks |-> LiveFor(x)][t]} BY <1>3
  <1>7. QED BY <1>2, <1>4, <1>5, <1>6, SameOutstanding DEF Lifecycle!ComeBack

(* The request commits the row, or comes to nothing. *)
LEMMA RequestMaps ==
  ASSUME VInv, NEW u \in Tasks,
         CommitTask(u) \/ RejectTask(u) \/ OrphanTask(u) \/ FatalRequest
  PROVE  [Lifecycle!Next]_(Lifecycle!vars)
  <1> USE DEF stores, history
  <1>1. SameWork /\ SameCameBack
      BY UntouchedMessages, UntouchedIncidents
      DEF CommitTask, RejectTask, OrphanTask, FatalRequest
  <1>2. CASE CommitTask(u)
    <2>1. status[u] = "none" BY <1>2 DEF CommitTask, VInv, Coursed, Opening
    <2>2. Lifecycle!Submit(u)
        BY <1>1, <1>2, <2>1, SameOutstanding, SameRevisable DEF CommitTask, Lifecycle!Submit
    <2>3. QED BY <2>2 DEF Lifecycle!Next
  <1>3. CASE ~CommitTask(u)
    <2>1. status' = status BY <1>3 DEF RejectTask, OrphanTask, FatalRequest
    <2>2. QED BY <1>1, <2>1, StutterMaps DEF Stutters
  <1>4. QED BY <1>2, <1>3

(* Steps that only move a handler, or a message between hands and queues.  *)
LEMMA HandlerStutters ==
  ASSUME VInv, NEW p \in Procs, NEW m \in Messages,
         \/ Deliver(p, m) \/ Spawn(p, m) \/ DlqDeliver(p, m) \/ ReadRow(p, m)
         \/ ReadFails(p, m) \/ RunReturns(p, m) \/ StoreResults(p, m) \/ Notify(p, m)
         \/ GiveUp(p, m) \/ RetryFails(p, m) \/ DlqNotify(p, m)
  PROVE  Stutters
  <1> USE DEF stores, history
  <1>1. status' = status
      BY DEF Deliver, Spawn, DlqDeliver, ReadRow, ReadFails, RunReturns, StoreResults, Notify,
             GiveUp, RetryFails, DlqNotify
  <1>2. SameWork
    <2>1. \/ msg' = msg \/ Consume(p, m, EvalQueueName) \/ Consume(p, m, EvalDLQName)
          \/ Requeue(p, m, EvalQueueName) \/ DeadLetter(p, m, EvalQueueName, EvalDLQName)
        BY DEF Deliver, Spawn, DlqDeliver, ReadRow, ReadFails, RunReturns, StoreResults, Notify,
               GiveUp, RetryFails, DlqNotify
    <2>2. QED BY <2>1, UntouchedMessages, DeliverKeepsWork, AnswerKeepsWork DEF VInv
  <1>3. SameCameBack
    <2>1. \/ incidents' = incidents
          \/ Befalls(Task(m), "unread") \/ Befalls(Task(m), "requeued")
        BY DEF Deliver, Spawn, DlqDeliver, ReadRow, ReadFails, RunReturns, StoreResults, Notify,
               GiveUp, RetryFails, DlqNotify
    <2>2. QED BY <2>1, UntouchedIncidents, HarmlessIncident DEF VInv, IInv
  <1>4. QED BY <1>1, <1>2, <1>3 DEF Stutters

-----------------------------------------------------------------------------
LEMMA InitLifecycle == Init => Lifecycle!Init
  <1> SUFFICES ASSUME Init PROVE Lifecycle!Init
      OBVIOUS
  <1>1. \A t \in Tasks : LiveFor(t) = FALSE BY DEF Init, BrokerInit, LiveFor, Live
  <1>2. \A t \in Tasks : ~CameBack(t) BY DEF Init, CameBack
  <1>3. QED BY <1>1, <1>2 DEF Init, Lifecycle!Init

LEMMA StepLifecycle == VInv /\ [Next]_vars => [Lifecycle!Next]_(Lifecycle!vars)
  <1> SUFFICES ASSUME VInv, [Next]_vars PROVE [Lifecycle!Next]_(Lifecycle!vars)
      OBVIOUS
  <1>0. IInv' BY StepIInv DEF VInv
  <1>1. ASSUME NEW t \in Tasks, Api(t) PROVE [Lifecycle!Next]_(Lifecycle!vars)
    <2>1. CASE PublishTask(t) BY <2>1, PublishMaps DEF Lifecycle!Next
    <2>2. QED BY <1>1, <2>1, RequestMaps DEF Api
  <1>2. CASE FatalRequest BY <1>2, RequestMaps DEF FatalRequest
  <1>3. ASSUME NEW p \in Procs, Crash(p) \/ LoseChannel(p) \/ Restart(p)
        PROVE  [Lifecycle!Next]_(Lifecycle!vars)
    <2>1. CASE Restart(p)
      <3>1. Stutters
          BY <2>1, UntouchedMessages, UntouchedIncidents
          DEF Restart, stores, history, Stutters
      <3>2. QED BY <3>1, StutterMaps
    <2>2. QED BY <1>3, <2>1, CloseMaps DEF Crash, Lifecycle!Next
  <1>4. ASSUME NEW p \in Procs, NEW m \in Messages, RunPanics(p, m)
        PROVE  [Lifecycle!Next]_(Lifecycle!vars)
      BY <1>4, CloseMaps DEF RunPanics, Lifecycle!Next
  <1>5. ASSUME NEW p \in Procs, NEW m \in Messages,
               \/ Deliver(p, m) \/ Spawn(p, m) \/ DlqDeliver(p, m)
               \/ ProcessMessage(p, m) \/ HandleFailure(p, m) \/ HandleDLQMessage(p, m)
        PROVE  [Lifecycle!Next]_(Lifecycle!vars)
      BY <1>0, <1>5, AckMaps, JudgeMaps, RetryMaps, HandlerStutters, StutterMaps
      DEF ProcessMessage, HandleFailure, HandleDLQMessage
  <1>6. CASE UNCHANGED vars
    <2>1. Stutters
        BY <1>6, UntouchedMessages, UntouchedIncidents
        DEF vars, stores, history, Stutters
    <2>2. QED BY <2>1, StutterMaps
  <1>7. QED BY <1>1, <1>2, <1>3, <1>4, <1>5, <1>6 DEF Next

(* The pipeline keeps what TaskLifecycle promises to each task: no work is *)
(* dropped before its verdict, nothing is judged that is not outstanding,  *)
(* and a verdict is revised only after a delivery of the task came back.   *)
THEOREM KeepsThePromise == Spec => KeepsTaskLifecycle
  BY InitLifecycle, StepLifecycle, VInvariance, PTL DEF Spec, KeepsTaskLifecycle, Lifecycle!Spec
=============================================================================
