------------------------- MODULE EvalPipelineProofs -------------------------
(***************************************************************************)
(* For every set of tasks, messages and processes, every retry limit and   *)
(* pool size, and any number of mishaps: the pipeline keeps its            *)
(* types, loses no published task and leaks no delivery.                   *)
(***************************************************************************)
EXTENDS EvalPipeline, BrokerProofs

(* Only published tasks have messages, and only sent messages are handled. *)
Sent ==
    /\ \A m \in Messages : msg[m].at # "unsent" =>
         Task(m) \in Tasks /\ api[Task(m)] = "published"
    /\ \A p \in Procs, m \in Messages :
         handler[p][m] # "idle" \/ dlq[p][m] # "idle" => msg[m].at # "unsent"

(* Whoever is about to acknowledge for good has settled the row before. *)
Settling  == {"results", "notify", "ack"}
Reporting == {"notify", "ack"}
SettledFirst ==
    \A p \in Procs, m \in Messages :
        handler[p][m] \in Settling \/ dlq[p][m] \in Reporting
        => status[Task(m)] \in Settled

(* Whoever is about to acknowledge the old delivery of a retried task has  *)
(* published a copy: the task is settled meanwhile, or a copy with more    *)
(* retries is live.  The count is what keeps two handlers from relying on  *)
(* each other's message.                                                   *)
Copy(k, m) == Live(k) /\ Task(k) = Task(m) /\ msg[k].retry > msg[m].retry
CopyFirst ==
    \A p \in Procs, m \in Messages : handler[p][m] = "ackOld" =>
        status[Task(m)] \in Settled \/ \E k \in Messages : Copy(k, m)

Flow == Sent /\ SettledFirst /\ CopyFirst /\ NoLostTask
IInv == TypeOK /\ Flow /\ NoLeakedDelivery

-----------------------------------------------------------------------------
(* The two ways a handler moves on. *)
LEMMA GotoFact ==
  ASSUME TypeOK, NEW p \in Procs, NEW m \in Messages, NEW pc \in HandlerPC, Goto(p, m, pc)
  PROVE  /\ handler' \in [Procs -> [Messages -> HandlerPC]]
         /\ proc' = proc /\ dlq' = dlq
         /\ handler'[p][m] = pc
         /\ \A r \in Procs, k \in Messages :
              r # p \/ k # m => handler'[r][k] = handler[r][k]
  BY DEF TypeOK, Goto

LEMMA DlqGotoFact ==
  ASSUME TypeOK, NEW p \in Procs, NEW m \in Messages, NEW pc \in DlqPC, DlqGoto(p, m, pc)
  PROVE  /\ dlq' \in [Procs -> [Messages -> DlqPC]]
         /\ proc' = proc /\ handler' = handler
         /\ dlq'[p][m] = pc
         /\ \A r \in Procs, k \in Messages :
              r # p \/ k # m => dlq'[r][k] = dlq[r][k]
  BY DEF TypeOK, DlqGoto

(* What nearly every action has in common: no published task is taken back *)
(* from settled to pending, and no handler claims more than the row says.  *)
Forward ==
    /\ \A t \in Tasks :
         /\ api'[t] = "published" <=> api[t] = "published"
         /\ api[t] = "published" =>
              /\ status[t] \in Settled => status'[t] \in Settled
              /\ status'[t] = "pending" => status[t] = "pending"
    /\ \A p \in Procs, m \in Messages :
         /\ handler'[p][m] # "idle" => handler[p][m] # "idle" \/ msg[m].at # "unsent"
         /\ dlq'[p][m] # "idle" => dlq[p][m] # "idle" \/ msg[m].at # "unsent"
         /\ handler'[p][m] \in Settling =>
              handler[p][m] \in Settling \/ status'[Task(m)] \in Settled
         /\ dlq'[p][m] \in Reporting =>
              dlq[p][m] \in Reporting \/ status'[Task(m)] \in Settled
         /\ handler'[p][m] = "ackOld" => handler[p][m] = "ackOld"

Calm == Kept /\ NothingNew /\ StaysLive

(* An unchanged broker is calm. *)
LEMMA QuietBroker == msg' = msg => Calm
  BY DEF Calm, Kept, NothingNew, StaysLive, Live

(* What is said of the messages and the rows in Sent and SettledFirst does *)
(* not depend on a message being answered.                                 *)
LEMMA HandlersForward ==
  ASSUME TypeOK, Flow, Forward, Kept, NothingNew PROVE Sent' /\ SettledFirst'
  <1>1. Sent' BY DEF Flow, Sent, Forward, Kept, NothingNew, Task, Tasks
  <1>2. ASSUME NEW p \in Procs, NEW m \in Messages,
               handler'[p][m] \in Settling \/ dlq'[p][m] \in Reporting
        PROVE  status'[msg'[m].body] \in Settled
    <2>1. msg[m].at # "unsent" /\ msg'[m].body = msg[m].body
        BY <1>1, <1>2 DEF Sent, NothingNew, Kept, Settling, Reporting
    <2>2. msg[m].body \in Tasks /\ api[msg[m].body] = "published"
        BY <2>1 DEF Flow, Sent, Task
    <2>3. status[msg[m].body] \in Settled \/ status'[msg[m].body] \in Settled
        BY <1>2 DEF Flow, SettledFirst, Forward, Task
    <2>4. QED BY <2>1, <2>2, <2>3 DEF Forward
  <1>3. QED BY <1>1, <1>2 DEF SettledFirst, Task

(* A step that loses no live message keeps the flow. *)
LEMMA ForwardStep ==
  ASSUME TypeOK, Flow, Forward, Calm PROVE Flow'
  <1>1. Sent' /\ SettledFirst' BY HandlersForward DEF Calm
  <1>2. ASSUME NEW p \in Procs, NEW m \in Messages, handler'[p][m] = "ackOld"
        PROVE  status'[msg'[m].body] \in Settled \/ \E k \in Messages : Copy(k, m)'
    <2>1. handler[p][m] = "ackOld" BY <1>2 DEF Forward
    <2>2. /\ msg[m].at # "unsent" /\ msg[m].body \in Tasks
          /\ api[msg[m].body] = "published"
        BY <2>1 DEF Flow, Sent, Task
    <2>3. CASE status[msg[m].body] \in Settled
        BY <2>2, <2>3 DEF Forward, Calm, Kept
    <2>4. CASE \E k \in Messages : Copy(k, m)
      <3>1. PICK k \in Messages : Copy(k, m) BY <2>4
      <3>2. Copy(k, m)'
          BY <2>2, <3>1 DEF Copy, Calm, Kept, StaysLive, Live, Task
      <3>3. QED BY <3>2
    <2>5. QED BY <2>1, <2>3, <2>4 DEF Flow, CopyFirst, Task
  <1>3. ASSUME NEW t \in Tasks, api'[t] = "published", status'[t] = "pending"
        PROVE  LiveFor(t)'
    <2>1. LiveFor(t) BY <1>3 DEF Flow, NoLostTask, Forward
    <2>2. PICK m \in Messages : Live(m) /\ Task(m) = t BY <2>1 DEF LiveFor
    <2>3. Live(m)' /\ Task(m)' = t
        BY <2>2 DEF Calm, StaysLive, Kept, Live, Task
    <2>4. QED BY <2>3 DEF LiveFor
  <1>4. QED BY <1>1, <1>2, <1>3 DEF Flow, CopyFirst, NoLostTask, Task

(* Acknowledging a message keeps the flow if its task is settled or a copy *)
(* of it with more retries is live: that copy is another message, and what *)
(* relied on the acknowledged message may rely on the copy.                *)
LEMMA AnswerStep ==
  ASSUME TypeOK, Flow, Forward, NEW m \in Messages, Answered(m),
         msg[m].at # "unsent", status' = status,
         status[Task(m)] \in Settled \/ \E k \in Messages : Copy(k, m)
  PROVE  Flow'
  <1>1. Sent' /\ SettledFirst' BY HandlersForward DEF Answered
  <1>2. Task(m) \in Tasks /\ api[Task(m)] = "published" BY DEF Flow, Sent
  <1>3. \A k \in Messages : msg[k] \in Record BY DEF TypeOK
  (* A live message of a pending task has a live successor after the step. *)
  <1>4. ASSUME NEW n \in Messages, Live(n), status[Task(n)] \notin Settled
        PROVE  \E k \in Messages :
                 Live(k)' /\ Task(k)' = Task(n) /\ msg'[k].retry >= msg[n].retry
    <2>1. CASE n # m
      <3>1. msg'[n] = msg[n] BY <2>1 DEF Answered, Only
      <3>2. msg[n].retry \in Nat BY <1>3 DEF Record
      <3>3. QED BY <1>4, <3>1, <3>2 DEF Live, Task
    <2>2. CASE n = m
      <3>1. PICK k \in Messages : Copy(k, m) BY <1>4, <2>2
      <3>2. msg[k].retry \in Nat /\ msg[m].retry \in Nat BY <1>3 DEF Record
      <3>3. k # m BY <3>1, <3>2 DEF Copy
      <3>4. msg'[k] = msg[k] BY <3>3 DEF Answered, Only
      <3>5. QED BY <2>2, <3>1, <3>2, <3>4 DEF Copy, Live, Task
    <2>3. QED BY <2>1, <2>2
  <1>5. ASSUME NEW p \in Procs, NEW n \in Messages, handler'[p][n] = "ackOld"
        PROVE  status'[msg'[n].body] \in Settled \/ \E k \in Messages : Copy(k, n)'
    <2>1. handler[p][n] = "ackOld" BY <1>5 DEF Forward
    <2>2. msg[n].at # "unsent" BY <2>1 DEF Flow, Sent
    <2>3. msg'[n].body = msg[n].body /\ msg'[n].retry = msg[n].retry
        BY <2>2 DEF Answered, Kept
    <2>4. CASE status[msg[n].body] \in Settled BY <2>3, <2>4
    <2>5. CASE status[msg[n].body] \notin Settled
      <3>1. PICK c \in Messages : Copy(c, n)
          BY <2>1, <2>5 DEF Flow, CopyFirst, Task
      <3>2. Live(c) /\ Task(c) = Task(n) BY <3>1 DEF Copy
      <3>3. PICK k \in Messages :
              Live(k)' /\ Task(k)' = Task(c) /\ msg'[k].retry >= msg[c].retry
          BY <1>4, <2>5, <3>2 DEF Task
      <3>4. msg[c].retry \in Nat /\ msg[n].retry \in Nat /\ msg'[k].retry \in Nat
          BY <1>3 DEF Record, Answered, MsgType
      <3>5. msg'[k].retry > msg'[n].retry BY <2>3, <3>1, <3>3, <3>4 DEF Copy
      <3>6. Copy(k, n)' BY <2>3, <3>2, <3>3, <3>5 DEF Copy, Task
      <3>7. QED BY <3>6
    <2>6. QED BY <2>4, <2>5
  <1>6. ASSUME NEW t \in Tasks, api'[t] = "published", status'[t] = "pending"
        PROVE  LiveFor(t)'
    <2>1. LiveFor(t) BY <1>6 DEF Flow, NoLostTask, Forward
    <2>2. PICK n \in Messages : Live(n) /\ Task(n) = t BY <2>1 DEF LiveFor
    <2>3. status[Task(n)] \notin Settled BY <1>6, <2>2 DEF Settled
    <2>4. QED BY <1>4, <2>2, <2>3 DEF LiveFor
  <1>7. QED BY <1>1, <1>5, <1>6 DEF Flow, CopyFirst, NoLostTask, Task

-----------------------------------------------------------------------------
(* One lemma per kind of action.  The broker's and the handler's share of  *)
(* a step come from the facts above; what is left is the row, the mishaps  *)
(* and the histories.                                                      *)

(* Requests: nothing but api and the new row changes. *)
LEMMA RequestStep ==
  ASSUME IInv, NEW t \in Tasks,
         CommitTask(t) \/ RejectTask(t) \/ OrphanTask(t) \/ FatalRequest
  PROVE  IInv'
  <1> USE DEF IInv, stores, workers, history
  <1>1. CASE CommitTask(t)
    <2>1. TypeOK' BY <1>1 DEF CommitTask, TypeOK, Settled
    <2>2. Forward BY <1>1 DEF CommitTask, TypeOK, Forward, Settled
    <2>3. Calm BY <1>1, QuietBroker DEF CommitTask
    <2>4. NoLeakedDelivery' BY <1>1 DEF CommitTask, NoLeakedDelivery, Holds
    <2>5. QED BY <2>1, <2>2, <2>3, <2>4, ForwardStep
  <1>2. CASE RejectTask(t) \/ OrphanTask(t) \/ FatalRequest
    <2>1. TypeOK' BY <1>2 DEF RejectTask, OrphanTask, FatalRequest, TypeOK
    <2>2. Forward
        BY <1>2 DEF RejectTask, OrphanTask, FatalRequest, TypeOK, Forward
    <2>3. Calm BY <1>2, QuietBroker DEF RejectTask, OrphanTask, FatalRequest
    <2>4. NoLeakedDelivery'
        BY <1>2 DEF RejectTask, OrphanTask, FatalRequest, NoLeakedDelivery, Holds
    <2>5. QED BY <2>1, <2>2, <2>3, <2>4, ForwardStep
  <1>3. QED BY <1>1, <1>2

(* The bookkeeping of a failed call stays within its types. *)
LEMMA MishapFact ==
  ASSUME TypeOK, Mishap PROVE mishaps' \in 0..MaxMishaps
  BY EvalAssumption DEF TypeOK, Mishap, EvalAssumption

LEMMA BefallsFact ==
  ASSUME TypeOK, NEW t \in Tasks, NEW what \in Incident,
         Befalls(t, what)
  PROVE  /\ incidents' \in [Tasks -> SUBSET Incident]
         /\ attempts' = attempts
  BY DEF TypeOK, Befalls

(* Steps of a handler that leave the broker alone. *)
LEMMA SpawnStep ==
  ASSUME IInv, NEW p \in Procs, NEW m \in Messages, Spawn(p, m) PROVE IInv'
  <1> USE DEF IInv, stores, workers, history
  <1>1. PICK pc \in {"fetch"} : Goto(p, m, pc) BY DEF Spawn
  <1>2. /\ handler' \in [Procs -> [Messages -> HandlerPC]]
        /\ proc' = proc /\ dlq' = dlq
        /\ handler'[p][m] = pc
        /\ \A r \in Procs, k \in Messages :
             r # p \/ k # m => handler'[r][k] = handler[r][k]
      BY <1>1, GotoFact DEF HandlerPC
  <1>3. msg' = msg /\ api' = api BY DEF Spawn
  <1>4. msg[m].at # "unsent" /\ Task(m) \in Tasks
      BY DEF Spawn, Flow, Sent
  <1>5. TypeOK' BY <1>2, <1>3, <1>4 DEF Spawn, TypeOK
  <1>6. Forward
    <2>1. \A t \in Tasks : api[t] = "published" =>
            /\ status[t] \in Settled => status'[t] \in Settled
            /\ status'[t] = "pending" => status[t] = "pending"
        BY <1>4 DEF Spawn, TypeOK, Settled
    <2>2. pc \in Settling => handler[p][m] \in Settling \/ status'[Task(m)] \in Settled
        BY <1>1, <1>4 DEF Spawn, TypeOK, Settling, Settled
    <2>3. QED BY <1>1, <1>2, <1>3, <1>4, <2>1, <2>2 DEF Forward
  <1>7. NoLeakedDelivery'
      BY <1>1, <1>2, <1>3 DEF Spawn, NoLeakedDelivery, Holds
  <1>8. QED BY <1>3, <1>5, <1>6, <1>7, QuietBroker, ForwardStep

LEMMA ReadRowStep ==
  ASSUME IInv, NEW p \in Procs, NEW m \in Messages, ReadRow(p, m) PROVE IInv'
  <1> USE DEF IInv, stores, workers, history
  <1>1. PICK pc \in {"run"} : Goto(p, m, pc) BY DEF ReadRow
  <1>2. /\ handler' \in [Procs -> [Messages -> HandlerPC]]
        /\ proc' = proc /\ dlq' = dlq
        /\ handler'[p][m] = pc
        /\ \A r \in Procs, k \in Messages :
             r # p \/ k # m => handler'[r][k] = handler[r][k]
      BY <1>1, GotoFact DEF HandlerPC
  <1>3. msg' = msg /\ api' = api BY DEF ReadRow
  <1>4. msg[m].at # "unsent" /\ Task(m) \in Tasks
      BY DEF ReadRow, Flow, Sent
  <1>5. TypeOK'
    <2>1. CountedRuns \in Nat BY EvalAssumption DEF CountedRuns, EvalAssumption
    <2>2. attempts[Task(m)] \in 0..CountedRuns BY <1>4 DEF TypeOK
    <2>3. attempts' \in [Tasks -> 0..CountedRuns] BY <1>4, <2>1, <2>2 DEF ReadRow, TypeOK
    <2>4. QED BY <1>2, <1>3, <1>4, <2>3 DEF ReadRow, TypeOK
  <1>6. Forward
    <2>1. \A t \in Tasks : api[t] = "published" =>
            /\ status[t] \in Settled => status'[t] \in Settled
            /\ status'[t] = "pending" => status[t] = "pending"
        BY <1>4 DEF ReadRow, TypeOK, Settled
    <2>2. pc \in Settling => handler[p][m] \in Settling \/ status'[Task(m)] \in Settled
        BY <1>1, <1>4 DEF ReadRow, TypeOK, Settling, Settled
    <2>3. QED BY <1>1, <1>2, <1>3, <1>4, <2>1, <2>2 DEF Forward
  <1>7. NoLeakedDelivery'
      BY <1>1, <1>2, <1>3 DEF ReadRow, NoLeakedDelivery, Holds
  <1>8. QED BY <1>3, <1>5, <1>6, <1>7, QuietBroker, ForwardStep

LEMMA RunReturnsStep ==
  ASSUME IInv, NEW p \in Procs, NEW m \in Messages, RunReturns(p, m) PROVE IInv'
  <1> USE DEF IInv, stores, workers, history
  <1>1. PICK pc \in {"save", "fail", "hung"} : Goto(p, m, pc) BY DEF RunReturns
  <1>2. /\ handler' \in [Procs -> [Messages -> HandlerPC]]
        /\ proc' = proc /\ dlq' = dlq
        /\ handler'[p][m] = pc
        /\ \A r \in Procs, k \in Messages :
             r # p \/ k # m => handler'[r][k] = handler[r][k]
      BY <1>1, GotoFact DEF HandlerPC
  <1>3. msg' = msg /\ api' = api BY DEF RunReturns
  <1>4. msg[m].at # "unsent" /\ Task(m) \in Tasks
      BY DEF RunReturns, Flow, Sent
  <1>5. TypeOK' BY <1>2, <1>3, <1>4 DEF RunReturns, TypeOK
  <1>6. Forward
    <2>1. \A t \in Tasks : api[t] = "published" =>
            /\ status[t] \in Settled => status'[t] \in Settled
            /\ status'[t] = "pending" => status[t] = "pending"
        BY <1>4 DEF RunReturns, TypeOK, Settled
    <2>2. pc \in Settling => handler[p][m] \in Settling \/ status'[Task(m)] \in Settled
        BY <1>1, <1>4 DEF RunReturns, TypeOK, Settling, Settled
    <2>3. QED BY <1>1, <1>2, <1>3, <1>4, <2>1, <2>2 DEF Forward
  <1>7. NoLeakedDelivery'
      BY <1>1, <1>2, <1>3 DEF RunReturns, NoLeakedDelivery, Holds
  <1>8. QED BY <1>3, <1>5, <1>6, <1>7, QuietBroker, ForwardStep

LEMMA SaveSuccessStep ==
  ASSUME IInv, NEW p \in Procs, NEW m \in Messages, SaveSuccess(p, m) PROVE IInv'
  <1> USE DEF IInv, stores, workers, history
  <1>1. PICK pc \in {"results"} : Goto(p, m, pc) BY DEF SaveSuccess
  <1>2. /\ handler' \in [Procs -> [Messages -> HandlerPC]]
        /\ proc' = proc /\ dlq' = dlq
        /\ handler'[p][m] = pc
        /\ \A r \in Procs, k \in Messages :
             r # p \/ k # m => handler'[r][k] = handler[r][k]
      BY <1>1, GotoFact DEF HandlerPC
  <1>3. msg' = msg /\ api' = api BY DEF SaveSuccess
  <1>4. msg[m].at # "unsent" /\ Task(m) \in Tasks
      BY DEF SaveSuccess, Flow, Sent
  <1>5. TypeOK' BY <1>2, <1>3, <1>4 DEF SaveSuccess, TypeOK, Settled
  <1>6. Forward
    <2>1. \A t \in Tasks : api[t] = "published" =>
            /\ status[t] \in Settled => status'[t] \in Settled
            /\ status'[t] = "pending" => status[t] = "pending"
        BY <1>4 DEF SaveSuccess, TypeOK, Settled
    <2>2. pc \in Settling => handler[p][m] \in Settling \/ status'[Task(m)] \in Settled
        BY <1>1, <1>4 DEF SaveSuccess, TypeOK, Settling, Settled
    <2>3. QED BY <1>1, <1>2, <1>3, <1>4, <2>1, <2>2 DEF Forward
  <1>7. NoLeakedDelivery'
      BY <1>1, <1>2, <1>3 DEF SaveSuccess, NoLeakedDelivery, Holds
  <1>8. QED BY <1>3, <1>5, <1>6, <1>7, QuietBroker, ForwardStep

LEMMA StoreResultsStep ==
  ASSUME IInv, NEW p \in Procs, NEW m \in Messages, StoreResults(p, m) PROVE IInv'
  <1> USE DEF IInv, stores, workers, history
  <1>1. PICK pc \in {"notify"} : Goto(p, m, pc) BY DEF StoreResults
  <1>2. /\ handler' \in [Procs -> [Messages -> HandlerPC]]
        /\ proc' = proc /\ dlq' = dlq
        /\ handler'[p][m] = pc
        /\ \A r \in Procs, k \in Messages :
             r # p \/ k # m => handler'[r][k] = handler[r][k]
      BY <1>1, GotoFact DEF HandlerPC
  <1>3. msg' = msg /\ api' = api BY DEF StoreResults
  <1>4. msg[m].at # "unsent" /\ Task(m) \in Tasks
      BY DEF StoreResults, Flow, Sent
  <1>5. TypeOK'
    <2>1. results' \in [Tasks -> Nat] BY <1>4 DEF StoreResults, TypeOK
    <2>2. QED BY <1>2, <1>3, <2>1 DEF StoreResults, TypeOK
  <1>6. Forward
    <2>1. \A t \in Tasks : api[t] = "published" =>
            /\ status[t] \in Settled => status'[t] \in Settled
            /\ status'[t] = "pending" => status[t] = "pending"
        BY <1>4 DEF StoreResults, TypeOK, Settled
    <2>2. pc \in Settling => handler[p][m] \in Settling \/ status'[Task(m)] \in Settled
        BY <1>1, <1>4 DEF StoreResults, TypeOK, Settling, Settled
    <2>3. QED BY <1>1, <1>2, <1>3, <1>4, <2>1, <2>2 DEF Forward
  <1>7. NoLeakedDelivery'
      BY <1>1, <1>2, <1>3 DEF StoreResults, NoLeakedDelivery, Holds
  <1>8. QED BY <1>3, <1>5, <1>6, <1>7, QuietBroker, ForwardStep

LEMMA NotifyStep ==
  ASSUME IInv, NEW p \in Procs, NEW m \in Messages, Notify(p, m) PROVE IInv'
  <1> USE DEF IInv, stores, workers, history
  <1>1. PICK pc \in {"ack"} : Goto(p, m, pc) BY DEF Notify
  <1>2. /\ handler' \in [Procs -> [Messages -> HandlerPC]]
        /\ proc' = proc /\ dlq' = dlq
        /\ handler'[p][m] = pc
        /\ \A r \in Procs, k \in Messages :
             r # p \/ k # m => handler'[r][k] = handler[r][k]
      BY <1>1, GotoFact DEF HandlerPC
  <1>3. msg' = msg /\ api' = api BY DEF Notify
  <1>4. msg[m].at # "unsent" /\ Task(m) \in Tasks
      BY DEF Notify, Flow, Sent
  <1>5. TypeOK' BY <1>2, <1>3, <1>4 DEF Notify, TypeOK, Settled
  <1>6. Forward
    <2>1. \A t \in Tasks : api[t] = "published" =>
            /\ status[t] \in Settled => status'[t] \in Settled
            /\ status'[t] = "pending" => status[t] = "pending"
        BY <1>4 DEF Notify, TypeOK, Settled
    <2>2. pc \in Settling => handler[p][m] \in Settling \/ status'[Task(m)] \in Settled
        BY <1>1, <1>4 DEF Notify, TypeOK, Settling, Settled
    <2>3. QED BY <1>1, <1>2, <1>3, <1>4, <2>1, <2>2 DEF Forward
  <1>7. NoLeakedDelivery'
      BY <1>1, <1>2, <1>3 DEF Notify, NoLeakedDelivery, Holds
  <1>8. QED BY <1>3, <1>5, <1>6, <1>7, QuietBroker, ForwardStep

LEMMA DlqMarkStep ==
  ASSUME IInv, NEW p \in Procs, NEW m \in Messages, DlqMark(p, m) PROVE IInv'
  <1> USE DEF IInv, stores, workers, history
  <1>1. PICK pc \in {"notify"} : DlqGoto(p, m, pc) BY DEF DlqMark
  <1>2. /\ dlq' \in [Procs -> [Messages -> DlqPC]]
        /\ proc' = proc /\ handler' = handler
        /\ dlq'[p][m] = pc
        /\ \A r \in Procs, k \in Messages :
             r # p \/ k # m => dlq'[r][k] = dlq[r][k]
      BY <1>1, DlqGotoFact DEF DlqPC
  <1>3. msg' = msg /\ api' = api BY DEF DlqMark
  <1>4. msg[m].at # "unsent" /\ Task(m) \in Tasks
      BY DEF DlqMark, Flow, Sent
  <1>5. TypeOK' BY <1>2, <1>3, <1>4 DEF DlqMark, TypeOK, Settled
  <1>6. Forward
    <2>1. \A t \in Tasks : api[t] = "published" =>
            /\ status[t] \in Settled => status'[t] \in Settled
            /\ status'[t] = "pending" => status[t] = "pending"
        BY <1>4 DEF DlqMark, TypeOK, Settled
    <2>2. pc \in Reporting => dlq[p][m] \in Reporting \/ status'[Task(m)] \in Settled
        BY <1>1, <1>4 DEF DlqMark, TypeOK, Reporting, Settled
    <2>3. QED BY <1>1, <1>2, <1>3, <1>4, <2>1, <2>2 DEF Forward
  <1>7. NoLeakedDelivery'
      BY <1>1, <1>2, <1>3 DEF DlqMark, NoLeakedDelivery, Holds
  <1>8. QED BY <1>3, <1>5, <1>6, <1>7, QuietBroker, ForwardStep

LEMMA DlqNotifyStep ==
  ASSUME IInv, NEW p \in Procs, NEW m \in Messages, DlqNotify(p, m) PROVE IInv'
  <1> USE DEF IInv, stores, workers, history
  <1>1. PICK pc \in {"ack"} : DlqGoto(p, m, pc) BY DEF DlqNotify
  <1>2. /\ dlq' \in [Procs -> [Messages -> DlqPC]]
        /\ proc' = proc /\ handler' = handler
        /\ dlq'[p][m] = pc
        /\ \A r \in Procs, k \in Messages :
             r # p \/ k # m => dlq'[r][k] = dlq[r][k]
      BY <1>1, DlqGotoFact DEF DlqPC
  <1>3. msg' = msg /\ api' = api BY DEF DlqNotify
  <1>4. msg[m].at # "unsent" /\ Task(m) \in Tasks
      BY DEF DlqNotify, Flow, Sent
  <1>5. TypeOK' BY <1>2, <1>3, <1>4 DEF DlqNotify, TypeOK, Settled
  <1>6. Forward
    <2>1. \A t \in Tasks : api[t] = "published" =>
            /\ status[t] \in Settled => status'[t] \in Settled
            /\ status'[t] = "pending" => status[t] = "pending"
        BY <1>4 DEF DlqNotify, TypeOK, Settled
    <2>2. pc \in Reporting => dlq[p][m] \in Reporting \/ status'[Task(m)] \in Settled
        BY <1>1, <1>4 DEF DlqNotify, TypeOK, Reporting, Settled
    <2>3. QED BY <1>1, <1>2, <1>3, <1>4, <2>1, <2>2 DEF Forward
  <1>7. NoLeakedDelivery'
      BY <1>1, <1>2, <1>3 DEF DlqNotify, NoLeakedDelivery, Holds
  <1>8. QED BY <1>3, <1>5, <1>6, <1>7, QuietBroker, ForwardStep

(* Steps that put the delivery back or dead-letter it. *)
LEMMA ReadFailsStep ==
  ASSUME IInv, NEW p \in Procs, NEW m \in Messages, ReadFails(p, m) PROVE IInv'
  <1> USE DEF IInv, stores, workers, history
  <1>1. DeadLetter(p, m, EvalQueueName, EvalDLQName) /\ Goto(p, m, "idle") /\ api' = api /\ status' = status
      BY DEF ReadFails
  <1>2. /\ handler' \in [Procs -> [Messages -> HandlerPC]]
        /\ proc' = proc /\ dlq' = dlq
        /\ handler'[p][m] = "idle"
        /\ \A r \in Procs, k \in Messages :
             r # p \/ k # m => handler'[r][k] = handler[r][k]
      BY <1>1, GotoFact DEF HandlerPC
  <1>3. Answered(m) /\ ~Holds(p, m, EvalQueueName)' /\ StaysLive
      BY <1>1, DeadLetterFact, EvalAssumption DEF EvalAssumption, TypeOK, MsgType
  <1>4. TypeOK'
    <2>1. msg[m].at # "unsent" /\ Task(m) \in Tasks BY DEF ReadFails, Flow, Sent
    <2>2. /\ incidents' \in [Tasks -> SUBSET Incident]
          /\ attempts' = attempts
        BY <2>1, BefallsFact DEF ReadFails, Incident
    <2>3. mishaps' \in 0..MaxMishaps
        BY MishapFact DEF ReadFails, TypeOK
    <2>4. QED BY <1>1, <1>2, <1>3, <2>2, <2>3 DEF ReadFails, TypeOK, Answered, MsgType
  <1>5. Forward BY <1>1, <1>2 DEF Forward, Settling, Reporting
  <1>6. NoLeakedDelivery'
    <2>1. \A r \in Procs, k \in Messages, q \in Queues :
            Holds(r, k, q)' => Holds(r, k, q)
        BY <1>3, BrokerAssumption DEF Answered, Only, Holds, BrokerAssumption
    <2>2. QED BY <1>2, <1>3, <2>1, EvalAssumption DEF EvalAssumption, NoLeakedDelivery
  <1>7. QED BY <1>3, <1>4, <1>5, <1>6, ForwardStep DEF Calm, Answered

LEMMA SaveFailsStep ==
  ASSUME IInv, NEW p \in Procs, NEW m \in Messages, SaveFails(p, m) PROVE IInv'
  <1> USE DEF IInv, stores, workers, history
  <1>1. Requeue(p, m, EvalQueueName) /\ Goto(p, m, "idle") /\ api' = api
      BY DEF SaveFails
  <1>2. /\ handler' \in [Procs -> [Messages -> HandlerPC]]
        /\ proc' = proc /\ dlq' = dlq
        /\ handler'[p][m] = "idle"
        /\ \A r \in Procs, k \in Messages :
             r # p \/ k # m => handler'[r][k] = handler[r][k]
      BY <1>1, GotoFact DEF HandlerPC
  <1>3. Answered(m) /\ ~Holds(p, m, EvalQueueName)' /\ StaysLive
      BY <1>1, RequeueFact, EvalAssumption DEF EvalAssumption, TypeOK, MsgType
  <1>4. TypeOK'
    <2>1. msg[m].at # "unsent" /\ Task(m) \in Tasks BY DEF SaveFails, Flow, Sent
    <2>2. /\ incidents' \in [Tasks -> SUBSET Incident]
          /\ attempts' = attempts
        BY <2>1, BefallsFact DEF SaveFails, Incident
    <2>3. mishaps' \in 0..MaxMishaps
        BY MishapFact DEF SaveFails, TypeOK
    <2>4. status' \in [Tasks -> {"none", "pending"} \cup Settled]
        BY <2>1 DEF SaveFails, TypeOK, Settled
    <2>5. QED BY <1>1, <1>2, <1>3, <2>2, <2>3, <2>4 DEF SaveFails, TypeOK, Answered, MsgType
  <1>5. Forward
    <2>1. \A t \in Tasks :
            /\ status[t] \in Settled => status'[t] \in Settled
            /\ status'[t] = "pending" => status[t] = "pending"
        BY DEF SaveFails, TypeOK, Settled
    <2>2. QED BY <1>1, <1>2, <2>1 DEF Forward, Settling, Reporting
  <1>6. NoLeakedDelivery'
    <2>1. \A r \in Procs, k \in Messages, q \in Queues :
            Holds(r, k, q)' => Holds(r, k, q)
        BY <1>3, BrokerAssumption DEF Answered, Only, Holds, BrokerAssumption
    <2>2. QED BY <1>2, <1>3, <2>1, EvalAssumption DEF EvalAssumption, NoLeakedDelivery
  <1>7. QED BY <1>3, <1>4, <1>5, <1>6, ForwardStep DEF Calm, Answered

LEMMA GiveUpStep ==
  ASSUME IInv, NEW p \in Procs, NEW m \in Messages, GiveUp(p, m) PROVE IInv'
  <1> USE DEF IInv, stores, workers, history
  <1>1. DeadLetter(p, m, EvalQueueName, EvalDLQName) /\ Goto(p, m, "idle") /\ api' = api /\ status' = status
      BY DEF GiveUp
  <1>2. /\ handler' \in [Procs -> [Messages -> HandlerPC]]
        /\ proc' = proc /\ dlq' = dlq
        /\ handler'[p][m] = "idle"
        /\ \A r \in Procs, k \in Messages :
             r # p \/ k # m => handler'[r][k] = handler[r][k]
      BY <1>1, GotoFact DEF HandlerPC
  <1>3. Answered(m) /\ ~Holds(p, m, EvalQueueName)' /\ StaysLive
      BY <1>1, DeadLetterFact, EvalAssumption DEF EvalAssumption, TypeOK, MsgType
  <1>4. TypeOK' BY <1>1, <1>2, <1>3 DEF GiveUp, TypeOK, Answered, MsgType
  <1>5. Forward BY <1>1, <1>2 DEF Forward, Settling, Reporting
  <1>6. NoLeakedDelivery'
    <2>1. \A r \in Procs, k \in Messages, q \in Queues :
            Holds(r, k, q)' => Holds(r, k, q)
        BY <1>3, BrokerAssumption DEF Answered, Only, Holds, BrokerAssumption
    <2>2. QED BY <1>2, <1>3, <2>1, EvalAssumption DEF EvalAssumption, NoLeakedDelivery
  <1>7. QED BY <1>3, <1>4, <1>5, <1>6, ForwardStep DEF Calm, Answered

LEMMA RetryFailsStep ==
  ASSUME IInv, NEW p \in Procs, NEW m \in Messages, RetryFails(p, m) PROVE IInv'
  <1> USE DEF IInv, stores, workers, history
  <1>1. Requeue(p, m, EvalQueueName) /\ Goto(p, m, "idle") /\ api' = api /\ status' = status
      BY DEF RetryFails
  <1>2. /\ handler' \in [Procs -> [Messages -> HandlerPC]]
        /\ proc' = proc /\ dlq' = dlq
        /\ handler'[p][m] = "idle"
        /\ \A r \in Procs, k \in Messages :
             r # p \/ k # m => handler'[r][k] = handler[r][k]
      BY <1>1, GotoFact DEF HandlerPC
  <1>3. Answered(m) /\ ~Holds(p, m, EvalQueueName)' /\ StaysLive
      BY <1>1, RequeueFact, EvalAssumption DEF EvalAssumption, TypeOK, MsgType
  <1>4. TypeOK'
    <2>1. msg[m].at # "unsent" /\ Task(m) \in Tasks BY DEF RetryFails, Flow, Sent
    <2>2. /\ incidents' \in [Tasks -> SUBSET Incident]
          /\ attempts' = attempts
        BY <2>1, BefallsFact DEF RetryFails, Incident
    <2>3. mishaps' \in 0..MaxMishaps
        BY MishapFact DEF RetryFails, TypeOK
    <2>4. QED BY <1>1, <1>2, <1>3, <2>2, <2>3 DEF RetryFails, TypeOK, Answered, MsgType
  <1>5. Forward BY <1>1, <1>2 DEF Forward, Settling, Reporting
  <1>6. NoLeakedDelivery'
    <2>1. \A r \in Procs, k \in Messages, q \in Queues :
            Holds(r, k, q)' => Holds(r, k, q)
        BY <1>3, BrokerAssumption DEF Answered, Only, Holds, BrokerAssumption
    <2>2. QED BY <1>2, <1>3, <2>1, EvalAssumption DEF EvalAssumption, NoLeakedDelivery
  <1>7. QED BY <1>3, <1>4, <1>5, <1>6, ForwardStep DEF Calm, Answered

LEMMA DlqFailsStep ==
  ASSUME IInv, NEW p \in Procs, NEW m \in Messages, DlqFails(p, m) PROVE IInv'
  <1> USE DEF IInv, stores, workers, history
  <1>1. Requeue(p, m, EvalDLQName) /\ DlqGoto(p, m, "idle") /\ api' = api
      BY DEF DlqFails
  <1>2. /\ dlq' \in [Procs -> [Messages -> DlqPC]]
        /\ proc' = proc /\ handler' = handler
        /\ dlq'[p][m] = "idle"
        /\ \A r \in Procs, k \in Messages :
             r # p \/ k # m => dlq'[r][k] = dlq[r][k]
      BY <1>1, DlqGotoFact DEF DlqPC
  <1>3. Answered(m) /\ ~Holds(p, m, EvalDLQName)' /\ StaysLive
      BY <1>1, RequeueFact, EvalAssumption DEF EvalAssumption, TypeOK, MsgType
  <1>4. TypeOK'
    <2>1. mishaps' \in 0..MaxMishaps
        BY MishapFact DEF DlqFails
    <2>2. msg[m].at # "unsent" /\ Task(m) \in Tasks BY DEF DlqFails, Flow, Sent
    <2>3. /\ status' \in [Tasks -> {"none", "pending"} \cup Settled]
          /\ notified' \subseteq Tasks \X Settled
        BY <2>2 DEF DlqFails, TypeOK, Settled
    <2>4. QED BY <1>1, <1>2, <1>3, <2>1, <2>3 DEF DlqFails, TypeOK, Answered, MsgType
  <1>5. Forward
    <2>1. \A t \in Tasks :
            /\ status[t] \in Settled => status'[t] \in Settled
            /\ status'[t] = "pending" => status[t] = "pending"
        BY DEF DlqFails, TypeOK, Settled
    <2>2. QED BY <1>1, <1>2, <2>1 DEF Forward, Settling, Reporting
  <1>6. NoLeakedDelivery'
    <2>1. \A r \in Procs, k \in Messages, q \in Queues :
            Holds(r, k, q)' => Holds(r, k, q)
        BY <1>3, BrokerAssumption DEF Answered, Only, Holds, BrokerAssumption
    <2>2. QED BY <1>2, <1>3, <2>1, EvalAssumption DEF EvalAssumption, NoLeakedDelivery
  <1>7. QED BY <1>3, <1>4, <1>5, <1>6, ForwardStep DEF Calm, Answered

(* Steps that acknowledge: only behind a settled row or a copy. *)
LEMMA SkipDoneStep ==
  ASSUME IInv, NEW p \in Procs, NEW m \in Messages, SkipDone(p, m) PROVE IInv'
  <1> USE DEF IInv, stores, workers, history
  <1>1. Ack(p, m, EvalQueueName) /\ Goto(p, m, "idle") /\ api' = api /\ status' = status
      BY DEF SkipDone
  <1>2. /\ handler' \in [Procs -> [Messages -> HandlerPC]]
        /\ proc' = proc /\ dlq' = dlq
        /\ handler'[p][m] = "idle"
        /\ \A r \in Procs, k \in Messages :
             r # p \/ k # m => handler'[r][k] = handler[r][k]
      BY <1>1, GotoFact DEF HandlerPC
  <1>3. Answered(m) /\ ~Holds(p, m, EvalQueueName)'
      BY <1>1, AckFact, EvalAssumption DEF EvalAssumption, TypeOK, MsgType
  <1>4. TypeOK' BY <1>1, <1>2, <1>3 DEF SkipDone, TypeOK, Answered, MsgType
  <1>5. Forward BY <1>1, <1>2 DEF Forward, Settling, Reporting
  <1>6. NoLeakedDelivery'
    <2>1. \A r \in Procs, k \in Messages, q \in Queues :
            Holds(r, k, q)' => Holds(r, k, q)
        BY <1>3, BrokerAssumption DEF Answered, Only, Holds, BrokerAssumption
    <2>2. QED BY <1>2, <1>3, <2>1, EvalAssumption DEF EvalAssumption, NoLeakedDelivery
  <1>7. msg[m].at # "unsent" BY DEF SkipDone, Flow, Sent
  <1>8. status[Task(m)] \in Settled \/ \E k \in Messages : Copy(k, m)
      BY DEF SkipDone, Flow, SettledFirst, CopyFirst, Settling, Reporting, Settled
  <1>9. QED BY <1>1, <1>3, <1>4, <1>5, <1>6, <1>7, <1>8, AnswerStep

LEMMA AckDoneStep ==
  ASSUME IInv, NEW p \in Procs, NEW m \in Messages, AckDone(p, m) PROVE IInv'
  <1> USE DEF IInv, stores, workers, history
  <1>1. Ack(p, m, EvalQueueName) /\ Goto(p, m, "idle") /\ api' = api /\ status' = status
      BY DEF AckDone
  <1>2. /\ handler' \in [Procs -> [Messages -> HandlerPC]]
        /\ proc' = proc /\ dlq' = dlq
        /\ handler'[p][m] = "idle"
        /\ \A r \in Procs, k \in Messages :
             r # p \/ k # m => handler'[r][k] = handler[r][k]
      BY <1>1, GotoFact DEF HandlerPC
  <1>3. Answered(m) /\ ~Holds(p, m, EvalQueueName)'
      BY <1>1, AckFact, EvalAssumption DEF EvalAssumption, TypeOK, MsgType
  <1>4. TypeOK' BY <1>1, <1>2, <1>3 DEF AckDone, TypeOK, Answered, MsgType
  <1>5. Forward BY <1>1, <1>2 DEF Forward, Settling, Reporting
  <1>6. NoLeakedDelivery'
    <2>1. \A r \in Procs, k \in Messages, q \in Queues :
            Holds(r, k, q)' => Holds(r, k, q)
        BY <1>3, BrokerAssumption DEF Answered, Only, Holds, BrokerAssumption
    <2>2. QED BY <1>2, <1>3, <2>1, EvalAssumption DEF EvalAssumption, NoLeakedDelivery
  <1>7. msg[m].at # "unsent" BY DEF AckDone, Flow, Sent
  <1>8. status[Task(m)] \in Settled \/ \E k \in Messages : Copy(k, m)
      BY DEF AckDone, Flow, SettledFirst, CopyFirst, Settling, Reporting, Settled
  <1>9. QED BY <1>1, <1>3, <1>4, <1>5, <1>6, <1>7, <1>8, AnswerStep

LEMMA DlqAckStep ==
  ASSUME IInv, NEW p \in Procs, NEW m \in Messages, DlqAck(p, m) PROVE IInv'
  <1> USE DEF IInv, stores, workers, history
  <1>1. Ack(p, m, EvalDLQName) /\ DlqGoto(p, m, "idle") /\ api' = api /\ status' = status
      BY DEF DlqAck
  <1>2. /\ dlq' \in [Procs -> [Messages -> DlqPC]]
        /\ proc' = proc /\ handler' = handler
        /\ dlq'[p][m] = "idle"
        /\ \A r \in Procs, k \in Messages :
             r # p \/ k # m => dlq'[r][k] = dlq[r][k]
      BY <1>1, DlqGotoFact DEF DlqPC
  <1>3. Answered(m) /\ ~Holds(p, m, EvalDLQName)'
      BY <1>1, AckFact, EvalAssumption DEF EvalAssumption, TypeOK, MsgType
  <1>4. TypeOK' BY <1>1, <1>2, <1>3 DEF DlqAck, TypeOK, Answered, MsgType
  <1>5. Forward BY <1>1, <1>2 DEF Forward, Settling, Reporting
  <1>6. NoLeakedDelivery'
    <2>1. \A r \in Procs, k \in Messages, q \in Queues :
            Holds(r, k, q)' => Holds(r, k, q)
        BY <1>3, BrokerAssumption DEF Answered, Only, Holds, BrokerAssumption
    <2>2. QED BY <1>2, <1>3, <2>1, EvalAssumption DEF EvalAssumption, NoLeakedDelivery
  <1>7. msg[m].at # "unsent" BY DEF DlqAck, Flow, Sent
  <1>8. status[Task(m)] \in Settled \/ \E k \in Messages : Copy(k, m)
      BY DEF DlqAck, Flow, SettledFirst, CopyFirst, Settling, Reporting, Settled
  <1>9. QED BY <1>1, <1>3, <1>4, <1>5, <1>6, <1>7, <1>8, AnswerStep

(* Deliveries. *)
LEMMA DeliverStep ==
  ASSUME IInv, NEW p \in Procs, NEW m \in Messages, Deliver(p, m) PROVE IInv'
  <1> USE DEF IInv, stores, workers, history
  <1>1. Consume(p, m, EvalQueueName) /\ Goto(p, m, "buffered") /\ api' = api /\ status' = status
      BY DEF Deliver
  <1>2. /\ handler' \in [Procs -> [Messages -> HandlerPC]]
        /\ proc' = proc /\ dlq' = dlq
        /\ handler'[p][m] = "buffered"
        /\ \A r \in Procs, k \in Messages :
             r # p \/ k # m => handler'[r][k] = handler[r][k]
      BY <1>1, GotoFact DEF HandlerPC
  <1>3. /\ MsgType' /\ Kept /\ NothingNew /\ StaysLive /\ Only(m)
        /\ msg[m].at = "ready" /\ msg'[m].queue = EvalQueueName /\ msg'[m].owner = p
      BY <1>1, ConsumeFact, EvalAssumption DEF EvalAssumption, TypeOK, MsgType
  <1>4. TypeOK' BY <1>2, <1>3 DEF Deliver, TypeOK, MsgType
  <1>5. Forward BY <1>1, <1>2, <1>3 DEF Forward, Settling, Reporting
  <1>6. NoLeakedDelivery'
    <2>1. \A r \in Procs, k \in Messages, q \in Queues :
            Holds(r, k, q)' => Holds(r, k, q) \/ (r = p /\ k = m /\ q = EvalQueueName)
        BY <1>3 DEF Only, Holds
    <2>2. QED
        BY <1>2, <2>1, EvalAssumption
        DEF Deliver, EvalAssumption, NoLeakedDelivery, EvalQueueName, EvalDLQName
  <1>7. QED BY <1>3, <1>4, <1>5, <1>6, ForwardStep DEF Calm

LEMMA DlqDeliverStep ==
  ASSUME IInv, NEW p \in Procs, NEW m \in Messages, DlqDeliver(p, m) PROVE IInv'
  <1> USE DEF IInv, stores, workers, history
  <1>1. Consume(p, m, EvalDLQName) /\ DlqGoto(p, m, "mark") /\ api' = api /\ status' = status
      BY DEF DlqDeliver
  <1>2. /\ dlq' \in [Procs -> [Messages -> DlqPC]]
        /\ proc' = proc /\ handler' = handler
        /\ dlq'[p][m] = "mark"
        /\ \A r \in Procs, k \in Messages :
             r # p \/ k # m => dlq'[r][k] = dlq[r][k]
      BY <1>1, DlqGotoFact DEF DlqPC
  <1>3. /\ MsgType' /\ Kept /\ NothingNew /\ StaysLive /\ Only(m)
        /\ msg[m].at = "ready" /\ msg'[m].queue = EvalDLQName /\ msg'[m].owner = p
      BY <1>1, ConsumeFact, EvalAssumption DEF EvalAssumption, TypeOK, MsgType
  <1>4. TypeOK' BY <1>2, <1>3 DEF DlqDeliver, TypeOK, MsgType
  <1>5. Forward BY <1>1, <1>2, <1>3 DEF Forward, Settling, Reporting
  <1>6. NoLeakedDelivery'
    <2>1. \A r \in Procs, k \in Messages, q \in Queues :
            Holds(r, k, q)' => Holds(r, k, q) \/ (r = p /\ k = m /\ q = EvalDLQName)
        BY <1>3 DEF Only, Holds
    <2>2. QED
        BY <1>2, <2>1, EvalAssumption
        DEF DlqDeliver, EvalAssumption, NoLeakedDelivery, EvalQueueName, EvalDLQName
  <1>7. QED BY <1>3, <1>4, <1>5, <1>6, ForwardStep DEF Calm

-----------------------------------------------------------------------------
(* Publications: the new message is ready, so nobody holds it. *)
LEMMA NobodyHoldsTheNew ==
  ASSUME NEW n \in Messages, Only(n), msg'[n].at = "ready",
         NEW r \in Procs, NEW k \in Messages, NEW q \in Queues, Holds(r, k, q)'
  PROVE  Holds(r, k, q)
  BY DEF Only, Holds

LEMMA PublishTaskStep ==
  ASSUME IInv, NEW t \in Tasks, PublishTask(t) PROVE IInv'
  <1> USE DEF IInv, stores, workers, history
  <1>1. /\ MsgType' /\ Kept /\ StaysLive
        /\ \E n \in Messages :
             /\ msg[n].at = "unsent" /\ Only(n)
             /\ msg'[n] = [at |-> "ready", queue |-> EvalQueueName, body |-> t,
                           retry |-> 0, owner |-> NoProc]
      BY PublishFact, EvalAssumption DEF PublishTask, EvalAssumption, TypeOK, MsgType, Tasks
  <1>2. PICK n \in Messages :
             /\ msg[n].at = "unsent" /\ Only(n) /\ msg'[n].at = "ready"
             /\ msg'[n].body = t
      BY <1>1
  <1>3. /\ api' = [api EXCEPT ![t] = "published"] /\ status' = status
        /\ handler' = handler /\ dlq' = dlq /\ proc' = proc
      BY DEF PublishTask
  <1>4. TypeOK' BY <1>1 DEF PublishTask, TypeOK, MsgType
  <1>5. Sent'
    <2>1. ASSUME NEW m \in Messages, msg'[m].at # "unsent"
          PROVE  msg'[m].body \in Tasks /\ api'[msg'[m].body] = "published"
      <3>1. api \in [Tasks -> {"new", "rejected", "committed", "published", "orphaned"}]
          BY DEF TypeOK
      <3>2. CASE m = n BY <1>2, <1>3, <3>1, <3>2 DEF Tasks
      <3>3. CASE m # n
        <4>1. msg'[m] = msg[m] BY <1>2, <3>3 DEF Only
        <4>2. msg[m].body \in Tasks /\ api[msg[m].body] = "published"
            BY <2>1, <4>1 DEF Flow, Sent, Task
        <4>3. QED BY <1>3, <3>1, <4>1, <4>2
      <3>4. QED BY <3>2, <3>3
    <2>2. \A p \in Procs, m \in Messages :
            handler'[p][m] # "idle" \/ dlq'[p][m] # "idle" => msg'[m].at # "unsent"
        BY <1>1, <1>3 DEF Flow, Sent, Kept
    <2>3. QED BY <2>1, <2>2 DEF Sent, Task
  <1>6. SettledFirst'
      BY <1>1, <1>3 DEF Flow, Sent, SettledFirst, Kept, Task, Settling, Reporting
  <1>7. CopyFirst'
    <2> SUFFICES ASSUME NEW p \in Procs, NEW m \in Messages, handler[p][m] = "ackOld",
                        status[Task(m)] \notin Settled
                 PROVE  \E k \in Messages : Copy(k, m)'
        BY <1>1, <1>3 DEF CopyFirst, Flow, Sent, Kept, Task
    <2>1. PICK k \in Messages : Copy(k, m) BY DEF Flow, CopyFirst
    <2>2. Copy(k, m)' BY <1>1, <2>1 DEF Flow, Sent, Copy, Kept, StaysLive, Live, Task
    <2>3. QED BY <2>2
  <1>8. NoLostTask'
    <2> SUFFICES ASSUME NEW u \in Tasks, api'[u] = "published", status[u] = "pending"
                 PROVE  LiveFor(u)'
        BY <1>3 DEF NoLostTask
    <2>1. CASE u = t BY <1>2, <2>1 DEF LiveFor, Live, Task
    <2>2. CASE u # t
        BY <1>1, <1>3, <2>2 DEF TypeOK, Flow, NoLostTask, LiveFor, StaysLive, Kept, Live, Task
    <2>3. QED BY <2>1, <2>2
  <1>9. NoLeakedDelivery'
      BY <1>2, <1>3, NobodyHoldsTheNew, EvalAssumption DEF NoLeakedDelivery, EvalAssumption
  <1>10. QED BY <1>4, <1>5, <1>6, <1>7, <1>8, <1>9 DEF Flow

LEMMA RetryStep ==
  ASSUME IInv, NEW p \in Procs, NEW m \in Messages, Retry(p, m) PROVE IInv'
  <1> USE DEF IInv, stores, workers, history
  <1>0. /\ msg[m].at # "unsent" /\ Task(m) \in Tasks /\ api[Task(m)] = "published"
        /\ msg[m].retry \in Nat
      BY DEF Retry, Flow, Sent, TypeOK, Record
  <1>1. /\ MsgType' /\ Kept /\ StaysLive
        /\ \E n \in Messages :
             /\ msg[n].at = "unsent" /\ Only(n)
             /\ msg'[n] = [at |-> "ready", queue |-> EvalQueueName, body |-> Task(m),
                           retry |-> msg[m].retry + 1, owner |-> NoProc]
      BY <1>0, PublishFact, EvalAssumption
      DEF Retry, EvalAssumption, TypeOK, MsgType, Tasks
  <1>2. PICK n \in Messages :
             /\ msg[n].at = "unsent" /\ Only(n) /\ msg'[n].at = "ready"
             /\ msg'[n].body = Task(m) /\ msg'[n].retry = msg[m].retry + 1
      BY <1>1
  <1>3. /\ handler' \in [Procs -> [Messages -> HandlerPC]]
        /\ proc' = proc /\ dlq' = dlq
        /\ handler'[p][m] = "ackOld"
        /\ \A r \in Procs, k \in Messages :
             r # p \/ k # m => handler'[r][k] = handler[r][k]
      BY GotoFact DEF Retry, HandlerPC
  <1>4. api' = api /\ status' = status BY DEF Retry
  <1>5. TypeOK' BY <1>1, <1>3 DEF Retry, TypeOK, MsgType
  <1>6. Sent'
      BY <1>0, <1>1, <1>2, <1>3, <1>4 DEF Flow, Sent, Kept, Only, Task
  <1>7. SettledFirst'
      BY <1>1, <1>3, <1>4 DEF Flow, Sent, SettledFirst, Kept, Task, Settling, Reporting
  <1>8. CopyFirst'
    <2> SUFFICES ASSUME NEW r \in Procs, NEW k \in Messages, handler'[r][k] = "ackOld",
                        status[msg'[k].body] \notin Settled
                 PROVE  \E c \in Messages : Copy(c, k)'
        BY <1>4 DEF CopyFirst, Task
    <2>1. CASE k = m
      <3>1. Copy(n, m)' BY <1>0, <1>1, <1>2 DEF Copy, Kept, Live, Task
      <3>2. QED BY <2>1, <3>1
    <2>2. CASE k # m
      <3>1. handler[r][k] = "ackOld" BY <1>3, <2>2
      <3>2. msg[k].at # "unsent" BY <3>1 DEF Flow, Sent
      <3>3. PICK c \in Messages : Copy(c, k)
          BY <1>1, <3>1, <3>2 DEF Flow, CopyFirst, Kept, Task
      <3>4. Copy(c, k)' BY <1>1, <3>2, <3>3 DEF Copy, Kept, StaysLive, Live, Task
      <3>5. QED BY <3>4
    <2>3. QED BY <2>1, <2>2
  <1>9. NoLostTask'
      BY <1>1, <1>4 DEF Flow, NoLostTask, LiveFor, StaysLive, Kept, Live, Task
  <1>10. NoLeakedDelivery'
      BY <1>2, <1>3, NobodyHoldsTheNew, EvalAssumption DEF NoLeakedDelivery, EvalAssumption
  <1>11. QED BY <1>5, <1>6, <1>7, <1>8, <1>9, <1>10 DEF Flow

-----------------------------------------------------------------------------
(* The end of a process: what it held is ready again, its handlers are     *)
(* gone.                                                                   *)
LEMMA DiesStep ==
  ASSUME IInv, NEW p \in Procs, Dies(p), Mishap \/ UNCHANGED mishaps PROVE IInv'
  <1> USE DEF IInv, stores, workers, history
  <1>1. /\ MsgType' /\ Kept /\ NothingNew /\ StaysLive
        /\ \A r \in Procs, m \in Messages, q \in Queues :
             Holds(r, m, q)' => Holds(r, m, q) /\ (r = p => q \notin Queues)
      BY ReleaseFact, BrokerAssumption DEF Dies, TypeOK, MsgType
  <1>2. /\ handler' = [handler EXCEPT ![p] = [m \in Messages |-> "idle"]]
        /\ dlq' = [dlq EXCEPT ![p] = [m \in Messages |-> "idle"]]
        /\ proc' = [proc EXCEPT ![p] = "down"]
        /\ api' = api /\ status' = status
      BY DEF Dies
  <1>3. TypeOK'
    <2>1. incidents' \in [Tasks -> SUBSET Incident]
        BY DEF Dies, Redelivered, TypeOK, Incident
    <2>2. handler' \in [Procs -> [Messages -> HandlerPC]] BY <1>2 DEF TypeOK, HandlerPC
    <2>3. dlq' \in [Procs -> [Messages -> DlqPC]] BY <1>2 DEF TypeOK, DlqPC
    <2>4. mishaps' \in 0..MaxMishaps
        BY EvalAssumption DEF Mishap, TypeOK, EvalAssumption
    <2>5. proc' \in [Procs -> {"up", "noEval", "down"}] BY <1>2 DEF TypeOK
    <2>6. QED BY <1>1, <1>2, <2>1, <2>2, <2>3, <2>4, <2>5 DEF Dies, TypeOK, MsgType
  <1>4. Forward
      BY <1>2 DEF TypeOK, Forward, Settling, Reporting
  <1>5. NoLeakedDelivery'
      BY <1>1, <1>2, EvalAssumption DEF TypeOK, NoLeakedDelivery, EvalAssumption
  <1>6. QED BY <1>1, <1>3, <1>4, <1>5, ForwardStep DEF Calm

LEMMA LoseChannelStep ==
  ASSUME IInv, NEW p \in Procs, LoseChannel(p) PROVE IInv'
  <1> USE DEF IInv, stores, workers, history
  <1>1. /\ MsgType' /\ Kept /\ NothingNew /\ StaysLive
        /\ \A r \in Procs, m \in Messages, q \in Queues :
             Holds(r, m, q)' => Holds(r, m, q) /\ (r = p => q \notin {EvalQueueName})
      BY ReleaseFact, BrokerAssumption, EvalAssumption
      DEF LoseChannel, TypeOK, MsgType, EvalAssumption
  <1>2. /\ handler' \in [Procs -> [Messages -> HandlerPC]]
        /\ \A m \in Messages : handler'[p][m] \in {"idle", handler[p][m]}
        /\ \A r \in Procs \ {p} : handler'[r] = handler[r]
      BY DEF LoseChannel, TypeOK, HandlerPC
  <1>3. /\ proc' = [proc EXCEPT ![p] = "noEval"]
        /\ dlq' = dlq /\ api' = api /\ status' = status
      BY DEF LoseChannel
  <1>4. TypeOK'
    <2>1. incidents' \in [Tasks -> SUBSET Incident]
        BY DEF LoseChannel, Redelivered, TypeOK, Incident
    <2>2. mishaps' \in 0..MaxMishaps
        BY EvalAssumption DEF LoseChannel, Mishap, TypeOK, EvalAssumption
    <2>3. proc' \in [Procs -> {"up", "noEval", "down"}] BY <1>3 DEF TypeOK
    <2>4. QED BY <1>1, <1>2, <1>3, <2>1, <2>2, <2>3 DEF LoseChannel, TypeOK, MsgType
  <1>5. Forward
    <2>1. \A r \in Procs, m \in Messages : handler'[r][m] \in {"idle", handler[r][m]}
        BY <1>2
    <2>2. QED BY <1>3, <2>1 DEF Forward, Settling, Reporting
  <1>6. NoLeakedDelivery'
    <2>1. \A r \in Procs \ {p} : proc'[r] = proc[r] BY <1>3 DEF TypeOK
    <2>2. proc'[p] = "noEval" BY <1>3 DEF TypeOK
    <2>3. QED
        BY <1>1, <1>2, <1>3, <2>1, <2>2, EvalAssumption
        DEF NoLeakedDelivery, EvalAssumption
  <1>7. QED BY <1>1, <1>4, <1>5, <1>6, ForwardStep DEF Calm

LEMMA RestartStep ==
  ASSUME IInv, NEW p \in Procs, Restart(p) PROVE IInv'
  <1> USE DEF IInv, stores, workers, history
  <1>1. TypeOK' BY DEF Restart, TypeOK
  <1>2. Forward BY DEF Restart, Forward
  <1>3. Calm BY QuietBroker DEF Restart
  <1>4. NoLeakedDelivery' BY DEF Restart, TypeOK, NoLeakedDelivery, Holds
  <1>5. QED BY <1>1, <1>2, <1>3, <1>4, ForwardStep

-----------------------------------------------------------------------------
(* The initial states satisfy the inductive invariant. *)
LEMMA InitIInv == Init => IInv
  <1> SUFFICES ASSUME Init PROVE IInv
      OBVIOUS
  <1> USE DEF Init, BrokerInit
  <1>1. TypeOK
    <2>1. msg \in [Messages -> Record] BY DEF Record
    <2>2. mishaps \in 0..MaxMishaps /\ attempts \in [Tasks -> 0..CountedRuns]
        BY EvalAssumption DEF EvalAssumption, CountedRuns
    <2>3. QED BY <2>1, <2>2 DEF TypeOK, HandlerPC, DlqPC
  <1>2. Sent BY DEF Sent
  <1>3. SettledFirst /\ CopyFirst BY DEF SettledFirst, CopyFirst, Settling, Reporting
  <1>4. NoLostTask BY DEF NoLostTask
  <1>5. NoLeakedDelivery BY DEF NoLeakedDelivery, Holds
  <1>6. QED BY <1>1, <1>2, <1>3, <1>4, <1>5 DEF IInv, Flow

(* Every step preserves it. *)
LEMMA StepIInv == IInv /\ [Next]_vars => IInv'
  <1> SUFFICES ASSUME IInv, [Next]_vars PROVE IInv'
      OBVIOUS
  <1>1. ASSUME NEW t \in Tasks, Api(t) PROVE IInv'
      BY <1>1, RequestStep, PublishTaskStep DEF Api
  <1>2. CASE FatalRequest
      BY <1>2, RequestStep DEF FatalRequest
  <1>3. ASSUME NEW p \in Procs, Crash(p) \/ LoseChannel(p) \/ Restart(p) PROVE IInv'
      BY <1>3, DiesStep, LoseChannelStep, RestartStep DEF Crash
  <1>4. ASSUME NEW p \in Procs, NEW m \in Messages,
               Deliver(p, m) \/ Spawn(p, m) \/ DlqDeliver(p, m) \/ RunPanics(p, m)
        PROVE  IInv'
      BY <1>4, DeliverStep, SpawnStep, DlqDeliverStep, DiesStep DEF RunPanics
  <1>5. ASSUME NEW p \in Procs, NEW m \in Messages, ProcessMessage(p, m) PROVE IInv'
      BY <1>5, ReadRowStep, SkipDoneStep, ReadFailsStep, RunReturnsStep, SaveSuccessStep,
         SaveFailsStep, StoreResultsStep, NotifyStep, AckDoneStep
      DEF ProcessMessage
  <1>6. ASSUME NEW p \in Procs, NEW m \in Messages, HandleFailure(p, m) PROVE IInv'
      BY <1>6, GiveUpStep, RetryStep, RetryFailsStep DEF HandleFailure
  <1>7. ASSUME NEW p \in Procs, NEW m \in Messages, HandleDLQMessage(p, m) PROVE IInv'
      BY <1>7, DlqMarkStep, DlqNotifyStep, DlqFailsStep, DlqAckStep DEF HandleDLQMessage
  <1>8. CASE UNCHANGED vars
    <2> USE <1>8 DEF vars, stores, workers, history, IInv
    <2>1. TypeOK' BY DEF TypeOK
    <2>2. Forward BY DEF Forward
    <2>3. Calm BY QuietBroker
    <2>4. NoLeakedDelivery' BY DEF NoLeakedDelivery, Holds
    <2>5. QED BY <2>1, <2>2, <2>3, <2>4, ForwardStep
  <1>9. QED
      BY <1>1, <1>2, <1>3, <1>4, <1>5, <1>6, <1>7, <1>8 DEF Next

(* The inductive invariant holds throughout. *)
LEMMA Invariance == Spec => []IInv
  BY InitIInv, StepIInv, PTL DEF Spec

-----------------------------------------------------------------------------
(* Every variable of the pipeline keeps its type. *)
THEOREM TypeCorrect == Spec => []TypeOK
  <1>1. IInv => TypeOK BY DEF IInv
  <1>2. QED BY Invariance, <1>1, PTL

(* A published task that is still pending has a live message, through any  *)
(* number of retries, store failures, crashes, panics and lost channels:   *)
(* a message is acknowledged only behind a settled row or a live copy.     *)
THEOREM NoTaskIsLost == Spec => []NoLostTask
  <1>1. IInv => NoLostTask BY DEF IInv, Flow
  <1>2. QED BY Invariance, <1>1, PTL

(* An unacknowledged delivery is always being worked on by a live process. *)
THEOREM NoDeliveryLeaks == Spec => []NoLeakedDelivery
  <1>1. IInv => NoLeakedDelivery BY DEF IInv
  <1>2. QED BY Invariance, <1>1, PTL
=============================================================================
