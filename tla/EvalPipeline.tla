---------------------------- MODULE EvalPipeline ----------------------------
(***************************************************************************)
(* The life of a batch-evaluation task: the API commits its row and        *)
(* publishes it (service/eval/eval.go), the EvalWorker of some worker      *)
(* process runs it, retries it or dead-letters it (mq/eval_worker.go), the *)
(* DLQWorker marks it failed (mq/eval_dlq_worker.go).  The three stores,   *)
(* PostgreSQL, RabbitMQ and Redis, share no transaction, so every call to  *)
(* one of them is a step of its own, and a process may die between two.    *)
(*                                                                         *)
(* RunEvalTask is the module EvalPool; here it has its four outcomes: a    *)
(* result, an error, no return at all, a panic that takes the process.     *)
(***************************************************************************)
EXTENDS FiniteSets, Broker

CONSTANTS EvalMaxRetry,        \* retries before a task is dead-lettered
          EvalWorkerPoolSize,  \* capacity of PoolSem
          MaxMishaps           \* bound: failed store calls, crashes and channels
                               \* lost; the panics of a run are not counted

EvalQueueName == "eval_jobs"
EvalDLQName   == "eval_jobs_dlq"

ASSUME EvalAssumption ==
    /\ EvalMaxRetry \in Nat /\ EvalWorkerPoolSize \in Nat \ {0}
    /\ MaxMishaps \in Nat
    /\ Queues = {EvalQueueName, EvalDLQName}

Tasks == Bodies

VARIABLES
    api,        \* where the request that creates the task stands
    status,     \* eval_batch_task.status
    results,    \* how many times a batch of result rows was stored
    notified,   \* what was published on the Redis channel
    proc,       \* a worker process: up, without its eval channel, or down
    handler,    \* handler[p][m]: where processMessage of m in p stands
    dlq,        \* dlq[p][m]: where handleDLQMessage of m in p stands
    attempts,   \* history: calls of RunEvalTask, up to CountedRuns
    incidents,  \* history: what befell the deliveries of a task
    mishaps     \* how many calls failed, processes crashed, channels were lost

stores  == <<status, results, notified>>
workers == <<proc, handler, dlq>>
history == <<attempts, incidents>>
vars    == <<api, stores, msg, workers, history, mishaps>>

HandlerPC == {"idle", "buffered", "fetch", "run", "hung", "save", "results",
              "notify", "ack", "fail", "ackOld"}
DlqPC     == {"idle", "mark", "notify", "ack"}
Incident  == {"unread", "requeued", "replyLost", "redelivered"}
Settled   == {"success", "failed"}

Task(m) == msg[m].body

(* Bound: the history stops counting one above what x-retry allows.        *)
CountedRuns == EvalMaxRetry + 2

Init ==
    /\ BrokerInit
    /\ api = [t \in Tasks |-> "new"]
    /\ status = [t \in Tasks |-> "none"]
    /\ results = [t \in Tasks |-> 0]
    /\ notified = {}
    /\ proc = [p \in Procs |-> "up"]
    /\ handler = [p \in Procs |-> [m \in Messages |-> "idle"]]
    /\ dlq = [p \in Procs |-> [m \in Messages |-> "idle"]]
    /\ attempts = [t \in Tasks |-> 0]
    /\ incidents = [t \in Tasks |-> {}]
    /\ mishaps = 0

-----------------------------------------------------------------------------
(* Bookkeeping shared by the actions *)

Mishap == mishaps < MaxMishaps /\ mishaps' = mishaps + 1

Goto(p, m, pc)    == handler' = [handler EXCEPT ![p][m] = pc] /\ UNCHANGED <<proc, dlq>>
DlqGoto(p, m, pc) == dlq' = [dlq EXCEPT ![p][m] = pc] /\ UNCHANGED <<proc, handler>>

Befalls(t, what) ==
    incidents' = [incidents EXCEPT ![t] = @ \cup {what}] /\ UNCHANGED attempts
Redelivered(ms) ==
    incidents' = [t \in Tasks |-> IF \E m \in ms : Task(m) = t
                                  THEN incidents[t] \cup {"redelivered"}
                                  ELSE incidents[t]]

-----------------------------------------------------------------------------
(* CreateBatchEvalJob: the row is committed before the message exists *)

CommitTask(t) ==
    /\ api[t] = "new"
    /\ api' = [api EXCEPT ![t] = "committed"]
    /\ status' = [status EXCEPT ![t] = "pending"]
    /\ UNCHANGED <<results, notified, msg, workers, history, mishaps>>

(* No such user, or the transaction failed: nothing was written. *)
RejectTask(t) ==
    /\ api[t] = "new"
    /\ api' = [api EXCEPT ![t] = "rejected"]
    /\ UNCHANGED <<stores, msg, workers, history, mishaps>>

PublishTask(t) ==
    /\ api[t] = "committed"
    /\ api' = [api EXCEPT ![t] = "published"]
    /\ Publish(EvalQueueName, t, 0)
    /\ UNCHANGED <<stores, workers, history, mishaps>>

(* No channel, no dead-letter queue or no Publish: the error is returned   *)
(* and the committed row stays behind.  So it does when Publish returned   *)
(* nil and the connection was lost before the broker had the message.      *)
OrphanTask(t) ==
    /\ api[t] = "committed"
    /\ api' = [api EXCEPT ![t] = "orphaned"]
    /\ UNCHANGED <<stores, msg, workers, history, mishaps>>

(* log.Fatalf of one request, when the main queue cannot be declared, ends *)
(* the API process and with it every request between commit and publish.   *)
FatalRequest ==
    /\ \E t \in Tasks : api[t] = "committed"
    /\ api' = [t \in Tasks |-> IF api[t] = "committed" THEN "orphaned" ELSE api[t]]
    /\ UNCHANGED <<stores, msg, workers, history, mishaps>>

-----------------------------------------------------------------------------
(* EvalWorker.Start: the receive loop and the pool *)

Deliver(p, m) ==
    /\ proc[p] = "up"
    /\ Consume(p, m, EvalQueueName)
    /\ Goto(p, m, "buffered")
    /\ UNCHANGED <<api, stores, history, mishaps>>

(* PoolSem counts the goroutines that have not returned. *)
Running(p) == {m \in Messages : handler[p][m] \notin {"idle", "buffered"}}

Spawn(p, m) ==
    /\ handler[p][m] = "buffered"
    /\ Cardinality(Running(p)) < EvalWorkerPoolSize
    /\ Goto(p, m, "fetch")
    /\ UNCHANGED <<api, stores, msg, history, mishaps>>

-----------------------------------------------------------------------------
(* EvalWorker.processMessage *)

ReadRow(p, m) ==
    /\ handler[p][m] = "fetch"
    /\ status[Task(m)] # "success"
    /\ Goto(p, m, "run")
    /\ attempts' = [attempts EXCEPT ![Task(m)] = IF @ < CountedRuns THEN @ + 1 ELSE @]
    /\ UNCHANGED <<api, stores, msg, incidents, mishaps>>

SkipDone(p, m) ==
    /\ handler[p][m] = "fetch"
    /\ status[Task(m)] = "success"
    /\ Ack(p, m, EvalQueueName)
    /\ Goto(p, m, "idle")
    /\ UNCHANGED <<api, stores, history, mishaps>>

(* Any error of First, a lost connection as much as a missing row. *)
ReadFails(p, m) ==
    /\ handler[p][m] = "fetch"
    /\ Mishap
    /\ DeadLetter(p, m, EvalQueueName, EvalDLQName)
    /\ Goto(p, m, "idle")
    /\ Befalls(Task(m), "unread")
    /\ UNCHANGED <<api, stores>>

(* The outcomes of RunEvalTask, whose panic is RunPanics below. *)
RunReturns(p, m) ==
    /\ handler[p][m] = "run"
    /\ \E pc \in {"save", "fail", "hung"} : Goto(p, m, pc)
    /\ UNCHANGED <<api, stores, msg, history, mishaps>>

(* Save writes the whole row read before the run, with status success. *)
SaveSuccess(p, m) ==
    /\ handler[p][m] = "save"
    /\ status' = [status EXCEPT ![Task(m)] = "success"]
    /\ Goto(p, m, "results")
    /\ UNCHANGED <<api, results, notified, msg, history, mishaps>>

(* Faulty variant: the error is returned without a Nack. *)
SaveFailsUnanswered(p, m) ==
    /\ handler[p][m] = "save"
    /\ Mishap
    /\ Goto(p, m, "idle")
    /\ Befalls(Task(m), "requeued")
    /\ UNCHANGED <<api, stores, msg>>

(* The update may have taken effect and only its reply been lost. *)
SaveFails(p, m) ==
    /\ handler[p][m] = "save"
    /\ Mishap
    /\ \/ UNCHANGED status /\ Befalls(Task(m), "requeued")
       \/ /\ status' = [status EXCEPT ![Task(m)] = "success"]
          /\ Befalls(Task(m), "replyLost")
    /\ Requeue(p, m, EvalQueueName)
    /\ Goto(p, m, "idle")
    /\ UNCHANGED <<api, results, notified>>

(* SaveEvalResults returns nil whether or not its transaction commits. *)
StoreResults(p, m) ==
    /\ handler[p][m] = "results"
    /\ results' \in {results, [results EXCEPT ![Task(m)] = @ + 1]}
    /\ Goto(p, m, "notify")
    /\ UNCHANGED <<api, status, notified, msg, history, mishaps>>

(* An error of publishResult is logged only. *)
Notify(p, m) ==
    /\ handler[p][m] = "notify"
    /\ notified' \in {notified, notified \cup {<<Task(m), "success">>}}
    /\ Goto(p, m, "ack")
    /\ UNCHANGED <<api, status, results, msg, history, mishaps>>

(* Faulty variant: Nack with requeue where the delivery is answered. *)
RequeueDone(p, m) ==
    /\ handler[p][m] \in {"ack", "ackOld"}
    /\ Requeue(p, m, EvalQueueName)
    /\ Goto(p, m, "idle")
    /\ UNCHANGED <<api, stores, history, mishaps>>

AckDone(p, m) ==
    /\ handler[p][m] \in {"ack", "ackOld"}
    /\ Ack(p, m, EvalQueueName)
    /\ Goto(p, m, "idle")
    /\ UNCHANGED <<api, stores, history, mishaps>>

-----------------------------------------------------------------------------
(* EvalWorker.handleFailure *)

(* Faulty variants: one retry too few, one too many. *)
RetriesExceededEarly(m) == msg[m].retry + 1 >= EvalMaxRetry
RetriesExceededLate(m)  == msg[m].retry > EvalMaxRetry

RetriesExceeded(m) == msg[m].retry >= EvalMaxRetry

(* Faulty variant: the last delivery is acknowledged, nothing dead-lettered. *)
GiveUpSilently(p, m) ==
    /\ handler[p][m] = "fail"
    /\ RetriesExceeded(m)
    /\ Ack(p, m, EvalQueueName)
    /\ Goto(p, m, "idle")
    /\ UNCHANGED <<api, stores, history, mishaps>>

GiveUp(p, m) ==
    /\ handler[p][m] = "fail"
    /\ RetriesExceeded(m)
    /\ DeadLetter(p, m, EvalQueueName, EvalDLQName)
    /\ Goto(p, m, "idle")
    /\ UNCHANGED <<api, stores, history, mishaps>>

(* Faulty variant: x-retry counts down from the first delivery's 0.        *)
RetryDecrements(p, m) ==
    /\ handler[p][m] = "fail"
    /\ ~RetriesExceeded(m)
    /\ proc[p] = "up"
    /\ Publish(EvalQueueName, Task(m), msg[m].retry - 1)
    /\ Goto(p, m, "ackOld")
    /\ UNCHANGED <<api, stores, history, mishaps>>

(* After the backoff: a copy with x-retry + 1 first, the old delivery is   *)
(* acknowledged by AckDone afterwards.                                     *)
Retry(p, m) ==
    /\ handler[p][m] = "fail"
    /\ ~RetriesExceeded(m)
    /\ proc[p] = "up"
    /\ Publish(EvalQueueName, Task(m), msg[m].retry + 1)
    /\ Goto(p, m, "ackOld")
    /\ UNCHANGED <<api, stores, history, mishaps>>

(* Faulty variant: the old delivery is acknowledged although Publish failed. *)
RetryFailsAcked(p, m) ==
    /\ handler[p][m] = "fail"
    /\ ~RetriesExceeded(m)
    /\ IF proc[p] = "up" THEN Mishap ELSE UNCHANGED mishaps
    /\ Ack(p, m, EvalQueueName)
    /\ Goto(p, m, "idle")
    /\ Befalls(Task(m), "requeued")
    /\ UNCHANGED <<api, stores>>

(* Publish fails: at once on a closed channel, otherwise by a fault. *)
RetryFails(p, m) ==
    /\ handler[p][m] = "fail"
    /\ ~RetriesExceeded(m)
    /\ IF proc[p] = "up" THEN Mishap ELSE UNCHANGED mishaps
    /\ Requeue(p, m, EvalQueueName)
    /\ Goto(p, m, "idle")
    /\ Befalls(Task(m), "requeued")
    /\ UNCHANGED <<api, stores>>

-----------------------------------------------------------------------------
(* DLQWorker: one delivery at a time *)

DlqDeliver(p, m) ==
    /\ proc[p] # "down"
    /\ \A n \in Messages : dlq[p][n] = "idle"
    /\ Consume(p, m, EvalDLQName)
    /\ DlqGoto(p, m, "mark")
    /\ UNCHANGED <<api, stores, history, mishaps>>

(* Faulty variant: an error of the update is logged only. *)
DlqMarkUnchecked(p, m) ==
    /\ dlq[p][m] = "mark"
    /\ status' \in {status, [status EXCEPT ![Task(m)] = "failed"]}
    /\ DlqGoto(p, m, "notify")
    /\ UNCHANGED <<api, results, notified, msg, history, mishaps>>

(* The update names only task_uuid: whatever the status was, it is failed. *)
DlqMark(p, m) ==
    /\ dlq[p][m] = "mark"
    /\ status' = [status EXCEPT ![Task(m)] = "failed"]
    /\ DlqGoto(p, m, "notify")
    /\ UNCHANGED <<api, results, notified, msg, history, mishaps>>

(* Faulty variant: an error of publishResult is logged only, as in Notify. *)
DlqNotifyUnchecked(p, m) ==
    /\ dlq[p][m] = "notify"
    /\ notified' \in {notified, notified \cup {<<Task(m), "failed">>}}
    /\ DlqGoto(p, m, "ack")
    /\ UNCHANGED <<api, status, results, msg, history, mishaps>>

DlqNotify(p, m) ==
    /\ dlq[p][m] = "notify"
    /\ notified' = notified \cup {<<Task(m), "failed">>}
    /\ DlqGoto(p, m, "ack")
    /\ UNCHANGED <<api, status, results, msg, history, mishaps>>

(* Both failures put the delivery back; here too only the reply may be lost. *)
DlqFails(p, m) ==
    /\ \/ /\ dlq[p][m] = "mark"
          /\ status' \in {status, [status EXCEPT ![Task(m)] = "failed"]}
          /\ UNCHANGED notified
       \/ /\ dlq[p][m] = "notify"
          /\ notified' \in {notified, notified \cup {<<Task(m), "failed">>}}
          /\ UNCHANGED status
    /\ Mishap
    /\ Requeue(p, m, EvalDLQName)
    /\ DlqGoto(p, m, "idle")
    /\ UNCHANGED <<api, results, history>>

DlqAck(p, m) ==
    /\ dlq[p][m] = "ack"
    /\ Ack(p, m, EvalDLQName)
    /\ DlqGoto(p, m, "idle")
    /\ UNCHANGED <<api, stores, history, mishaps>>

-----------------------------------------------------------------------------
(* Losing a process, or only its eval channel *)

Dies(p) ==
    /\ proc' = [proc EXCEPT ![p] = "down"]
    /\ handler' = [handler EXCEPT ![p] = [m \in Messages |-> "idle"]]
    /\ dlq' = [dlq EXCEPT ![p] = [m \in Messages |-> "idle"]]
    /\ Release(p, Queues)
    /\ Redelivered(Held(p, Queues))
    /\ UNCHANGED <<api, stores, attempts>>

Crash(p) == proc[p] # "down" /\ Mishap /\ Dies(p)

(* CallModel drops its error and returns a nil message; the dereference in *)
(* ProcessSample panics in a goroutine nobody recovers.  This is an        *)
(* outcome of the run, not a mishap: the same task or the same model may   *)
(* panic at every redelivery, and nothing counts it.                       *)
RunPanics(p, m) ==
    /\ handler[p][m] = "run"
    /\ Dies(p)
    /\ UNCHANGED mishaps

(* The broker closes the channel of a delivery that stays unacknowledged   *)
(* too long.  Start returns and is not called again; handlers already      *)
(* running go on without a channel, and the loop may have one delivery in  *)
(* hand, waiting for PoolSem.                                              *)
LoseChannel(p) ==
    /\ proc[p] = "up"
    /\ Mishap
    /\ proc' = [proc EXCEPT ![p] = "noEval"]
    /\ LET waiting == {m \in Messages : handler[p][m] = "buffered"}
       IN \E kept \in {{}} \cup {{m} : m \in waiting} :
            handler' = [handler EXCEPT ![p] =
                          [m \in Messages |-> IF m \in waiting \ kept
                                              THEN "idle" ELSE handler[p][m]]]
    /\ Release(p, {EvalQueueName})
    /\ Redelivered(Held(p, {EvalQueueName}))
    /\ UNCHANGED <<api, stores, dlq, attempts>>

Restart(p) ==
    /\ proc[p] = "down"
    /\ proc' = [proc EXCEPT ![p] = "up"]
    /\ UNCHANGED <<api, stores, msg, handler, dlq, history, mishaps>>

-----------------------------------------------------------------------------
Api(t) == CommitTask(t) \/ RejectTask(t) \/ PublishTask(t) \/ OrphanTask(t)

ProcessMessage(p, m) ==
    \/ ReadRow(p, m)      \/ SkipDone(p, m)   \/ ReadFails(p, m)
    \/ RunReturns(p, m)   \/ SaveSuccess(p, m) \/ SaveFails(p, m)
    \/ StoreResults(p, m) \/ Notify(p, m)     \/ AckDone(p, m)

HandleFailure(p, m) == GiveUp(p, m) \/ Retry(p, m) \/ RetryFails(p, m)

HandleDLQMessage(p, m) ==
    DlqMark(p, m) \/ DlqNotify(p, m) \/ DlqFails(p, m) \/ DlqAck(p, m)

Next ==
    \/ \E t \in Tasks : Api(t)
    \/ FatalRequest
    \/ \E p \in Procs :
         \/ Crash(p) \/ LoseChannel(p) \/ Restart(p)
         \/ \E m \in Messages :
              \/ Deliver(p, m) \/ Spawn(p, m) \/ DlqDeliver(p, m)
              \/ ProcessMessage(p, m) \/ HandleFailure(p, m)
              \/ HandleDLQMessage(p, m) \/ RunPanics(p, m)

Spec == Init /\ [][Next]_vars

(* The broker pushes what is ready and the scheduler runs every goroutine; *)
(* nothing makes a crashed process come back.                              *)
Fairness ==
    \A p \in Procs, m \in Messages :
        /\ WF_vars(Deliver(p, m)) /\ WF_vars(Spawn(p, m))
        /\ WF_vars(ProcessMessage(p, m) \/ HandleFailure(p, m))
        /\ WF_vars(DlqDeliver(p, m)) /\ WF_vars(HandleDLQMessage(p, m))

FairSpec == Spec /\ Fairness

-----------------------------------------------------------------------------
(* Properties *)

(* The variables have their types.  The statuses are the ones the code     *)
(* writes (TaskPending, TaskSuccess and TaskFailed of models/eval.go), not *)
(* those of internal/sql/eval.sql:7, "pending, completed, failed,          *)
(* in-process": no row is ever completed or in-process, and success, which *)
(* SuccessHasResults below starts from, is none of them.                   *)
TypeOK ==
    /\ api \in [Tasks -> {"new", "rejected", "committed", "published", "orphaned"}]
    /\ status \in [Tasks -> {"none", "pending"} \cup Settled]
    /\ results \in [Tasks -> Nat]
    /\ notified \subseteq Tasks \X Settled
    /\ msg \in [Messages -> Record]
    /\ proc \in [Procs -> {"up", "noEval", "down"}]
    /\ handler \in [Procs -> [Messages -> HandlerPC]]
    /\ dlq \in [Procs -> [Messages -> DlqPC]]
    /\ attempts \in [Tasks -> 0..CountedRuns]
    /\ incidents \in [Tasks -> SUBSET Incident]
    /\ mishaps \in 0..MaxMishaps

LiveFor(t) == \E m \in Messages : Live(m) /\ Task(m) = t

(* No task is forgotten: while a published task is still pending, the      *)
(* broker holds a copy of its message.  processMessage settles the row, or *)
(* publishes the retry, before it acknowledges; a store error, a crash or  *)
(* a closed channel between any two of these calls must not undo that.     *)
NoLostTask ==
    \A t \in Tasks : api[t] = "published" /\ status[t] = "pending" => LiveFor(t)

(* No delivery leaks: whoever holds an unacknowledged delivery is a live   *)
(* process with a handler still working on it.  Every return path of       *)
(* processMessage, handleFailure and handleDLQMessage has to Ack or Nack.  *)
NoLeakedDelivery ==
    \A p \in Procs, m \in Messages :
        /\ Holds(p, m, EvalQueueName) => proc[p] = "up" /\ handler[p][m] # "idle"
        /\ Holds(p, m, EvalDLQName) => proc[p] # "down" /\ dlq[p][m] # "idle"

(* Without a redelivery no two handlers run a task, or store its outcome,  *)
(* at once: the copy handleFailure publishes and the delivery it replaces  *)
(* overlap only when the old one has nothing left to do but its Ack.       *)
Busy(t) == {h \in Procs \X Messages :
              Task(h[2]) = t /\ handler[h[1]][h[2]] \in {"run", "save", "results"}}
OneRunAtATime ==
    \A t \in Tasks :
        "redelivered" \notin incidents[t] => \A a, b \in Busy(t) : a = b

(* One batch of result rows per task, however often it was retried, unless *)
(* a delivery of it came back after a crash or a closed channel.           *)
ResultsOnce ==
    \A t \in Tasks : "redelivered" \notin incidents[t] => results[t] <= 1

(* What the front end was told is what the table says: a notification is   *)
(* published after the row is settled and, without a redelivery, agrees    *)
(* with it for good.                                                       *)
NotifiedAsStored ==
    \A t \in Tasks, s \in Settled :
        <<t, s>> \in notified =>
            /\ status[t] \in Settled
            /\ "redelivered" \notin incidents[t] => status[t] = s

(* No failure is silent: until it was published on the Redis channel, the  *)
(* broker keeps a dead-lettered copy for some DLQ worker, whatever is lost *)
(* on the way from the update to the publication and to the Ack.           *)
FailureIsReported ==
    \A t \in Tasks :
        status[t] = "failed" /\ <<t, "failed">> \notin notified =>
            \E m \in Messages : Live(m) /\ msg[m].queue = EvalDLQName /\ Task(m) = t

(* A task is marked failed only after its last retry: RunEvalTask was      *)
(* called EvalMaxRetry + 1 times, or the row could not be read.            *)
FailedOnlyAfterRetries ==
    \A t \in Tasks :
        /\ status[t] = "failed"
        /\ "unread" \notin incidents[t]
        => attempts[t] > EvalMaxRetry

(* x-retry bounds the runs of a task whose deliveries were all answered    *)
(* once and for all.                                                       *)
AttemptsFollowRetries ==
    \A t \in Tasks :
        incidents[t] \subseteq {"unread"} => attempts[t] <= EvalMaxRetry + 1

(* A settled task changes its verdict only when its delivery came back: by *)
(* a redelivery, or by the Nack of a save that took effect after all.      *)
(* Otherwise success cannot become failed, although the DLQ worker's       *)
(* update does not look at the status, nor failed become success.          *)
CameBack(t) == incidents[t] \cap {"redelivered", "replyLost"} # {}
VerdictIsFinal ==
    [][\A t \in Tasks :
         status[t] \in Settled /\ status'[t] # status[t] => CameBack(t)]_vars

(* The pipeline keeps the promise TaskLifecycle states, to each task: it   *)
(* is judged only while a message of it is live, its last message goes     *)
(* only when the row is settled, and no verdict is revised before a        *)
(* delivery of the task came back.                                         *)
Lifecycle == INSTANCE TaskLifecycle WITH
                 verdict <- status,
                 outstanding <- [t \in Tasks |-> LiveFor(t)],
                 revisable <- {t \in Tasks : CameBack(t)}
KeepsTaskLifecycle == Lifecycle!Spec

(* A published task gets its verdict unless, from some moment on, nobody   *)
(* is left to judge it (no process consumes eval_jobs, a run of the task   *)
(* hangs, or a pool is full of hung runs), or runs panic for ever: a panic *)
(* is redelivered with the same x-retry after every restart, so neither    *)
(* handleFailure nor the DLQ worker ever learns of it.  Failed calls,      *)
(* crashes and lost channels are finitely many here (MaxMishaps).          *)
Hung(p) == {m \in Messages : handler[p][m] = "hung"}
Blocked(t) ==
    \/ \A p \in Procs : proc[p] # "up"
    \/ \E p \in Procs : \E m \in Hung(p) : Task(m) = t
    \/ \E p \in Procs : Cardinality(Hung(p)) = EvalWorkerPoolSize
PanicsForEver == []<><<\E p \in Procs, m \in Messages : RunPanics(p, m)>>_vars

PublishedIsSettled ==
    \A t \in Tasks :
        \/ api[t] = "published" ~> status[t] \in Settled
        \/ <>[]Blocked(t)
        \/ PanicsForEver

(* README.md:28, "Update DB (atomic/transaction)": a task that succeeded   *)
(* and has no message left has its result rows.  Save and SaveEvalResults  *)
(* are two transactions, and the second one's errors are dropped.          *)
SuccessHasResults ==
    \A t \in Tasks : status[t] = "success" /\ ~LiveFor(t) => results[t] > 0

(* README.md:36-37, "Increment x-retry / If > max, go DLQ": a task is not  *)
(* run more than EvalMaxRetry + 1 times.  A redelivery carries the old     *)
(* x-retry, also the one that follows a panic of the run itself.           *)
RunsAreLimited == \A t \in Tasks : attempts[t] <= EvalMaxRetry + 1
=============================================================================
