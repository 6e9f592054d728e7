--------------------------- MODULE DatasetPipeline ---------------------------
(***************************************************************************)
(* The import of a dataset: CreateDataset (service/dataset/dataset.go)     *)
(* uploads the file to MinIO inside an open transaction, commits the       *)
(* metadata and the job, and publishes the job; the DatasetWorker of some  *)
(* worker process (mq/dataset_worker.go) validates the file, marks the     *)
(* dataset valid, inserts its items and completes the job, in three        *)
(* transactions.  Every error puts the delivery back into dataset_jobs,    *)
(* which has no dead-letter queue and no retry counter.                    *)
(***************************************************************************)
EXTENDS Broker, DatasetFile

CONSTANTS NoFile,       \* the object of a dataset before the upload
          MaxFaults,    \* bound: failed calls to a store
          MaxCrashes,   \* bound: worker processes lost
          MaxImports    \* bound: times the items of one file are inserted

DatasetQueueName == "dataset_jobs"

ASSUME DatasetAssumption ==
    /\ Queues = {DatasetQueueName} /\ NoFile \notin Files
    /\ MaxFaults \in Nat /\ MaxCrashes \in Nat /\ MaxImports \in Nat

Datasets == Bodies

VARIABLES
    api,        \* where the request that creates the dataset stands
    file,       \* the object in MinIO
    job,        \* dataset_io_jobs.status: "none" before the commit
    valid,      \* dataset_metadata.is_valid, and dataset_keys with it
    items,      \* how many times the items of the file were inserted
    proc,       \* a worker process is up
    handler,    \* handler[p][m]: where handleMessage of m in p stands
    disturbed,  \* history: datasets whose job was put back
    faults, crashes

tables == <<file, job, valid, items>>
budget == <<faults, crashes>>
vars   == <<api, tables, msg, proc, handler, disturbed, budget>>

JobOf(m) == msg[m].body

Init ==
    /\ BrokerInit
    /\ api = [d \in Datasets |-> "new"]
    /\ file = [d \in Datasets |-> NoFile]
    /\ job = [d \in Datasets |-> "none"]
    /\ valid = [d \in Datasets |-> FALSE]
    /\ items = [d \in Datasets |-> 0]
    /\ proc = [p \in Procs |-> TRUE]
    /\ handler = [p \in Procs |-> [m \in Messages |-> "idle"]]
    /\ disturbed = {}
    /\ faults = 0 /\ crashes = 0

Fault == faults < MaxFaults /\ faults' = faults + 1 /\ UNCHANGED crashes
Goto(p, m, pc) == handler' = [handler EXCEPT ![p][m] = pc] /\ UNCHANGED proc

-----------------------------------------------------------------------------
(* CreateDataset *)

(* The metadata row waits in the transaction; the object does not. *)
PutFile(d) ==
    /\ api[d] = "new"
    /\ api' = [api EXCEPT ![d] = "uploaded"]
    /\ \E content \in Files : file' = [file EXCEPT ![d] = content]
    /\ UNCHANGED <<job, valid, items, msg, proc, handler, disturbed, budget>>

CommitDataset(d) ==
    /\ api[d] = "uploaded"
    /\ api' = [api EXCEPT ![d] = "committed"]
    /\ job' = [job EXCEPT ![d] = "pending"]
    /\ UNCHANGED <<file, valid, items, msg, proc, handler, disturbed, budget>>

PublishJob(d) ==
    /\ api[d] = "committed"
    /\ api' = [api EXCEPT ![d] = "published"]
    /\ Publish(DatasetQueueName, d, 0)
    /\ UNCHANGED <<tables, proc, handler, disturbed, budget>>

(* An error at any point: a transaction still open is rolled back, an      *)
(* object already stored or a job already committed stays.                 *)
AbandonDataset(d) ==
    /\ api[d] \in {"new", "uploaded", "committed"}
    /\ api' = [api EXCEPT ![d] = "abandoned"]
    /\ UNCHANGED <<tables, msg, proc, handler, disturbed, budget>>

-----------------------------------------------------------------------------
(* DatasetWorker.Start: a goroutine per delivery, without a bound *)

Deliver(p, m) ==
    /\ proc[p]
    /\ Consume(p, m, DatasetQueueName)
    /\ Goto(p, m, "load")
    /\ UNCHANGED <<api, tables, disturbed, budget>>

(* Faulty variant: the delivery is acknowledged in spite of the error. *)
AckInstead(p, m) ==
    /\ Ack(p, m, DatasetQueueName)
    /\ Goto(p, m, "idle")
    /\ disturbed' = disturbed \cup {JobOf(m)}

(* An error of handleMessage: Nack(false, true). *)
PutBack(p, m) ==
    /\ Requeue(p, m, DatasetQueueName)
    /\ Goto(p, m, "idle")
    /\ disturbed' = disturbed \cup {JobOf(m)}

-----------------------------------------------------------------------------
(* handleMessage, ProcessDatasetJob and RunInsertDatasetItemsJob *)

(* The job row is read, its status is not looked at. *)
LoadJob(p, m) ==
    /\ handler[p][m] = "load"
    /\ Goto(p, m, "validate")
    /\ UNCHANGED <<api, tables, msg, disturbed, budget>>

(* Faulty variant: the verdict of ValidateJsonKeys is not looked at. *)
ValidateNothing(p, m) ==
    /\ handler[p][m] = "validate"
    /\ Goto(p, m, "mark")
    /\ UNCHANGED <<api, tables, msg, disturbed, budget>>

Validate(p, m) ==
    /\ handler[p][m] = "validate"
    /\ ValidateJsonKeys(file[JobOf(m)])
    /\ Goto(p, m, "mark")
    /\ UNCHANGED <<api, tables, msg, disturbed, budget>>

Invalid(p, m) ==
    /\ handler[p][m] = "validate"
    /\ ~ValidateJsonKeys(file[JobOf(m)])
    /\ PutBack(p, m)
    /\ UNCHANGED <<api, tables, budget>>

(* The errors of this transaction are logged, and the import goes on. *)
MarkValid(p, m) ==
    /\ handler[p][m] = "mark"
    /\ valid' \in {valid, [valid EXCEPT ![JobOf(m)] = TRUE]}
    /\ Goto(p, m, "insert")
    /\ UNCHANGED <<api, file, job, items, msg, disturbed, budget>>

InsertItems(p, m) ==
    /\ handler[p][m] = "insert"
    /\ items[JobOf(m)] < MaxImports
    /\ items' = [items EXCEPT ![JobOf(m)] = @ + 1]
    /\ Goto(p, m, "complete")
    /\ UNCHANGED <<api, file, job, valid, msg, disturbed, budget>>

(* Faulty variant: the status an evaluation task ends with. *)
CompleteAsSuccess(p, m) ==
    /\ handler[p][m] = "complete"
    /\ job' \in {job, [job EXCEPT ![JobOf(m)] = "success"]}
    /\ Goto(p, m, "ack")
    /\ UNCHANGED <<api, file, valid, items, msg, disturbed, budget>>

(* An error of the commit is logged only. *)
Complete(p, m) ==
    /\ handler[p][m] = "complete"
    /\ job' \in {job, [job EXCEPT ![JobOf(m)] = "completed"]}
    /\ Goto(p, m, "ack")
    /\ UNCHANGED <<api, file, valid, items, msg, disturbed, budget>>

(* The job row, the object, the insertion or the update of the job; of the *)
(* insertion only the reply to the commit may have been lost.              *)
StoreFails(p, m) ==
    /\ \/ handler[p][m] \in {"load", "validate", "insert", "complete"} /\ UNCHANGED items
       \/ /\ handler[p][m] = "insert" /\ items[JobOf(m)] < MaxImports
          /\ items' = [items EXCEPT ![JobOf(m)] = @ + 1]
    /\ Fault
    /\ PutBack(p, m)
    /\ UNCHANGED <<api, file, job, valid>>

(* Faulty variant: Nack with requeue where the delivery is answered. *)
RequeueJob(p, m) ==
    /\ handler[p][m] = "ack"
    /\ Requeue(p, m, DatasetQueueName)
    /\ Goto(p, m, "idle")
    /\ UNCHANGED <<api, tables, disturbed, budget>>

(* Faulty variant: neither Ack nor Nack. *)
AckForgotten(p, m) ==
    /\ handler[p][m] = "ack"
    /\ Goto(p, m, "idle")
    /\ UNCHANGED <<api, tables, msg, disturbed, budget>>

AckJob(p, m) ==
    /\ handler[p][m] = "ack"
    /\ Ack(p, m, DatasetQueueName)
    /\ Goto(p, m, "idle")
    /\ UNCHANGED <<api, tables, disturbed, budget>>

-----------------------------------------------------------------------------
Crash(p) ==
    /\ proc[p]
    /\ crashes < MaxCrashes /\ crashes' = crashes + 1 /\ UNCHANGED faults
    /\ proc' = [proc EXCEPT ![p] = FALSE]
    /\ handler' = [handler EXCEPT ![p] = [m \in Messages |-> "idle"]]
    /\ Release(p, Queues)
    /\ disturbed' = disturbed \cup {JobOf(m) : m \in Held(p, Queues)}
    /\ UNCHANGED <<api, tables>>

Restart(p) ==
    /\ ~proc[p]
    /\ proc' = [proc EXCEPT ![p] = TRUE]
    /\ UNCHANGED <<api, tables, msg, handler, disturbed, budget>>

HandleMessage(p, m) ==
    \/ LoadJob(p, m)     \/ Validate(p, m) \/ Invalid(p, m) \/ MarkValid(p, m)
    \/ InsertItems(p, m) \/ Complete(p, m) \/ StoreFails(p, m) \/ AckJob(p, m)

Next ==
    \/ \E d \in Datasets : \/ PutFile(d)    \/ CommitDataset(d)
                           \/ PublishJob(d) \/ AbandonDataset(d)
    \/ \E p \in Procs :
         \/ Crash(p) \/ Restart(p)
         \/ \E m \in Messages : Deliver(p, m) \/ HandleMessage(p, m)

Spec == Init /\ [][Next]_vars

(* As in EvalPipeline. *)
FairSpec ==
    Spec /\ \A p \in Procs, m \in Messages :
              WF_vars(Deliver(p, m)) /\ WF_vars(HandleMessage(p, m))

-----------------------------------------------------------------------------
(* Properties *)

TypeOK ==
    /\ api \in [Datasets -> {"new", "uploaded", "committed", "published", "abandoned"}]
    /\ file \in [Datasets -> Files \cup {NoFile}]
    /\ job \in [Datasets -> {"none", "pending", "completed"}]
    /\ valid \in [Datasets -> BOOLEAN]
    /\ items \in [Datasets -> 0..MaxImports]
    /\ msg \in [Messages -> Record]
    /\ proc \in [Procs -> BOOLEAN]
    /\ handler \in [Procs -> [Messages -> {"idle", "load", "validate", "mark",
                                           "insert", "complete", "ack"}]]
    /\ disturbed \subseteq Datasets
    /\ faults \in 0..MaxFaults /\ crashes \in 0..MaxCrashes

(* A published job whose items were never inserted still has its message,  *)
(* held, if by anyone, by a live process that is working on it.            *)
NoLostJob ==
    /\ \A d \in Datasets : api[d] = "published" /\ items[d] = 0 =>
         \E m \in Messages : Live(m) /\ JobOf(m) = d
    /\ \A p \in Procs, m \in Messages :
         Holds(p, m, DatasetQueueName) => proc[p] /\ handler[p][m] # "idle"

(* Of a file whose rows are not objects with the same keys, and of an      *)
(* object left behind by a request that was given up, nothing becomes      *)
(* visible, and a job is completed only when its items are there.          *)
Good(d) == file[d] # NoFile /\ Uniform(file[d])
OnlyValidated ==
    \A d \in Datasets :
        /\ ~Good(d) \/ api[d] = "abandoned" => ~valid[d] /\ items[d] = 0
        /\ job[d] = "completed" => items[d] > 0

(* Items are inserted twice only if the job was put back: the worker does  *)
(* not look whether an earlier delivery inserted them.                     *)
ImportedOnce == \A d \in Datasets : d \notin disturbed => items[d] <= 1

(* The import keeps the promise of TaskLifecycle too, its verdict being    *)
(* that the items are there: its message goes only behind them, they are   *)
(* inserted only while it is live, and a job put back may repeat them.     *)
LiveFor(d) == \E m \in Messages : Live(m) /\ JobOf(m) = d
Verdict(d) == CASE job[d] = "none" -> "none"
                [] job[d] # "none" /\ items[d] > 0 -> "success"
                [] job[d] # "none" /\ items[d] = 0 -> "pending"
Lifecycle == INSTANCE TaskLifecycle WITH
                 Tasks <- Datasets,
                 verdict <- [d \in Datasets |-> Verdict(d)],
                 outstanding <- [d \in Datasets |-> LiveFor(d)],
                 revisable <- disturbed
KeepsTaskLifecycle == Lifecycle!Spec

(* The import of a good file ends as long as a worker process is left: its *)
(* items are there and its message is gone.                                *)
GoodFileIsImported ==
    \A d \in Datasets :
        api[d] = "published" /\ Good(d)
        ~> \/ \A p \in Procs : ~proc[p]
           \/ items[d] > 0 /\ \A m \in Messages : JobOf(m) = d => ~Live(m)

(* sql/dataset.sql:34, "pending, in_progress, completed, failed": the job  *)
(* of a bad file ends as failed.  The code never writes that status, and   *)
(* puts the job back for ever.                                             *)
BadFileFailsJob ==
    \A d \in Datasets :
        api[d] = "published" /\ ~Good(d) ~> job[d] \in {"completed", "failed"}
=============================================================================
