# Verification of awesomeEval

awesomeEval evaluates pairs of language models over a dataset. An API process
accepts datasets and evaluation tasks, stores them in PostgreSQL and MinIO and
queues the work in RabbitMQ; worker processes do the work and report through
Redis; the API process forwards the reports to browsers over WebSockets. The
modules here model the parts that coordinate: the evaluation pipeline, the
goroutine pool of one evaluation, the WebSocket hub, the dataset import with the
check of its files, and the users with their tokens. TLC checks them on small
instances; TLAPS proves every safety invariant those runs check, both action
properties and all four refinements for every value of the constants.

    tlc -config MCEvalRedelivery.cfg MCEvalPipeline.tla
    tlapm EvalPipelineProofs.tla

`PROJECT.json` lists the components, the runs, the source lines of every
definition, the hazards and the theorems.

## 1. Inventory

| Component | Code | State | Operations |
|---|---|---|---|
| Submission | `internal/service/eval/eval.go` `CreateBatchEvalJob` | row in `eval_batch_tasks` | commit the row, publish its message |
| EvalWorker | `internal/mq/eval_worker.go` | unacknowledged deliveries, `PoolSem`, position of each handler | receive, spawn, `processMessage`, `handleFailure` |
| DLQWorker | `internal/mq/eval_dlq_worker.go` | one delivery | mark failed, notify, acknowledge |
| RunEvalTask | `internal/service/eval/eval.go` | two channels, `WaitGroup`, `done`, the context | feed, process, emit, close, drain, select |
| Dataset import | `internal/service/dataset/dataset.go`, `internal/mq/dataset_worker.go` | object in MinIO, metadata, job, items | upload, commit, publish, validate, mark, insert, complete |
| WebSocket hub | `internal/ws` | `clients`, a send buffer per client | register, broadcast, write |
| Dataset files | `service/dataset/dataset.go` `ValidateJsonKeys` | none | scan the lines, compare the keys |
| Users, login | `internal/handler/user.go`, `middleware/auth.go`, `getUserId` of the other handlers | user rows, codes and tokens in Redis | signup, password and mobile login, sending a code, update, delete, token check |
| HTTP handlers | `internal/handler/eval.go`, `dataset.go` | none | decode, call a service, answer |
| Preview | `service/eval/eval.go` `PreviewEval` | none | stream the answers of at most five samples |
| Set-up | `config`, `internal/logger`, `cmd` | connections | connect, log, route |

How they interact:

    CreateBatchEvalJob --row--> PostgreSQL <--status, results-- EvalWorker --> RunEvalTask
           |                        ^                             ^   |  |
           +--message--> eval_jobs -|-----delivery----------------+   |  +--> Redis --> Hub --> browsers
                            ^       |                                 |         ^
                            +-------|--copy with x-retry + 1----------+         |
                      eval_jobs_dlq --delivery--> DLQWorker --status, report----+

What is hard, and what makes each component correct:

* **Evaluation pipeline.** PostgreSQL, RabbitMQ and Redis share no transaction:
  a handler makes up to five calls, any of which may fail, and a process or its
  channel may be lost between two of them. Messages come back; the copy of a
  retry and the message it replaces are live together for a moment; a run takes
  up to an hour, in which the row it was read from may change. Correct means: no
  published task is forgotten and every delivery is answered; and, as long as no
  delivery comes back, a task runs once at a time, stores one batch of results,
  keeps its verdict and is reported as it is stored.
* **RunEvalTask.** Four kinds of goroutine around two channels, a timeout that
  may strike anywhere, and selects with several ready cases. Correct means: no
  sample twice, none missing in time, channels closed behind their senders, and
  the call ends.
* **Dataset import.** Several goroutines and processes handle redelivered jobs
  without looking at what earlier deliveries did. Correct means: no job is lost,
  nothing of an invalid file becomes visible, a good file ends up imported.
* **Hub.** One goroutine serves every client and must neither wait for a slow
  one nor lose one of its messages silently nor send on a channel it closed.
* **Users.** Every request is several calls to PostgreSQL and Redis without a
  transaction: read-then-create on the email, read-then-save of a whole row,
  read-then-delete of a code, and a token that must be in Redis to be accepted.
  Correct means: what two requests do wrong to one user, address or code they can
  only do by overlapping; an issued token works; and what a token's owner stores
  is stored as theirs.

The `hazards` of `PROJECT.json` list these at their lines.

## 2. The modules

**Broker** is RabbitMQ as the workers rely on it; it is external and has no
counterpart in the repository. A message is unsent, ready in a queue, unacked
with an owner, or gone. It keeps its identity over redelivery and dead-lettering;
a `Publish` takes a fresh identity. `Ack`, `Requeue` and `DeadLetter` are
`Ack(false)`, `Nack(false, true)` and `Nack(false, false)`, and do nothing for a
delivery whose channel is gone. Delivery order is not kept, which covers
RabbitMQ's requeueing and several consumers. Losing persistent messages inside the
broker is not modelled.

**EvalPipeline** composes the submission, the EvalWorker and the DLQWorker of
every process over one Broker.

| Model | Code |
|---|---|
| `api[t]` | where `CreateBatchEvalJob` of task t stands |
| `status`, `results` | `eval_batch_tasks.status`, batches in `eval_task_results` |
| `notified` | what was published on `eval_task_results` in Redis |
| `proc[p]` | a worker process: up, without its eval channel, down |
| `handler[p][m]` | position of `processMessage` / `handleFailure`: `buffered` is a delivery in the consumer's channel or in the loop waiting for `PoolSem`; the other positions hold a slot |
| `dlq[p][m]` | position of `handleDLQMessage` |
| `attempts`, `incidents` | history variables for the properties; no guard reads them |

Each call to a store is an action, with a second action for its failure; where
only the reply of an update may have been lost, the failing action may leave it
applied. The
actions follow the code's order: `ReadRow`/`SkipDone`/`ReadFails`, `RunReturns`,
`SaveSuccess`/`SaveFails`, `StoreResults`, `Notify`, `AckDone`, and after an
error `GiveUp` or `Retry`/`RetryFails`. The `x-retry` a handler works with is the
one of its message, which does not change while the handler runs. A run of
`RunEvalTask` has four outcomes: a result, an error, no return (`hung`) and a
panic that takes the process (`RunPanics`); that these four exist is what
EvalPool shows, by implementing `RunOutcome`. A panic is an outcome of the run
and not a fault of its surroundings: it follows from the task (a missing prompt,
`eval.go:190`) or from the model's answer (`eval.go:353-363` with the error dropped
at 384), may recur at every redelivery, and is not limited by `MaxMishaps`. The
loss of a channel (`LoseChannel`) lets running handlers go on, as `Start` does not
wait for them, and drops what the library had buffered, except for the one
delivery the loop may hold in hand. The message of a task is
always decodable, because the API encoded it; the decoding errors of both workers
are unreachable.

**TaskLifecycle** is what the pipeline promises about a task, without queues or
workers: it is submitted, outstanding, judged while it is outstanding, and
finished only once judged; a verdict is revised only after the work came back.
EvalPipeline implements it (`KeepsTaskLifecycle`) with `verdict` as the `status`
of the row, `outstanding` as "a message of the task is live" and `revisable` as
the tasks a delivery of which came back. DatasetPipeline implements it as well:
there the verdict is that the items of a job are stored, and `revisable` are the
jobs that were put back or came back. Neither pipeline knows of the other; what
they share is this promise and the way they keep it, which is to acknowledge last.

**EvalPool** is one call of `RunEvalTask`. The rendezvous on `inputChan` is one
action, `outputChan` is the set of samples whose answer it holds (it has room for
all of them and its order does not matter), `feeder = "closed"` is
`close(inputChan)`, `main` is the caller's position and outcome. A select with
two ready cases is a choice between actions: `HandOver`/`FeederStops`,
`Emit`/`Discard`, `ReturnErr`/`ReturnOk`. `Panic` is the nil pointer
`ProcessSample` dereferences when `CallModel` has dropped an error. `Ahead` lists,
per stage of the code, what has still to pass through it: the samples to hand
over, check, answer, emit and collect, the workers to leave, the channels to
close, and the caller's own steps. `FeederWaits`, `WorkerWaits`, `CloserWaits`
and `CallerWaits` say of each goroutine that it is blocked on one of the others.

**RunOutcome** is what EvalPipeline assumes of such a call: it runs until it has
one of four outcomes, which is final; before the timeout it succeeds only with
every answer and, once its samples are loaded, does not fail. EvalPool implements
it (`KeepsRunOutcome`), and that is why EvalPipeline may treat the call as one
step (`RunReturns`, `RunPanics`); the calls EvalPool leaves without an outcome are
its `hung` ones.

**Hub** is the subscriber, `Hub.Run` and one `writePump` per client.
Notifications are numbered. The loop over `h.clients` is one action: it touches
each client's buffer once, never waits, and a pump that takes a message in the
meantime might as well have taken it before. The browser (`peer`) is external.

**Feed** is what the hub promises to a browser, without channels, buffers and
pumps: from its registration on it is owed every notification, in order; it is
given up only when it is a full buffer or more behind, and what it was owed by then
it may still read. Hub implements it (`KeepsFeed`): `owed` is what the browser
has, its pump holds and its buffer holds; `Publish` is the whole loop of
`Hub.Run` over the clients; registration is `Join`; a pump that takes a message
and the end of a pump are stutters.

**DatasetPipeline** is `CreateDataset` and the DatasetWorker over a Broker with
the one queue `dataset_jobs`. A dataset's `file` is one of the constant `Files`
and `Validate`/`Invalid` go by what `ValidateJsonKeys` makes of it; the update of
`is_valid` and the commit of the job's status may fail silently, every other
error puts the delivery back.

**DatasetFile** is that check. A file is a sequence of lines, each blank, broken
(no JSON object, or too long for the scanner) or an object with a set of keys;
`null` counts as an object without keys, since `Unmarshal` takes it. `Rows`,
`First` and `Consistent` follow the scan; `Uniform` is what it is for, and the
properties of the import speak of `Uniform`, not of the check.

**Auth** is `UserHandler`, `AuthMiddleware` and the use the evaluation and dataset
handlers make of the user id in a token.

| Model | Code |
|---|---|
| `user`, `nextId` | the table `"user"` and its sequence; a password is the client that chose it |
| `code[m]` | `login:code:m` in Redis, as the number of the sending it stems from |
| `session`, `now` | the token keys in Redis, and the clock that expires them |
| `req[c]` | the request client c has in progress, with all it has read so far |
| `answered[c]` | the tokens c was given |
| `stored` | user id of a stored task or dataset, beside that of the token used |
| `meant`, `logins`, `unsaved`, `disturbed` | history variables for the properties; no guard reads them |

A call to a store is one step, and a request that changes and remembers nothing
is a stuttering step. What the model keeps of the code's peculiarities:

* `SendSMSCode`, `UpdateUserInfo`, `DeleteUser` and `GetUserInfo` have no route in
  `cmd/api/main.go`. The model lets clients call them; what holds with them holds
  a fortiori of the routed requests.
* A token's text is determined by the user id and the second it is made in.
* The errors of `Redis.Set` and `Redis.Del` are ignored, and `Redis.Del` takes the
  code that is there by then.
* `LoginByMobile` never writes its token to Redis. Its `Create` for an unknown
  number always fails, as email and password are `NOT NULL`, and uses up an id; for a
  known one the answer dereferences nickname and avatar, which may be nil. The
  two are one flag, `profile`.
* gorm's `Save` writes the whole row it read, and brings back one that has been
  deleted since.
* A user id in a token is a `float64` that is printed and parsed again: from
  1,000,000 on the parse fails, the dataset handler gives up, and the evaluation
  handler goes on with id 0.

Operators commented *Faulty variant* are not part of any specification. Each is
an action or helper as a plausible mistake would have written it; putting one in
the place of the definition that follows it has to break a property, which shows
that the property depends on that line of code.

## 3. Properties and runs

| Run | Instance | Checks |
|---|---|---|
| `eval_redelivery` | 1 task, 2 processes, 4 messages, 1 retry, 1 slot, 2 mishaps | `TypeOK`, `NoLostTask`, `NoLeakedDelivery`, `OneRunAtATime`, `ResultsOnce`, `NotifiedAsStored`, `FailedOnlyAfterRetries`, `AttemptsFollowRetries`, `FailureIsReported`, `VerdictIsFinal`, `KeepsTaskLifecycle` |
| `eval_two_tasks` | 2 tasks, 1 process, 5 messages, 1 retry, 1 slot, 1 mishap | `NoLostTask`, `KeepsTaskLifecycle` |
| `eval_settles` | 1 task, 2 processes, 3 messages, 1 retry, 1 slot, 1 mishap, with fairness | `PublishedIsSettled` |
| `eval_pool` | 3 workers, 0 to 4 samples | `TypeOK`, `EachSampleOnce`, `ClosedAfterWorkers`, `CompleteInTime`, `DeadlockOnlyAbandoned`, `NothingIsRepeated`, `ReturnsUnlessAbandoned`, `KeepsRunOutcome` |
| `hub` | 2 clients, buffers of 2, 4 notifications | `TypeOK`, `NoGap`, `NoSendOnClosed`, `HubNeverBlocks`, `QueuedIsWritten`, `KeepsFeed` |
| `dataset` | 2 datasets, 2 processes, 2 files, 1 fault, 1 crash | `TypeOK`, `NoLostJob`, `OnlyValidated`, `ImportedOnce`, `GoodFileIsImported`, `KeepsTaskLifecycle` |
| `auth` | 2 clients, 1 email, 1 mobile, 2 users, 5 requests, 2 codes, 1 fault | `TypeOK`, `DuplicateOnlyByRace`, `CodeUsedOnce`, `IssuedIsAccepted`, `AsIfSerial`, `OwnerIsTokenUser` |

Five more runs find a documented property violated (section 6).

**Bounds.** A mishap is a failed store call, a crashed process or a lost channel;
`MaxMishaps` counts them together, so that every combination of two is tried, and
the second one can strike the redelivery the first one caused. Panics are not
counted: any run may end in one, any number of times. `attempts` therefore stops
counting at `CountedRuns`, one above what `x-retry` allows, which is as far as any
property looks; without this the states would be infinitely many, and a state
constraint would cut off the behaviours the liveness run is about.
`Messages` bounds the publications. With `EvalMaxRetry = 1` a task needs two, and
each mishap can send the original round once more and so cost another one; a panic
costs none, as it comes before the retry is published. The instances have that
many, and no behaviour is cut short because identities run out. `EvalMaxRetry = 1` has
both a retry and an exhausted retry; one pool slot makes deliveries wait. In the
pool, three workers and four samples let one worker take a second sample while
the others are at any position. Hub buffers of two fill with four notifications
while a client stalls. `MaxImports = 4` caps the insertions of one file, more
than one fault and one crash produce for a good one. One of the two files is
good and has a blank line; the other has two rows with as many but different
keys, which a check that only counted would pass. In `auth` the sequence starts
at 999,999, so that the second user's id is one the handlers cannot parse; five
requests let one client sign up, log in and act while the other does the same
with the same address, and two codes let the second replace the first in the
middle of a login. The clients of `auth` are interchangeable, and so are the
processes of the evaluation runs without fairness and the tasks of
`eval_two_tasks`; these runs use symmetry, and check no liveness. Deadlock
checking is off in every run, since a finished instance stops.

**Fairness.** Weak fairness of each goroutine of a live process and of the
broker's deliveries: the Go scheduler runs every goroutine that can move and
RabbitMQ pushes ready messages to an open consumer. Nothing is assumed about
requests, crashes, restarts, browsers or subscribers; a crashed process need not
come back. In EvalPool the fairness of a worker includes the end of its model
call, which has the task's context. In the Hub a pump is fair, but its write is
enabled only while the peer does not stall. No fairness keeps a run from panicking.

**What the liveness runs say.** `PublishedIsSettled` supposes that the mishaps are
finitely many and has two escapes. `Blocked` for good: from some moment on no
process consumes `eval_jobs`, a run of this task hangs, or a pool is full of hung
runs; being blocked for a while is no excuse. `PanicsForEver`: some run panics
again and again. The broker redelivers its message after every restart with the
`x-retry` it had, `handleFailure` never sees the failure, nothing counts it and
nothing dead-letters it, so that a task that always panics is neither success nor
failed, ever, and takes down the processes other tasks run in. Each of these does
leave tasks pending in the code. `ReturnsUnlessAbandoned` says when a run can hang: only after the feeder gave up
at the timeout with samples left.

## 4. Proofs

Each proof module extends the module it is about. `BrokerProofs` states, once for
each broker operation, which messages it touches and who holds what afterwards;
the proofs of both pipelines cite it. The others prove inductive invariants and
derive the properties from them.

| Theorem | States |
|---|---|
| `EvalPipelineProofs!TypeCorrect` | `Spec => []TypeOK` |
| `EvalPipelineProofs!NoTaskIsLost` | `Spec => []NoLostTask` |
| `EvalPipelineProofs!NoDeliveryLeaks` | `Spec => []NoLeakedDelivery` |
| `EvalVerdictProofs!RunsOneAtATime` | `Spec => []OneRunAtATime` |
| `EvalVerdictProofs!StoresResultsOnce` | `Spec => []ResultsOnce` |
| `EvalVerdictProofs!ReportsWhatIsStored` | `Spec => []NotifiedAsStored` |
| `EvalVerdictProofs!FailsOnlyAfterRetries` | `Spec => []FailedOnlyAfterRetries` |
| `EvalVerdictProofs!RetriesBoundRuns` | `Spec => []AttemptsFollowRetries` |
| `EvalVerdictProofs!VerdictsAreFinal` | `Spec => VerdictIsFinal` |
| `EvalVerdictProofs!FailuresAreReported` | `Spec => []FailureIsReported` |
| `EvalLifecycleProofs!KeepsThePromise` | `Spec => KeepsTaskLifecycle` |
| `EvalPoolProofs!TypeCorrect` | `Spec => []TypeOK` |
| `EvalPoolProofs!SamplesAreAnsweredOnce` | `Spec => []EachSampleOnce` |
| `EvalPoolProofs!ClosesBehindTheWorkers` | `Spec => []ClosedAfterWorkers` |
| `EvalPoolProofs!InTimeIsComplete` | `Spec => []CompleteInTime` |
| `EvalPoolProofs!NobodyWaitsInVain` | `Spec => []DeadlockOnlyAbandoned` |
| `EvalPoolProofs!RunsOutOfSteps` | `Spec => NothingIsRepeated` |
| `EvalPoolProofs!CallsAreBounded` | for finitely many workers, `StepsAhead` is at most `LongestCall` and every step lowers it |
| `EvalPoolProofs!RunKeepsItsPromise` | `Spec => KeepsRunOutcome` |
| `HubProofs!TypeCorrect` | `Spec => []TypeOK` |
| `HubProofs!NeverSendsOnClosed` | `Spec => []NoSendOnClosed` |
| `HubProofs!LinesHaveNoGap` | `Spec => []NoGap` |
| `HubProofs!KeepsThePromise` | `Spec => KeepsFeed` |
| `DatasetPipelineProofs!ValidationIsUniformity` | `ValidateJsonKeys(f) <=> Uniform(f)` for every file |
| `DatasetPipelineProofs!TypeCorrect` | `Spec => []TypeOK` |
| `DatasetPipelineProofs!NoJobIsLost` | `Spec => []NoLostJob` |
| `DatasetPipelineProofs!NothingUnvalidated` | `Spec => []OnlyValidated` |
| `DatasetPipelineProofs!ImportsOnce` | `Spec => []ImportedOnce` |
| `DatasetPipelineProofs!KeepsThePromise` | `Spec => KeepsTaskLifecycle` |
| `AuthProofs!TypeCorrect` | `Spec => []TypeOK` |
| `AuthProofs!AddressesAreUnique` | `Spec => []DuplicateOnlyByRace` |
| `AuthProofs!UpdatesAreSerial` | `Spec => []AsIfSerial` |
| `AuthProofs!CodesAreSingleUse` | `Spec => []CodeUsedOnce` |
| `AuthProofs!TokensAreAccepted` | `Spec => []IssuedIsAccepted` |
| `AuthProofs!OwnersAreRight` | `Spec => []OwnerIsTokenUser` |

**Assumptions.** `BrokerAssumption` (no body is `NoBody`, no process is
`NoProc`), `EvalAssumption` (the limits are naturals, the pool has a slot, the
two queues are the code's), `PoolAssumption` (there is a worker),
`HubAssumption` (the buffer holds at least one), `DatasetAssumption` (the queue
is the code's, the bounds are naturals, no file is `NoFile`), `FileAssumption`
(the keys are finitely many, files are sequences of lines), `AuthAssumption`
(ids start above 0, the bounds are naturals, `None` is no value, and addresses,
numbers and ids differ). The sets of tasks, messages, processes, workers,
clients, addresses and files may be infinite, and so the bounds of the runs
(`MaxMishaps`, `MaxSamples`, `MaxRequests`, ...) stand for any number. Only
`CallsAreBounded` supposes finitely many workers: it counts them, and the code
starts at most fifteen.

**EvalPipeline: nothing is lost.** `NoLostTask` is not inductive: an `Ack` is
harmless only because of what the handler did before it. `IInv` adds

* `Sent`: only messages of published tasks exist and only those are handled;
* `SettledFirst`: a handler past the save of its verdict has a settled row;
* `CopyFirst`: a handler about to acknowledge the delivery it retried has a
  settled row, or a live copy of the same task with a larger `x-retry`. Without
  the comparison two handlers could each rely on the message the other one is
  about to acknowledge.

The proof has one lemma per action. `ForwardStep` covers the actions after which
the broker has all it had, `AnswerStep` those that acknowledge a delivery, and
the two publications and the two losses have arguments of their own.

**EvalPipeline: verdicts.** `EvalVerdictProofs` strengthens `IInv` to `VInv` with

* `Holding`: whoever works on a delivery holds it, except in a process that lost
  its channel, and then the task has been redelivered;
* `Counted`: the `x-retry` of a message exceeds neither `EvalMaxRetry` nor the runs
  of its task, and a dead letter or a failed row has all its runs, or an unreadable
  row, behind it;
* `Coursed`: until a delivery of a task comes back, at most one of its messages is
  active, and that message's position gives row, results, notifications and runs.

Where a message stands decides everything about its task, which is why
`ResultsOnce`, `OneRunAtATime` and the others follow although no handler looks at
the row it overwrites. `EvalLifecycleProofs` uses `VInv` to map every step to a
step or a stutter of TaskLifecycle.

**EvalPipeline: failures.** Only `DlqMark` makes a row failed, and it has a dead
letter in hand then. `FailureIsReported` is inductive only together with `Heard`:
a DLQ handler that is about to acknowledge has told of the failure. For every
other step the argument is `CopyStays`, that a live dead letter stays live and
dead-lettered in whatever the step does to the broker, unless its own handler
acknowledges it.

**EvalPool.** `IInv` adds that a worker holds a sample exactly from receipt to
answer, that nothing moves before the samples are loaded, the order in which the
channels are closed, and `NothingDropped`: while the context lives, every sample
handed over is held, in the channel or collected, and no worker leaves before
the feeder is through. Completeness follows when all of them have left, and with
it the one step of RunOutcome that is not immediate, the end with a result.

Two more theorems are the part of `ReturnsUnlessAbandoned` that needs no fairness:
the four kinds of goroutine are never all blocked on each other unless the feeder
gave up (`NobodyWaitsInVain`; the invariant `IInv` is enough), and no call makes more
than `LongestCall` steps (`CallsAreBounded`). The latter is `RunsOutOfSteps`, that
every step takes something out of `Ahead` and puts nothing back, with the
cardinalities of the parts of `Ahead` added up. Left to TLC is the step from "some goroutine can move
and there are finitely many moves" to "the call ends", which takes `ENABLED`.

**Hub.** `Lines`: what a client received, what its pump holds and what its buffer
holds follow one another without a gap, up to the last broadcast while it is in
the hub. With `Untouched`, a client in the hub is not closed. The refinement of
Feed uses the same invariant: a message that moves from the buffer to the pump
and on to the browser leaves the sum of the three as it is (`SameView`), and what
the pump holds is the number Feed would deliver next (`WriteDelivers`).

**DatasetPipeline.** `Progress`: a handler past the validation has a good file,
and one past the insertion has stored items. `Unique` and `FirstTime`: a job has
one message, and until it is put back one handler, which finds no items; this is
what `ImportedOnce` rests on, as the code never looks. `Uploaded`: a published
dataset has its file. The refinement of TaskLifecycle adds `Holding` (whoever
works on a job holds its delivery, so its message is live when the items are
inserted) and `Opening` (the job's row is there exactly from the commit of its
dataset on). `ValidationIsUniformity` is a fact about files, not steps:
a set of keys of the same number that contains another is equal to it, and a file
that is not empty has a first row.

**Auth.** `Exclusive`: two requests in progress about one user, address or number
are on record in `disturbed`. From it: what an undisturbed update has read is
still the row (`SavesFresh`), what an undisturbed signup has not found is still
not there (`SignupsFresh`), and an unspent code of an undisturbed number has not
logged in (`CodesFresh`).

**Only model-checked.** Liveness: `PublishedIsSettled`, `ReturnsUnlessAbandoned`,
`HubNeverBlocks`, `QueuedIsWritten`, `GoodFileIsImported`. Liveness under fairness
and `ENABLED` are out of the prover's reach, and so are induction over data (what a
recursive definition computes for every input) and modules with `RECURSIVE`
operators; none of the modules here has one. What of `ReturnsUnlessAbandoned` is
safety is proved (`NobodyWaitsInVain`, `CallsAreBounded`), as described above.

## 5. Not modelled

* `PreviewEval` and the SSE streams: sequential network output of one request.
* `ListDatasets`, `ListDatasetItems` and their handlers: reads; the cache key the
  first one writes is read by nobody. That pages are taken without an order, and
  that an item `null`, which passes the validation, panics the listing of its page,
  are listed as hazards without a property.
* Prompt templates, model parameters, answers: data without influence on control,
  except that a failed call or a missing prompt panics, which is modelled.
* `unregister` of the hub: it has no sender.
* The loss of the DLQWorker's channel alone, and a dataset worker's: they go with
  their process.
* What `CreateBatchEvalJob` of the handler writes after an error it has already
  answered, beyond the user id it goes on with; the start-up order and the
  graceful shutdown of the API process.
* Configuration, logging, codes, the SMS mock.

## 6. Disagreements with the documentation

| Run | The repository says | The code does |
|---|---|---|
| `eval_results_lost` | "Update DB (atomic/transaction)", `README.md:28` | status and results are two transactions, the second one's errors are dropped: a success without results |
| `eval_results_lost` | "pending, completed, failed, in-process", `internal/sql/eval.sql:7` | the status of a finished task is "success" (`eval_worker.go:155`, `models/eval.go:17-22`); completed and in-process are never written |
| `eval_runs_unlimited` | "Increment x-retry / If > max, go DLQ", `README.md:36-37` | a redelivery carries the old count: a task whose run panics is run more often than the limit, with no mishap from outside, and nothing ends it |
| `pool_timeout` | "Set context.WithTimeout", `README.md:26` | the feeder leaves `inputChan` open at the timeout, and the call may never return |
| `pool_partial` | "Success\|Failure", `README.md:31` | after the timeout the last select may return a partial result as a success |
| `dataset_bad_file` | "pending, in_progress, completed, failed", `internal/sql/dataset.sql:34` | nothing ever writes failed; an invalid file is delivered again for ever |

The two columns of statuses disagree with their schema in different ways. Of an
evaluation task the code uses other words, and `TypeOK` of EvalPipeline is written
with the code's: that it holds says nothing of the documented ones. `TaskRunning`
of `models/eval.go` is one more status that no code writes. Of a dataset job it
uses the schema's words but leaves out two of them, in_progress and failed.

## 7. Plan

Done: all modules of section 2, the runs of section 3 and the proofs of section
4. `EvalPipeline` came first, as the program's reason to be; its abstract
specification and those proofs that the two worker pipelines share came next, then the
hub, the import and the users. What could still be added, in this order:

1. The safety half of the other liveness properties, as it is proved of the pool:
   of `QueuedIsWritten` (the line of a browser never shrinks and its written part
   only grows) and of `PublishedIsSettled` (what can still move while a task is
   pending).
2. The batches of 500 in `RunInsertDatasetItemsJob` (`dataset.go:253-270`): that
   they partition the rows of the file.
3. The loss of a DLQ or dataset channel alone, as `LoseChannel` does it for the
   evaluation channel.
4. The HTTP handler of evaluation tasks in front of EvalPipeline, with requests
   that cannot be bound and go on all the same.
5. `PreviewEval`, whose streams share a context with the request.
6. Listing and pagination under concurrent imports.
