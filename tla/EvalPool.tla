------------------------------ MODULE EvalPool ------------------------------
(***************************************************************************)
(* One call of RunEvalTask (service/eval/eval.go): a feeder goroutine      *)
(* hands the samples over the unbuffered inputChan, MaxConcurrency workers *)
(* process them and put the answers on outputChan, which has room for all  *)
(* of them, a closer waits for the workers, and the caller drains the      *)
(* answers and then selects between the context and done.                  *)
(*                                                                         *)
(* The context ends once, at any time (EvalTimeout).  A select with two    *)
(* ready cases takes either one: that is a choice between two actions.     *)
(***************************************************************************)
EXTENDS Naturals, FiniteSets

CONSTANTS Workers,      \* the MaxConcurrency goroutines
          MaxSamples    \* bound: length of the sample list

ASSUME PoolAssumption == MaxSamples \in Nat /\ Workers # {}

VARIABLES
    ctxDone,    \* the task's context has ended
    total,      \* len(samples)
    next,       \* the feeder's position in samples
    feeder,     \* "send", "closed" (inputChan is closed) or "returned"
    worker,     \* worker[w]: where its loop stands
    holding,    \* holding[w]: the sample it received, 0 for none
    out,        \* the samples whose answer is in outputChan
    outClosed, doneClosed,
    main,       \* the caller: "load", "drain", "select", or its outcome
    collected   \* the samples whose answer is in results

goroutines == <<total, next, feeder, worker, holding, out>>
closed     == <<outClosed, doneClosed>>
vars       == <<ctxDone, goroutines, closed, main, collected>>

Samples == 1..total
Outcome == {"ok", "err", "loadErr", "panic"}

Init ==
    /\ ctxDone = FALSE
    /\ total = 0 /\ next = 1 /\ feeder = "send"
    /\ worker = [w \in Workers |-> "recv"]
    /\ holding = [w \in Workers |-> 0]
    /\ out = {} /\ outClosed = FALSE /\ doneClosed = FALSE
    /\ main = "load" /\ collected = {}

(* The goroutines exist from the end of Load, also when the call returned. *)
Started == main \in {"drain", "select", "ok", "err"}

-----------------------------------------------------------------------------
(* The caller, up to the goroutines *)

(* GetInputMessages: any number of samples up to DatasetItem. *)
Load ==
    /\ main = "load"
    /\ main' = "drain"
    /\ total' \in 0..MaxSamples
    /\ UNCHANGED <<ctxDone, next, feeder, worker, holding, out, closed, collected>>

(* A database error, or an item that is not an object of strings; a task   *)
(* without prompts panics when they are dereferenced.                      *)
LoadFails ==
    /\ main = "load"
    /\ main' \in {"loadErr", "panic"}
    /\ UNCHANGED <<ctxDone, goroutines, closed, collected>>

Expire ==
    /\ ~ctxDone
    /\ main \notin Outcome
    /\ ctxDone' = TRUE
    /\ UNCHANGED <<goroutines, closed, main, collected>>

-----------------------------------------------------------------------------
(* The feeder and the workers *)

(* Faulty variant: one step past the end of the list. *)
HandOverPastEnd(w) ==
    /\ Started /\ feeder = "send" /\ next <= total + 1
    /\ worker[w] = "recv"
    /\ worker' = [worker EXCEPT ![w] = "check"]
    /\ holding' = [holding EXCEPT ![w] = next]
    /\ next' = next + 1
    /\ UNCHANGED <<ctxDone, total, feeder, out, closed, main, collected>>

(* Faulty variant: the position does not move with the hand-over. *)
HandOverTwice(w) ==
    /\ Started /\ feeder = "send" /\ next <= total
    /\ worker[w] = "recv"
    /\ worker' = [worker EXCEPT ![w] = "check"]
    /\ holding' = [holding EXCEPT ![w] = next]
    /\ next' \in {next, next + 1}
    /\ UNCHANGED <<ctxDone, total, feeder, out, closed, main, collected>>

(* inputChan <- sample meets the worker's range over inputChan. *)
HandOver(w) ==
    /\ Started /\ feeder = "send" /\ next <= total
    /\ worker[w] = "recv"
    /\ worker' = [worker EXCEPT ![w] = "check"]
    /\ holding' = [holding EXCEPT ![w] = next]
    /\ next' = next + 1
    /\ UNCHANGED <<ctxDone, total, feeder, out, closed, main, collected>>

(* The feeder returns without close(inputChan). *)
FeederStops ==
    /\ Started /\ feeder = "send" /\ next <= total
    /\ ctxDone
    /\ feeder' = "returned"
    /\ UNCHANGED <<ctxDone, total, next, worker, holding, out, closed, main, collected>>

(* Faulty variant: the channel is not closed after the loop either. *)
FeederForgets ==
    /\ Started /\ feeder = "send" /\ next > total
    /\ feeder' = "returned"
    /\ UNCHANGED <<ctxDone, total, next, worker, holding, out, closed, main, collected>>

FeederCloses ==
    /\ Started /\ feeder = "send" /\ next > total
    /\ feeder' = "closed"
    /\ UNCHANGED <<ctxDone, total, next, worker, holding, out, closed, main, collected>>

Step(w, pc) == worker' = [worker EXCEPT ![w] = pc]
Drop(w)     == holding' = [holding EXCEPT ![w] = 0]

InputEnds(w) ==
    /\ Started /\ worker[w] = "recv" /\ feeder = "closed"
    /\ Step(w, "exit")
    /\ UNCHANGED <<ctxDone, total, next, feeder, holding, out, closed, main, collected>>

(* The first select: a sample received after the end of the context is     *)
(* dropped, and the worker with it.                                        *)
Check(w) ==
    /\ Started /\ worker[w] = "check"
    /\ IF ctxDone THEN Step(w, "exit") /\ Drop(w)
                  ELSE Step(w, "work") /\ UNCHANGED holding
    /\ UNCHANGED <<ctxDone, total, next, feeder, out, closed, main, collected>>

(* ProcessSample: all three model calls answered. *)
Process(w) ==
    /\ Started /\ worker[w] = "work"
    /\ Step(w, "emit")
    /\ UNCHANGED <<ctxDone, total, next, feeder, holding, out, closed, main, collected>>

(* A model call failed, be it because the context ended: CallModel returns *)
(* a nil message and no error, and ProcessSample dereferences it.          *)
Panic(w) ==
    /\ Started /\ worker[w] = "work"
    /\ main' = "panic"
    /\ UNCHANGED <<ctxDone, goroutines, closed, collected>>

(* The second select. *)
Emit(w) ==
    /\ Started /\ worker[w] = "emit"
    /\ Cardinality(out) < total
    /\ out' = out \cup {holding[w]}
    /\ Step(w, "recv") /\ Drop(w)
    /\ UNCHANGED <<ctxDone, total, next, feeder, closed, main, collected>>

Discard(w) ==
    /\ Started /\ worker[w] = "emit" /\ ctxDone
    /\ Step(w, "exit") /\ Drop(w)
    /\ UNCHANGED <<ctxDone, total, next, feeder, out, closed, main, collected>>

-----------------------------------------------------------------------------
(* The closer and the caller *)

(* Faulty variant: the WaitGroup counts one worker only. *)
CloseOutEarly ==
    /\ Started /\ ~outClosed
    /\ \E w \in Workers : worker[w] = "exit"
    /\ outClosed' = TRUE
    /\ UNCHANGED <<ctxDone, goroutines, doneClosed, main, collected>>

CloseOut ==
    /\ Started /\ ~outClosed
    /\ \A w \in Workers : worker[w] = "exit"
    /\ outClosed' = TRUE
    /\ UNCHANGED <<ctxDone, goroutines, doneClosed, main, collected>>

CloseDone ==
    /\ Started /\ outClosed /\ ~doneClosed
    /\ doneClosed' = TRUE
    /\ UNCHANGED <<ctxDone, goroutines, outClosed, main, collected>>

Collect ==
    /\ main = "drain"
    /\ \E s \in out : out' = out \ {s} /\ collected' = collected \cup {s}
    /\ UNCHANGED <<ctxDone, total, next, feeder, worker, holding, closed, main>>

Drained ==
    /\ main = "drain" /\ out = {} /\ outClosed
    /\ main' = "select"
    /\ UNCHANGED <<ctxDone, goroutines, closed, collected>>

(* Faulty variant: the context's case is taken before the context ended. *)
ReturnErrEarly ==
    /\ main = "select"
    /\ main' = "err"
    /\ UNCHANGED <<ctxDone, goroutines, closed, collected>>

ReturnErr ==
    /\ main = "select" /\ ctxDone
    /\ main' = "err"
    /\ UNCHANGED <<ctxDone, goroutines, closed, collected>>

ReturnOk ==
    /\ main = "select" /\ doneClosed
    /\ main' = "ok"
    /\ UNCHANGED <<ctxDone, goroutines, closed, collected>>

-----------------------------------------------------------------------------
Feeder     == (\E w \in Workers : HandOver(w)) \/ FeederStops \/ FeederCloses
WorkerOf(w) == InputEnds(w) \/ Check(w) \/ Process(w) \/ Panic(w) \/ Emit(w) \/ Discard(w)
Closer     == CloseOut \/ CloseDone
Caller     == Load \/ LoadFails \/ Collect \/ Drained \/ ReturnErr \/ ReturnOk

Next == Expire \/ Feeder \/ Closer \/ Caller \/ \E w \in Workers : WorkerOf(w)

Spec == Init /\ [][Next]_vars

(* The scheduler runs every goroutine that can move, and a model call ends *)
(* at the latest with the context it was given.                            *)
Fairness ==
    /\ WF_vars(Feeder) /\ WF_vars(Closer) /\ WF_vars(Caller)
    /\ \A w \in Workers : WF_vars(WorkerOf(w))

FairSpec == Spec /\ Fairness

-----------------------------------------------------------------------------
(* Properties *)

TypeOK ==
    /\ ctxDone \in BOOLEAN /\ outClosed \in BOOLEAN /\ doneClosed \in BOOLEAN
    /\ total \in 0..MaxSamples
    /\ next \in 1..(total + 1)
    /\ feeder \in {"send", "closed", "returned"}
    /\ worker \in [Workers -> {"recv", "check", "work", "emit", "exit"}]
    /\ holding \in [Workers -> 0..total]
    /\ out \subseteq Samples /\ collected \subseteq Samples
    /\ main \in {"load", "drain", "select"} \cup Outcome

(* No sample is answered twice: what is still to be handed over, what each *)
(* worker holds, what is in the channel and what is collected are apart.   *)
EachSampleOnce ==
    /\ out \cap collected = {}
    /\ \A s \in out \cup collected : s < next
    /\ \A w \in Workers : holding[w] # 0 =>
         /\ holding[w] < next /\ holding[w] \notin out \cup collected
         /\ \A v \in Workers \ {w} : holding[v] # holding[w]

(* outputChan is closed when no worker can send on it any more, and the    *)
(* function returns when no goroutine of its pool is left (a send on a     *)
(* closed channel, or a late one, would be a panic nobody recovers).       *)
ClosedAfterWorkers ==
    outClosed \/ main \in {"select", "ok"} => \A w \in Workers : worker[w] = "exit"

(* A result returned before the timeout is complete: every sample has its  *)
(* answer in it.                                                           *)
CompleteInTime == main = "ok" /\ ~ctxDone => collected = Samples

(* The call keeps the promise RunOutcome states, on which EvalPipeline     *)
(* rests: one final outcome, a success in time only with every answer, an  *)
(* error after loading only when the time is up.                           *)
Call == INSTANCE RunOutcome WITH
            timeUp <- ctxDone,
            loaded <- main \notin {"load", "loadErr"} /\ (main = "panic" => total > 0),
            unanswered <- Samples \ collected,
            outcome <- IF main \in Outcome THEN main ELSE "running"
KeepsRunOutcome == Call!Spec

(* RunEvalTask returns, or panics, unless the feeder gave up at the        *)
(* timeout with samples left: only then can workers wait on inputChan for  *)
(* ever.                                                                   *)
Abandoned == ctxDone /\ feeder = "returned" /\ next <= total
ReturnsUnlessAbandoned == <>(main \in Outcome \/ Abandoned)

(* Waiting on channels.  The feeder waits for a worker that receives, a    *)
(* worker for a sample or for room, the closer for the workers, the caller *)
(* for an answer or for a signal.                                          *)
FeederWaits    == feeder = "send" =>
                      next <= total /\ ~ctxDone /\ \A w \in Workers : worker[w] # "recv"
WorkerWaits(w) == \/ worker[w] = "exit"
                  \/ worker[w] = "recv" /\ feeder # "closed"
                  \/ worker[w] = "emit" /\ ~ctxDone /\ Cardinality(out) = total
CloserWaits    == IF outClosed THEN doneClosed ELSE \E w \in Workers : worker[w] # "exit"
CallerWaits    == \/ main = "drain" /\ out = {} /\ ~outClosed
                  \/ main = "select" /\ ~ctxDone /\ ~doneClosed

(* The goroutines of a call never all wait for one another, except when    *)
(* the feeder gave up with samples left and did not close inputChan.       *)
DeadlockOnlyAbandoned ==
    FeederWaits /\ CloserWaits /\ CallerWaits /\ (\A w \in Workers : WorkerWaits(w))
    => Abandoned

(* What is still ahead of a call, by kind: the samples each stage has not  *)
(* done, the workers that have not left, the channels that have not been   *)
(* closed (for inputChan: that are still fed) and the caller's positions.  *)
Unserved == IF main = "load" THEN 1..MaxSamples ELSE next..total
InHand(stages) == {holding[w] : w \in {v \in Workers : worker[v] \in stages}}
Ahead ==
    [handOver |-> Unserved,
     check    |-> Unserved \cup InHand({"check"}),
     process  |-> Unserved \cup InHand({"check", "work"}),
     emit     |-> Unserved \cup InHand({"check", "work", "emit"}),
     collect  |-> Unserved \cup InHand({"check", "work", "emit"}) \cup out,
     leave    |-> {w \in Workers : worker[w] # "exit"},
     open     |-> (IF ctxDone THEN {} ELSE {"ctx"})
                  \cup (IF feeder = "send" THEN {"inputChan"} ELSE {})
                  \cup (IF outClosed THEN {} ELSE {"outputChan"})
                  \cup (IF doneClosed THEN {} ELSE {"done"}),
     caller   |-> CASE main = "load"   -> {"load", "drain", "select"}
                    [] main = "drain"  -> {"drain", "select"}
                    [] main = "select" -> {"select"}
                    [] OTHER           -> {}]

(* Every step does something that was ahead, and puts nothing back: no     *)
(* goroutine spins, and a call is over after a bounded number of steps.    *)
NothingIsRepeated ==
    [][/\ \A k \in DOMAIN Ahead : Ahead'[k] \subseteq Ahead[k]
       /\ Ahead' # Ahead]_vars

(* README.md:26, "Set context.WithTimeout": when the time is up the call   *)
(* ends.                                                                   *)
TimeoutEnds == ctxDone ~> main \in Outcome

(* README.md:31, "Success|Failure": a run that is reported as a success    *)
(* has an answer for every sample.  With the context ended both cases of   *)
(* the last select may be ready, and answers may have been dropped.        *)
SuccessIsComplete == main = "ok" => collected = Samples
=============================================================================
