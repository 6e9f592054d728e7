--------------------------- MODULE EvalPoolProofs ---------------------------
(***************************************************************************)
(* The safety of one RunEvalTask, for every number of workers and samples. *)
(***************************************************************************)
EXTENDS EvalPool, FiniteSetTheorems, TLAPS

(* A worker holds a sample exactly from its receipt to its answer. *)
HoldingWhileBusy ==
    \A w \in Workers : holding[w] # 0 <=> worker[w] \in {"check", "work", "emit"}

(* Nothing has moved before the samples are loaded. *)
QuietBeforeLoad ==
    main \in {"load", "loadErr"} =>
        /\ total = 0 /\ next = 1 /\ feeder = "send" /\ ~outClosed
        /\ out = {} /\ collected = {}
        /\ worker = [w \in Workers |-> "recv"] /\ holding = [w \in Workers |-> 0]

(* The order in which the channels are closed and the answers drained. *)
ClosingOrder ==
    /\ feeder = "closed" => next = total + 1
    /\ feeder = "returned" => next <= total
    /\ doneClosed => outClosed
    /\ outClosed => \A w \in Workers : worker[w] = "exit"
    /\ main \in {"select", "ok", "err"} => outClosed /\ out = {}

(* As long as the context lives no sample is dropped and no worker leaves  *)
(* before the feeder is through.                                           *)
NothingDropped ==
    ~ctxDone =>
        /\ feeder # "returned"
        /\ \A w \in Workers : worker[w] = "exit" => feeder = "closed"
        /\ \A s \in 1..(next - 1) :
             s \in out \cup collected \/ \E w \in Workers : holding[w] = s

IInv == /\ TypeOK /\ EachSampleOnce /\ HoldingWhileBusy /\ QuietBeforeLoad
        /\ ClosingOrder /\ NothingDropped

-----------------------------------------------------------------------------
(* The first position is in range for every length of the sample list. *)
LEMMA FirstPosition ==
  ASSUME NEW n \in 0..MaxSamples PROVE n \in Nat /\ 1 \in 1..(n + 1) /\ 0 \in 0..n
  BY PoolAssumption DEF PoolAssumption

(* The initial states satisfy the inductive invariant. *)
LEMMA InitIInv == Init => IInv
  <1> SUFFICES ASSUME Init PROVE IInv
      OBVIOUS
  <1> USE PoolAssumption DEF Init
  <1>1. TypeOK
    <2>1. 0 \in 0..MaxSamples /\ 1 \in 1..(0 + 1) BY DEF PoolAssumption
    <2>2. total = 0 /\ next = 1 /\ holding \in [Workers -> 0..total] OBVIOUS
    <2>3. total \in 0..MaxSamples /\ next \in 1..(total + 1) BY <2>1, <2>2
    <2>4. QED BY <2>2, <2>3 DEF TypeOK, Samples, Outcome
  <1>2. EachSampleOnce /\ HoldingWhileBusy BY DEF EachSampleOnce, HoldingWhileBusy
  <1>3. QuietBeforeLoad /\ ClosingOrder BY DEF QuietBeforeLoad, ClosingOrder
  <1>4. NothingDropped BY DEF NothingDropped
  <1>5. QED BY <1>1, <1>2, <1>3, <1>4 DEF IInv

(* Every step of the feeder, a worker, the closer and the caller preserves *)
(* the inductive invariant.                                                *)
LEMMA StepIInv == IInv /\ [Next]_vars => IInv'
  <1> SUFFICES ASSUME IInv, [Next]_vars PROVE IInv'
      OBVIOUS
  <1> USE PoolAssumption DEF IInv, TypeOK, EachSampleOnce, HoldingWhileBusy,
       QuietBeforeLoad, ClosingOrder, NothingDropped, Samples, Outcome, Started
  <1>1. CASE Expire BY <1>1 DEF Expire, goroutines, closed
  <1>2. ASSUME NEW w \in Workers, HandOver(w) PROVE IInv'
    <2> USE <1>2 DEF HandOver, closed
    <2>1. TypeOK' OBVIOUS
    <2>2. EachSampleOnce' OBVIOUS
    <2>3. HoldingWhileBusy' OBVIOUS
    <2>4. QuietBeforeLoad' /\ ClosingOrder' OBVIOUS
    <2>5. NothingDropped' OBVIOUS
    <2>6. QED BY <2>1, <2>2, <2>3, <2>4, <2>5
  <1>3. CASE FeederStops BY <1>3 DEF FeederStops, closed
  <1>4. CASE FeederCloses BY <1>4 DEF FeederCloses, closed
  <1>5. CASE Load
    <2> USE <1>5 DEF Load, closed
    <2>1. main = "load" /\ total' \in 0..MaxSamples /\ next' = 1
          /\ holding' = [w \in Workers |-> 0] /\ out' = {} /\ collected' = {}
      OBVIOUS
    <2>2. total' \in Nat /\ 1 \in 1..(total' + 1) /\ 0 \in 0..total' BY <2>1, FirstPosition
    <2>3. next' \in 1..(total' + 1) BY <2>1, <2>2
    <2>4. holding' \in [Workers -> 0..total'] BY <2>1, <2>2
    <2>5. TypeOK' BY <2>1, <2>3, <2>4
    <2>6. EachSampleOnce' /\ HoldingWhileBusy' BY <2>1
    <2>7. QuietBeforeLoad' /\ ClosingOrder' /\ NothingDropped' BY <2>1
    <2>8. QED BY <2>5, <2>6, <2>7
  <1>6. CASE LoadFails BY <1>6 DEF LoadFails, closed, goroutines
  <1>7. CASE Collect
    <2> USE <1>7 DEF Collect, closed
    <2>1. TypeOK' OBVIOUS
    <2>2. EachSampleOnce' OBVIOUS
    <2>3. HoldingWhileBusy' /\ QuietBeforeLoad' /\ ClosingOrder' OBVIOUS
    <2>4. NothingDropped' OBVIOUS
    <2>5. QED BY <2>1, <2>2, <2>3, <2>4
  <1>8. CASE Drained BY <1>8 DEF Drained, closed, goroutines
  <1>9. CASE ReturnErr BY <1>9 DEF ReturnErr, closed, goroutines
  <1>10. CASE ReturnOk BY <1>10 DEF ReturnOk, closed, goroutines
  <1>11. CASE CloseOut BY <1>11 DEF CloseOut, goroutines
  <1>12. CASE CloseDone BY <1>12 DEF CloseDone, goroutines
  <1>13. ASSUME NEW w \in Workers, InputEnds(w) PROVE IInv'
    BY <1>13 DEF InputEnds, Step, closed
  <1>14. ASSUME NEW w \in Workers, Check(w) PROVE IInv'
    <2> USE <1>14 DEF Check, Step, Drop, closed
    <2>1. TypeOK' OBVIOUS
    <2>2. EachSampleOnce' OBVIOUS
    <2>3. HoldingWhileBusy' /\ QuietBeforeLoad' /\ ClosingOrder' OBVIOUS
    <2>4. NothingDropped' OBVIOUS
    <2>5. QED BY <2>1, <2>2, <2>3, <2>4
  <1>15. ASSUME NEW w \in Workers, Process(w) PROVE IInv'
    BY <1>15 DEF Process, Step, closed
  <1>16. ASSUME NEW w \in Workers, Panic(w) PROVE IInv'
    BY <1>16 DEF Panic, goroutines, closed
  <1>17. ASSUME NEW w \in Workers, Emit(w) PROVE IInv'
    <2> USE <1>17 DEF Emit, Step, Drop, closed
    <2>1. holding[w] \in 1..total OBVIOUS
    <2>2. out' \subseteq 1..total BY <2>1
    <2>3. /\ holding' \in [Workers -> 0..total]
          /\ worker' \in [Workers -> {"recv", "check", "work", "emit", "exit"}]
      OBVIOUS
    <2>4. TypeOK' BY <2>2, <2>3
    <2>5. EachSampleOnce'
      <3>1. /\ holding[w] < next /\ holding[w] \notin out \cup collected
            /\ \A v \in Workers \ {w} : holding'[v] = holding[v] /\ holding[v] # holding[w]
            /\ holding'[w] = 0 /\ out' = out \cup {holding[w]}
            /\ next' = next /\ collected' = collected
        OBVIOUS
      <3>2. out' \cap collected' = {} /\ \A s \in out' \cup collected' : s < next'
        <4>1. out \cap collected = {} /\ \A s \in out \cup collected : s < next OBVIOUS
        <4>2. QED BY ONLY <4>1, <3>1
      <3>3. ASSUME NEW v \in Workers, holding'[v] # 0
            PROVE  /\ holding'[v] < next' /\ holding'[v] \notin out' \cup collected'
                   /\ \A u \in Workers \ {v} : holding'[u] # holding'[v]
        BY <3>1, <3>3
      <3>4. QED BY <3>2, <3>3
    <2>6. HoldingWhileBusy' /\ QuietBeforeLoad' /\ ClosingOrder' OBVIOUS
    <2>7. NothingDropped' OBVIOUS
    <2>8. QED BY <2>4, <2>5, <2>6, <2>7
  <1>18. ASSUME NEW w \in Workers, Discard(w) PROVE IInv'
    BY <1>18 DEF Discard, Step, Drop, closed
  <1>19. CASE UNCHANGED vars BY <1>19 DEF vars, goroutines, closed
  <1>20. QED
    BY <1>1, <1>2, <1>3, <1>4, <1>5, <1>6, <1>7, <1>8, <1>9, <1>10, <1>11, <1>12,
       <1>13, <1>14, <1>15, <1>16, <1>17, <1>18, <1>19
       DEF Next, Feeder, WorkerOf, Closer, Caller

(* The inductive invariant holds throughout. *)
LEMMA Invariance == Spec => []IInv
  BY InitIInv, StepIInv, PTL DEF Spec

-----------------------------------------------------------------------------
(* Every variable of a run keeps its type. *)
THEOREM TypeCorrect == Spec => []TypeOK
  <1>1. IInv => TypeOK BY DEF IInv
  <1>2. QED BY Invariance, <1>1, PTL

(* No sample is answered twice, whatever the interleaving of the workers. *)
THEOREM SamplesAreAnsweredOnce == Spec => []EachSampleOnce
  <1>1. IInv => EachSampleOnce BY DEF IInv
  <1>2. QED BY Invariance, <1>1, PTL

(* outputChan is closed, and the call returns, only behind the workers. *)
THEOREM ClosesBehindTheWorkers == Spec => []ClosedAfterWorkers
  <1>1. IInv => ClosedAfterWorkers BY DEF IInv, ClosingOrder, ClosedAfterWorkers
  <1>2. QED BY Invariance, <1>1, PTL

(* A success returned within the time limit has an answer for every        *)
(* sample: all workers have left, so the feeder was through, so each       *)
(* sample is held, in the channel or collected, and only the last is left. *)
THEOREM InTimeIsComplete == Spec => []CompleteInTime
  <1>1. IInv => CompleteInTime
    <2> SUFFICES ASSUME IInv, main = "ok", ~ctxDone PROVE collected = Samples
        BY DEF CompleteInTime
    <2> USE DEF IInv
    <2>1. \A w \in Workers : worker[w] = "exit" /\ holding[w] = 0
        BY DEF ClosingOrder, HoldingWhileBusy
    <2>2. next = total + 1
        BY <2>1, PoolAssumption DEF NothingDropped, ClosingOrder
    <2>3. total \in Nat /\ collected \subseteq Samples BY PoolAssumption DEF TypeOK
    <2>4. \A s \in Samples : s \in collected
        BY <2>1, <2>2, <2>3 DEF NothingDropped, ClosingOrder, Samples
    <2>5. QED BY <2>3, <2>4
  <1>2. QED BY Invariance, <1>1, PTL

-----------------------------------------------------------------------------
(* The refinement: RunEvalTask keeps the promise of RunOutcome.            *)

(* Once the workers have left in time, every answer is collected.          *)
LEMMA DrainedInTime ==
  ASSUME IInv, main = "select", ~ctxDone PROVE Samples \ collected = {}
  <1> USE DEF IInv
  <1>1. \A w \in Workers : worker[w] = "exit" /\ holding[w] = 0
    BY DEF ClosingOrder, HoldingWhileBusy
  <1>2. next = total + 1 BY <1>1, PoolAssumption DEF NothingDropped, ClosingOrder
  <1>3. total \in Nat BY PoolAssumption DEF TypeOK
  <1>4. \A s \in Samples : s \in collected
    BY <1>1, <1>2, <1>3 DEF NothingDropped, ClosingOrder, Samples
  <1>5. QED BY <1>4

(* The initial states map to initial states. *)
LEMMA InitOutcome == Init => Call!Init
  BY DEF Init, Call!Init, Samples, Outcome

(* Every step maps to a step of RunOutcome or to a stutter.                *)
LEMMA StepOutcome == IInv /\ [Next]_vars => [Call!Next]_(Call!vars)
  <1> SUFFICES ASSUME IInv, [Next]_vars PROVE [Call!Next]_(Call!vars)
      OBVIOUS
  <1> USE DEF Call!vars, Call!Next, Outcome, Samples
  <1>1. CASE Expire
    BY <1>1 DEF Expire, goroutines, closed, Call!TimeOut
  <1>2. CASE Load
    <2>1. /\ main = "load" /\ main' = "drain" /\ total' \in 0..MaxSamples
          /\ collected = {} /\ collected' = {} /\ ctxDone' = ctxDone
      BY <1>2 DEF Load, closed, IInv, QuietBeforeLoad
    <2>2. (1..total') \ collected' = 1..total' BY <2>1
    <2>3. Call!Ask BY <2>1, <2>2 DEF Call!Ask
    <2>4. QED BY <2>1, <2>3
  <1>3. CASE LoadFails
    <2>1. ~(total > 0) BY <1>3 DEF LoadFails, IInv, QuietBeforeLoad
    <2>2. QED BY <1>3, <2>1 DEF LoadFails, goroutines, closed, Call!End
  <1>4. CASE Collect
    <2>1. PICK s \in out : collected' = collected \cup {s} BY <1>4 DEF Collect
    <2>2. s \in Samples \ collected BY <2>1 DEF IInv, TypeOK, EachSampleOnce
    <2>3. (1..total) \ (collected \cup {s}) = ((1..total) \ collected) \ {s} OBVIOUS
    <2>4. Call!Answer BY <1>4, <2>1, <2>2, <2>3 DEF Collect, closed, Call!Answer
    <2>5. QED BY <1>4, <2>4 DEF Collect
  <1>5. CASE Drained BY <1>5 DEF Drained, goroutines, closed
  <1>6. CASE ReturnErr BY <1>6 DEF ReturnErr, goroutines, closed, Call!End
  <1>7. CASE ReturnOk
    <2>1. ctxDone \/ (1..total) \ collected = {} BY <1>7, DrainedInTime DEF ReturnOk
    <2>2. QED BY <1>7, <2>1 DEF ReturnOk, goroutines, closed, Call!End
  <1>8. ASSUME NEW w \in Workers, Panic(w) PROVE [Call!Next]_(Call!vars)
    <2>1. holding[w] # 0 /\ holding[w] \in 0..total
      BY <1>8 DEF Panic, IInv, TypeOK, HoldingWhileBusy
    <2>2. total > 0 BY <2>1, PoolAssumption DEF IInv, TypeOK
    <2>3. main = "drain" BY <1>8 DEF Panic, Started, IInv, ClosingOrder
    <2>4. QED BY <1>8, <2>2, <2>3 DEF Panic, goroutines, closed, Call!End
  <1>9. CASE Feeder
    BY <1>9 DEF Feeder, HandOver, FeederStops, FeederCloses, closed
  <1>10. CASE Closer BY <1>10 DEF Closer, CloseOut, CloseDone, goroutines
  <1>11. ASSUME NEW w \in Workers,
                InputEnds(w) \/ Check(w) \/ Process(w) \/ Emit(w) \/ Discard(w)
         PROVE [Call!Next]_(Call!vars)
    BY <1>11 DEF InputEnds, Check, Process, Emit, Discard, Step, Drop, closed
  <1>12. CASE UNCHANGED vars BY <1>12 DEF vars, goroutines, closed
  <1>13. QED
    BY <1>1, <1>2, <1>3, <1>4, <1>5, <1>6, <1>7, <1>8, <1>9, <1>10, <1>11, <1>12
       DEF Next, WorkerOf, Caller

(* A call of RunEvalTask keeps what RunOutcome promises, and so EvalPipeline *)
(* may treat it as one step with one of four outcomes.                       *)
THEOREM RunKeepsItsPromise == Spec => KeepsRunOutcome
  BY InitOutcome, StepOutcome, Invariance, PTL DEF Spec, KeepsRunOutcome, Call!Spec

-----------------------------------------------------------------------------
(* Nobody waits for ever but for a feeder that gave up: when a call waits, *)
(* the workers that are left wait on inputChan, and nobody feeds it.       *)
LEMMA AllWaiting == IInv => DeadlockOnlyAbandoned
  <1> SUFFICES ASSUME IInv, FeederWaits, CloserWaits, CallerWaits,
                      \A w \in Workers : WorkerWaits(w)
               PROVE  Abandoned
      BY DEF DeadlockOnlyAbandoned
  <1> USE DEF IInv
  <1>1. main # "select" BY DEF CallerWaits, CloserWaits, ClosingOrder
  <1>2. out = {} /\ ~outClosed BY <1>1 DEF CallerWaits
  <1>3. PICK w \in Workers : worker[w] # "exit" BY <1>2 DEF CloserWaits
  <1>4. worker[w] # "emit"
    <2> SUFFICES ASSUME worker[w] = "emit" PROVE FALSE OBVIOUS
    <2>1. holding[w] # 0 BY DEF HoldingWhileBusy
    <2>2. total # 0 BY <2>1, PoolAssumption DEF TypeOK
    <2>3. Cardinality(out) = 0 BY <1>2, FS_EmptySet
    <2>4. QED BY <2>2, <2>3 DEF WorkerWaits
  <1>5. worker[w] = "recv" /\ feeder # "closed" BY <1>3, <1>4 DEF WorkerWaits
  <1>6. feeder = "returned" BY <1>5 DEF FeederWaits, TypeOK
  <1>7. QED BY <1>6 DEF Abandoned, ClosingOrder, NothingDropped

(* Only an abandoned call can have all its goroutines wait for one another. *)
THEOREM NobodyWaitsInVain == Spec => []DeadlockOnlyAbandoned
  BY Invariance, AllWaiting, PTL

-----------------------------------------------------------------------------
(* What is ahead only shrinks.  A step that leaves the samples in hand of   *)
(* all workers but w alone adds at most those of w.                         *)
LEMMA OthersInHand ==
  ASSUME NEW w \in Workers, NEW stages,
         \A v \in Workers \ {w} : worker'[v] = worker[v] /\ holding'[v] = holding[v]
  PROVE  InHand(stages)' \subseteq
           InHand(stages) \cup (IF worker'[w] \in stages THEN {holding'[w]} ELSE {})
  BY DEF InHand

LEMMA SameInHand ==
  ASSUME NEW stages, worker' = worker, holding' = holding
  PROVE  InHand(stages)' = InHand(stages)
  BY DEF InHand

Shrinks == (\A k \in DOMAIN Ahead : Ahead'[k] \subseteq Ahead[k]) /\ Ahead' # Ahead

LEMMA StepAhead ==
  ASSUME IInv, Next
  PROVE  Shrinks
  <1> USE PoolAssumption DEF IInv, Ahead, Shrinks
  <1>1. CASE Expire BY <1>1, SameInHand DEF Expire, goroutines, closed, Unserved
  <1>2. CASE Load
    <2>1. /\ main = "load" /\ main' = "drain" /\ next = 1 /\ next' = 1
          /\ total' \in 0..MaxSamples
          /\ UNCHANGED <<ctxDone, feeder, worker, holding, out, outClosed, doneClosed>>
      BY <1>2 DEF Load, closed, QuietBeforeLoad
    <2>2. Unserved' \subseteq Unserved BY <2>1 DEF Unserved
    <2>3. QED BY <2>1, <2>2, SameInHand
  <1>3. CASE LoadFails
    <2>1. /\ main = "load" /\ main' \in {"loadErr", "panic"}
          /\ next = 1 /\ total = 0 /\ next' = 1 /\ total' = 0
          /\ UNCHANGED <<ctxDone, feeder, worker, holding, out, outClosed, doneClosed>>
      BY <1>3 DEF LoadFails, goroutines, closed, QuietBeforeLoad
    <2>2. Unserved' \subseteq Unserved BY <2>1 DEF Unserved
    <2>3. QED BY <2>1, <2>2, SameInHand
  <1>4. CASE Drained \/ ReturnErr \/ ReturnOk
    BY <1>4, SameInHand DEF Drained, ReturnErr, ReturnOk, goroutines, closed, Unserved
  <1>5. CASE Collect
    <2>1. PICK s \in out : out' = out \ {s} BY <1>5 DEF Collect
    <2>2. s \notin Unserved /\ s \notin InHand({"check", "work", "emit"})
      <3>1. s < next /\ s \in Nat /\ \A w \in Workers : holding[w] # 0 => holding[w] # s
        BY <2>1 DEF EachSampleOnce, TypeOK, Samples
      <3>2. main = "drain" BY <1>5 DEF Collect
      <3>3. s \notin Unserved BY <3>1, <3>2 DEF Unserved, TypeOK
      <3>4. QED BY <3>1, <3>3 DEF InHand, HoldingWhileBusy
    <2>3. UNCHANGED <<ctxDone, total, next, feeder, worker, holding, closed, main>>
      BY <1>5 DEF Collect
    <2>4. QED BY <2>1, <2>2, <2>3, SameInHand DEF closed, Unserved
  <1>6. CASE Closer
    BY <1>6, SameInHand DEF Closer, CloseOut, CloseDone, goroutines, closed, Unserved
  <1>7. CASE FeederStops \/ FeederCloses
    BY <1>7, SameInHand DEF FeederStops, FeederCloses, closed, Unserved
  <1>8. ASSUME NEW w \in Workers, HandOver(w) PROVE Shrinks
    <2>1. /\ Started /\ next <= total /\ next' = next + 1
          /\ worker[w] = "recv" /\ worker'[w] = "check" /\ holding'[w] = next
          /\ \A v \in Workers \ {w} : worker'[v] = worker[v] /\ holding'[v] = holding[v]
          /\ UNCHANGED <<ctxDone, total, feeder, out, outClosed, doneClosed, main>>
      BY <1>8 DEF HandOver, closed, TypeOK
    <2>2. /\ next \in Unserved /\ next \notin Unserved'
          /\ Unserved' \subseteq Unserved
      BY <2>1 DEF Unserved, Started, TypeOK
    <2>3. \A stages : InHand(stages)' \subseteq InHand(stages) \cup {next}
      BY <2>1, OthersInHand
    <2>4. {v \in Workers : worker'[v] # "exit"} = {v \in Workers : worker[v] # "exit"}
      BY <2>1
    <2>5. QED BY <2>1, <2>2, <2>3, <2>4
  <1>9. ASSUME NEW w \in Workers, InputEnds(w) \/ Discard(w) \/ (Check(w) /\ ctxDone)
        PROVE  Shrinks
    <2>1. /\ worker[w] # "exit" /\ worker'[w] = "exit"
          /\ \A v \in Workers \ {w} : worker'[v] = worker[v] /\ holding'[v] = holding[v]
          /\ UNCHANGED <<ctxDone, total, next, feeder, out, outClosed, doneClosed, main>>
      BY <1>9 DEF InputEnds, Discard, Check, Step, Drop, closed, TypeOK
    <2>2. "exit" \notin {"check"} /\ "exit" \notin {"check", "work"}
          /\ "exit" \notin {"check", "work", "emit"}
      OBVIOUS
    <2>3. \A stages : "exit" \notin stages => InHand(stages)' \subseteq InHand(stages)
      BY <2>1, OthersInHand
    <2>4. /\ {v \in Workers : worker'[v] # "exit"} \subseteq {v \in Workers : worker[v] # "exit"}
          /\ w \notin {v \in Workers : worker'[v] # "exit"}
          /\ w \in {v \in Workers : worker[v] # "exit"}
      BY <2>1
    <2>5. QED BY <2>1, <2>2, <2>3, <2>4 DEF Unserved
  <1>10. ASSUME NEW w \in Workers, (Check(w) /\ ~ctxDone) \/ Process(w) \/ Emit(w)
         PROVE  Shrinks
    <2> DEFINE s == holding[w]
    <2>1. /\ UNCHANGED <<ctxDone, total, next, feeder, outClosed, doneClosed, main>>
          /\ main # "load"
          /\ \A v \in Workers \ {w} : worker'[v] = worker[v] /\ holding'[v] = holding[v]
          /\ s < next /\ s \in Nat /\ \A v \in Workers \ {w} : holding'[v] # s
      BY <1>10 DEF Check, Process, Emit, Step, Drop, closed, Started, TypeOK,
                   EachSampleOnce, HoldingWhileBusy
    <2>2. \/ worker[w] = "check" /\ worker'[w] = "work" /\ holding'[w] = s /\ out' = out
          \/ worker[w] = "work" /\ worker'[w] = "emit" /\ holding'[w] = s /\ out' = out
          \/ worker[w] = "emit" /\ worker'[w] = "recv" /\ out' = out \cup {s}
      BY <1>10 DEF Check, Process, Emit, Step, Drop, TypeOK
    <2>3. s \notin Unserved /\ Unserved' = Unserved BY <2>1 DEF Unserved, TypeOK
    <2>4. \A stages :
            /\ worker'[w] # "recv" => InHand(stages)' \subseteq InHand(stages) \cup {s}
            /\ worker'[w] \notin stages => InHand(stages)' \subseteq InHand(stages)
      <3>1. \A stages : InHand(stages)' \subseteq InHand(stages) \cup
                          (IF worker'[w] \in stages THEN {holding'[w]} ELSE {})
        BY <2>1, OthersInHand
      <3>2. worker'[w] # "recv" => holding'[w] = s BY <2>2
      <3>3. QED BY <3>1, <3>2
    <2>5. \A stages : /\ worker[w] \in stages => s \in InHand(stages)
                      /\ worker'[w] \notin stages => s \notin InHand(stages)'
      BY <2>1 DEF InHand
    <2>6. {v \in Workers : worker'[v] # "exit"} = {v \in Workers : worker[v] # "exit"}
      BY <2>1, <2>2
    <2> HIDE DEF s
    <2>7. CASE worker[w] = "check" BY <2>1, <2>2, <2>3, <2>4, <2>5, <2>6, <2>7
    <2>8. CASE worker[w] = "work" BY <2>1, <2>2, <2>3, <2>4, <2>5, <2>6, <2>8
    <2>9. CASE worker[w] = "emit" BY <2>1, <2>2, <2>3, <2>4, <2>5, <2>6, <2>9
    <2>10. QED BY <2>2, <2>7, <2>8, <2>9
  <1>11. ASSUME NEW w \in Workers, Panic(w) PROVE Shrinks
    <2>1. main = "drain" BY <1>11 DEF Panic, Started, ClosingOrder
    <2>2. QED BY <1>11, <2>1, SameInHand DEF Panic, goroutines, closed, Unserved
  <1>12. QED
    BY <1>1, <1>2, <1>3, <1>4, <1>5, <1>6, <1>7, <1>8, <1>9, <1>10, <1>11
       DEF Next, Feeder, WorkerOf, Caller

(* Every step takes something from what is ahead of the call. *)
THEOREM RunsOutOfSteps == Spec => NothingIsRepeated
  <1>1. IInv /\ [Next]_vars =>
          [(\A k \in DOMAIN Ahead : Ahead'[k] \subseteq Ahead[k]) /\ Ahead' # Ahead]_vars
    BY StepAhead DEF Shrinks
  <1>2. QED BY <1>1, Invariance, PTL DEF Spec, NothingIsRepeated

(* With finitely many workers that bounds the length of a call. *)
StepsAhead ==
    Cardinality(Ahead.handOver) + Cardinality(Ahead.check) + Cardinality(Ahead.process)
    + Cardinality(Ahead.emit) + Cardinality(Ahead.collect) + Cardinality(Ahead.leave)
    + Cardinality(Ahead.open) + Cardinality(Ahead.caller)

LongestCall == 5 * MaxSamples + Cardinality(Workers) + 7

LEMMA SamplesAhead ==
  ASSUME IInv, NEW k \in {"handOver", "check", "process", "emit", "collect"}
  PROVE  IsFiniteSet(Ahead[k]) /\ Cardinality(Ahead[k]) \in 0..MaxSamples
  <1> USE PoolAssumption DEF IInv, TypeOK, Samples
  <1>1. Unserved \subseteq 1..MaxSamples BY DEF Unserved
  <1>2. out \subseteq 1..MaxSamples OBVIOUS
  <1>3. \A stages : (\A x \in stages : x \in {"check", "work", "emit"})
                    => InHand(stages) \subseteq 1..MaxSamples
    <2>1. \A w \in Workers : worker[w] \in {"check", "work", "emit"}
                             => holding[w] \in 1..MaxSamples
      BY DEF HoldingWhileBusy
    <2>2. QED BY <2>1 DEF InHand
  <1>4. Ahead[k] \subseteq 1..MaxSamples BY <1>1, <1>2, <1>3 DEF Ahead
  <1>5. IsFiniteSet(1..MaxSamples) /\ Cardinality(1..MaxSamples) = MaxSamples
    <2>1. MaxSamples \in Int /\ 1 \in Int /\ MaxSamples \in Nat OBVIOUS
    <2>2. QED BY ONLY <2>1, FS_Interval
  <1>6. IsFiniteSet(Ahead[k]) /\ Cardinality(Ahead[k]) <= MaxSamples
    BY ONLY <1>4, <1>5, FS_Subset
  <1>7. QED BY ONLY <1>6, FS_CardinalityType, PoolAssumption

LEMMA OneMore ==
  ASSUME NEW S, NEW x, IsFiniteSet(S), NEW n \in Nat, Cardinality(S) <= n
  PROVE  IsFiniteSet(S \cup {x}) /\ Cardinality(S \cup {x}) <= n + 1
  <1>1. Cardinality(S) \in Nat BY FS_CardinalityType
  <1>2. /\ IsFiniteSet(S \cup {x})
        /\ Cardinality(S \cup {x}) = IF x \in S THEN Cardinality(S) ELSE Cardinality(S) + 1
    BY FS_AddElement
  <1>3. QED BY <1>1, <1>2

LEMMA AtMostFour ==
  ASSUME NEW a, NEW b, NEW c, NEW d
  PROVE  /\ IsFiniteSet({a, b, c, d}) /\ Cardinality({a, b, c, d}) <= 4
         /\ IsFiniteSet({a, b, c}) /\ Cardinality({a, b, c}) <= 3
  <1>1. IsFiniteSet({a}) /\ Cardinality({a}) <= 1 BY FS_Singleton
  <1> DEFINE ab == {a} \cup {b}
             abc == ab \cup {c}
  <1>2. IsFiniteSet(ab) /\ Cardinality(ab) <= 2
    <2>1. IsFiniteSet({a} \cup {b}) /\ Cardinality({a} \cup {b}) <= 1 + 1
      BY ONLY <1>1, OneMore
    <2>2. QED BY <2>1
  <1>3. IsFiniteSet(abc) /\ Cardinality(abc) <= 3
    <2> HIDE DEF ab
    <2>1. IsFiniteSet(ab \cup {c}) /\ Cardinality(ab \cup {c}) <= 2 + 1
      BY ONLY <1>2, OneMore
    <2>2. QED BY <2>1
  <1>4. IsFiniteSet(abc \cup {d}) /\ Cardinality(abc \cup {d}) <= 4
    <2> HIDE DEF abc
    <2>1. IsFiniteSet(abc \cup {d}) /\ Cardinality(abc \cup {d}) <= 3 + 1
      BY ONLY <1>3, OneMore
    <2>2. QED BY <2>1
  <1>5. abc = {a, b, c} /\ abc \cup {d} = {a, b, c, d} OBVIOUS
  <1>6. QED BY <1>3, <1>4, <1>5

(* A part of a finite set has at most as many elements. *)
LEMMA PartOf ==
  ASSUME NEW S, NEW T, IsFiniteSet(S), T \subseteq S, NEW n \in Nat, Cardinality(S) <= n
  PROVE  IsFiniteSet(T) /\ Cardinality(T) \in 0..n
  <1>1. IsFiniteSet(T) /\ Cardinality(T) <= Cardinality(S) BY FS_Subset
  <1>2. Cardinality(T) \in Nat /\ Cardinality(S) \in Nat BY <1>1, FS_CardinalityType
  <1>3. QED BY <1>1, <1>2

LEMMA OthersAhead ==
  ASSUME IInv, IsFiniteSet(Workers)
  PROVE  /\ IsFiniteSet(Ahead.leave) /\ IsFiniteSet(Ahead.open) /\ IsFiniteSet(Ahead.caller)
         /\ Cardinality(Ahead.leave) \in 0..Cardinality(Workers)
         /\ Cardinality(Ahead.open) \in 0..4 /\ Cardinality(Ahead.caller) \in 0..3
  <1>1. Cardinality(Workers) \in Nat BY FS_CardinalityType
  <1>2. Ahead.leave \subseteq Workers BY DEF Ahead
  <1>3. Ahead.open \subseteq {"ctx", "inputChan", "outputChan", "done"} BY DEF Ahead
  <1>4. Ahead.caller \subseteq {"load", "drain", "select"} BY DEF Ahead
  <1>5. IsFiniteSet(Ahead.leave) /\ Cardinality(Ahead.leave) \in 0..Cardinality(Workers)
    BY ONLY <1>1, <1>2, PartOf, IsFiniteSet(Workers)
  <1>6. IsFiniteSet(Ahead.open) /\ Cardinality(Ahead.open) \in 0..4
    BY ONLY <1>3, PartOf, AtMostFour
  <1>7. IsFiniteSet(Ahead.caller) /\ Cardinality(Ahead.caller) \in 0..3
    BY ONLY <1>4, PartOf, AtMostFour
  <1>8. QED BY <1>5, <1>6, <1>7

(* A part that is not the whole has fewer elements. *)
LEMMA FewerOrSame ==
  ASSUME NEW S, NEW T, IsFiniteSet(S), T \subseteq S
  PROVE  /\ Cardinality(T) \in Nat /\ Cardinality(S) \in Nat
         /\ Cardinality(T) <= Cardinality(S)
         /\ T # S => Cardinality(T) < Cardinality(S)
  <1>1. /\ IsFiniteSet(T) /\ Cardinality(T) <= Cardinality(S)
        /\ Cardinality(S) = Cardinality(T) => S = T
    BY FS_Subset
  <1>2. Cardinality(T) \in Nat /\ Cardinality(S) \in Nat BY <1>1, FS_CardinalityType
  <1>3. QED BY <1>1, <1>2

LEMMA StepsAheadBounded ==
  ASSUME IInv, IsFiniteSet(Workers) PROVE StepsAhead \in 0..LongestCall
  <1>1. /\ Cardinality(Ahead.handOver) \in 0..MaxSamples
        /\ Cardinality(Ahead.check) \in 0..MaxSamples
        /\ Cardinality(Ahead.process) \in 0..MaxSamples
        /\ Cardinality(Ahead.emit) \in 0..MaxSamples
        /\ Cardinality(Ahead.collect) \in 0..MaxSamples
    <2>1. \A k \in {"handOver", "check", "process", "emit", "collect"} :
            Cardinality(Ahead[k]) \in 0..MaxSamples
      BY SamplesAhead
    <2>2. QED BY ONLY <2>1
  <1>2. Cardinality(Workers) \in Nat BY FS_CardinalityType
  <1>3. QED
    BY ONLY <1>1, <1>2, OthersAhead, PoolAssumption, IInv, IsFiniteSet(Workers)
       DEF StepsAhead, LongestCall, PoolAssumption

LEMMA StepsAheadFall ==
  ASSUME IInv, Next, IsFiniteSet(Workers) PROVE StepsAhead' < StepsAhead
  <1>1. /\ \A k \in DOMAIN Ahead : Ahead'[k] \subseteq Ahead[k]
        /\ Ahead' # Ahead
    BY StepAhead DEF Shrinks
  <1>2. \A k \in DOMAIN Ahead : IsFiniteSet(Ahead[k])
    <2>1. DOMAIN Ahead = {"handOver", "check", "process", "emit", "collect", "leave",
                          "open", "caller"}
      BY DEF Ahead
    <2>2. \A k \in {"handOver", "check", "process", "emit", "collect"} : IsFiniteSet(Ahead[k])
      BY SamplesAhead
    <2>3. QED BY <2>1, <2>2, OthersAhead
  <1>3. \A k \in DOMAIN Ahead :
          /\ Cardinality(Ahead'[k]) \in Nat /\ Cardinality(Ahead[k]) \in Nat
          /\ Cardinality(Ahead'[k]) <= Cardinality(Ahead[k])
          /\ Ahead'[k] # Ahead[k] => Cardinality(Ahead'[k]) < Cardinality(Ahead[k])
    BY ONLY <1>1, <1>2, FewerOrSame
  <1>4. \/ Ahead'.handOver # Ahead.handOver \/ Ahead'.check # Ahead.check
        \/ Ahead'.process # Ahead.process   \/ Ahead'.emit # Ahead.emit
        \/ Ahead'.collect # Ahead.collect   \/ Ahead'.leave # Ahead.leave
        \/ Ahead'.open # Ahead.open         \/ Ahead'.caller # Ahead.caller
    <2> DEFINE Whole(r) == [handOver |-> r.handOver, check |-> r.check,
                            process |-> r.process, emit |-> r.emit, collect |-> r.collect,
                            leave |-> r.leave, open |-> r.open, caller |-> r.caller]
    <2>1. Ahead = Whole(Ahead) BY DEF Ahead
    <2>2. Ahead' = Whole(Ahead') BY DEF Ahead
    <2>3. QED BY ONLY <2>1, <2>2, <1>1
  <1>5. DOMAIN Ahead = {"handOver", "check", "process", "emit", "collect", "leave",
                        "open", "caller"}
    BY DEF Ahead
  <1>6. QED BY ONLY <1>3, <1>4, <1>5 DEF StepsAhead

(* The number of steps ahead of a call only falls, from LongestCall at most. *)
THEOREM CallsAreBounded ==
  ASSUME IsFiniteSet(Workers)
  PROVE  Spec => /\ [](StepsAhead \in 0..LongestCall)
                 /\ [][StepsAhead' < StepsAhead]_vars
  <1>1. IInv => StepsAhead \in 0..LongestCall BY StepsAheadBounded
  <1>2. IInv /\ [Next]_vars => [StepsAhead' < StepsAhead]_vars BY StepsAheadFall
  <1>3. QED BY <1>1, <1>2, Invariance, PTL DEF Spec
=============================================================================
