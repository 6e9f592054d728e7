--------------------------- MODULE MCEvalPipeline ---------------------------
(* Instances of EvalPipeline for TLC. *)
EXTENDS EvalPipeline, TLC

MCQueues == {EvalQueueName, EvalDLQName}

(* Tasks and processes are interchangeable; Messages are not, because a    *)
(* Publish takes the first fresh one.                                      *)
Symmetry == Permutations(Bodies) \cup Permutations(Procs)
=============================================================================
