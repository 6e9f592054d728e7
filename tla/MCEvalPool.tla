----------------------------- MODULE MCEvalPool -----------------------------
(* Instances of EvalPool for TLC; the temporal properties rule out symmetry. *)
EXTENDS EvalPool, TLC
=============================================================================
