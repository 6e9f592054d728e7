----------------------------- MODULE RunOutcome -----------------------------
(***************************************************************************)
(* What EvalPipeline relies on when it treats a call of RunEvalTask as one *)
(* step: the call is running until it has one of four outcomes, which is   *)
(* final; before the timeout it succeeds only with every answer and does   *)
(* not fail once its samples are loaded.                                   *)
(***************************************************************************)
EXTENDS Naturals

CONSTANT MaxSamples

VARIABLES
    timeUp,       \* the task's context has ended
    loaded,       \* the samples are known
    unanswered,   \* the samples without an answer in the result
    outcome       \* "running", then "ok", "err", "loadErr" or "panic"

vars == <<timeUp, loaded, unanswered, outcome>>

Init == ~timeUp /\ ~loaded /\ unanswered = {} /\ outcome = "running"

TimeOut ==
    /\ ~timeUp /\ timeUp'
    /\ UNCHANGED <<loaded, unanswered, outcome>>

Ask ==
    /\ ~loaded /\ loaded'
    /\ \E n \in 0..MaxSamples : unanswered' = 1..n
    /\ UNCHANGED <<timeUp, outcome>>

Answer ==
    /\ \E s \in unanswered : unanswered' = unanswered \ {s}
    /\ UNCHANGED <<timeUp, loaded, outcome>>

End ==
    /\ \/ outcome' = "ok" /\ loaded /\ (timeUp \/ unanswered = {})
       \/ outcome' = "err" /\ loaded /\ timeUp
       \/ outcome' = "loadErr" /\ ~loaded
       \/ outcome' = "panic"
    /\ UNCHANGED <<timeUp, loaded, unanswered>>

Next == outcome = "running" /\ (TimeOut \/ Ask \/ Answer \/ End)

Spec == Init /\ [][Next]_vars
=============================================================================
