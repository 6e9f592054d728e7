--------------------------- MODULE TaskLifecycle ---------------------------
(***************************************************************************)
(* What the evaluation pipeline promises about its tasks, and the dataset  *)
(* import about its jobs, without queues, workers or retries.  A task is   *)
(* submitted, waits as outstanding work, gets a verdict and is finished;   *)
(* work is never dropped before there is a verdict, and a verdict is final *)
(* unless the work came back to the queue.                                 *)
(***************************************************************************)
CONSTANT Tasks

VARIABLES
    verdict,      \* "none" before the submission, then "pending", then one
                  \* of Verdicts
    outstanding,  \* outstanding[t]: somebody still has to deal with t
    revisable     \* the tasks whose work came back

vars == <<verdict, outstanding, revisable>>

Verdicts == {"success", "failed"}

Init ==
    /\ verdict = [t \in Tasks |-> "none"]
    /\ outstanding = [t \in Tasks |-> FALSE]
    /\ revisable = {}

Submit(t) ==
    /\ verdict[t] = "none"
    /\ verdict' = [verdict EXCEPT ![t] = "pending"]
    /\ UNCHANGED <<outstanding, revisable>>

Accept(t) ==
    /\ verdict[t] = "pending"
    /\ outstanding' = [outstanding EXCEPT ![t] = TRUE]
    /\ UNCHANGED <<verdict, revisable>>

(* Only outstanding work is judged, and judged again only if it came back. *)
Settle(t) ==
    /\ outstanding[t] \/ t \in revisable
    /\ revisable' \in {revisable, revisable \cup {t}}
    /\ verdict[t] = "pending" \/ t \in revisable'
    /\ \E v \in Verdicts : verdict' = [verdict EXCEPT ![t] = v]
    /\ UNCHANGED outstanding

Finish(t) ==
    /\ verdict[t] \in Verdicts
    /\ outstanding' = [outstanding EXCEPT ![t] = FALSE]
    /\ UNCHANGED <<verdict, revisable>>

(* A consumer is lost, and everything it had in hand comes back. *)
ComeBack ==
    /\ \E ts \in SUBSET {t \in Tasks : outstanding[t]} : revisable' = revisable \cup ts
    /\ UNCHANGED <<verdict, outstanding>>

Next == ComeBack \/ \E t \in Tasks : Submit(t) \/ Accept(t) \/ Settle(t) \/ Finish(t)

Spec == Init /\ [][Next]_vars
=============================================================================
