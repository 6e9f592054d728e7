-------------------------------- MODULE Feed --------------------------------
(***************************************************************************)
(* What the WebSocket hub promises to each browser, without channels,      *)
(* buffers or pumps: from the moment it joins it is owed every             *)
(* notification, in order; it is given up only when it is Slack            *)
(* notifications or more behind, and even then it may read what it was     *)
(* owed by that time.  Nothing is promised to a browser that left.         *)
(***************************************************************************)
EXTENDS Naturals, Sequences

CONSTANTS Readers, Slack

VARIABLES
    published,  \* how many notifications there have been
    stage,      \* stage[r]: "away", "on", "off" (given up) or "gone" (left)
    base,       \* base[r]: published when r joined
    owed,       \* owed[r]: how many notifications r is to get
    got         \* got[r]: what r got

vars == <<published, stage, base, owed, got>>

Init ==
    /\ published = 0
    /\ stage = [r \in Readers |-> "away"]
    /\ base = [r \in Readers |-> 0]
    /\ owed = [r \in Readers |-> 0]
    /\ got = [r \in Readers |-> <<>>]

Join(r) ==
    /\ stage[r] = "away"
    /\ stage' = [stage EXCEPT ![r] = "on"]
    /\ base' = [base EXCEPT ![r] = published]
    /\ UNCHANGED <<published, owed, got>>

Behind(r) == owed[r] >= Len(got[r]) + Slack

(* Whoever is on is owed the notification, or so far behind as to be given up. *)
Publish ==
    /\ published' = published + 1
    /\ \E slow \in SUBSET {r \in Readers : stage[r] = "on" /\ Behind(r)} :
         /\ stage' = [r \in Readers |-> IF r \in slow THEN "off" ELSE stage[r]]
         /\ owed' = [r \in Readers |-> IF stage[r] = "on" /\ r \notin slow
                                       THEN owed[r] + 1 ELSE owed[r]]
    /\ UNCHANGED <<base, got>>

Deliver(r) ==
    /\ stage[r] \in {"on", "off"} /\ Len(got[r]) < owed[r]
    /\ got' = [got EXCEPT ![r] = Append(@, base[r] + Len(@) + 1)]
    /\ UNCHANGED <<published, stage, base, owed>>

Leave(r) ==
    /\ stage' = [stage EXCEPT ![r] = "gone"]
    /\ base' = [base EXCEPT ![r] = 0]
    /\ owed' = [owed EXCEPT ![r] = 0]
    /\ UNCHANGED <<published, got>>

Next == Publish \/ \E r \in Readers : Join(r) \/ Deliver(r) \/ Leave(r)

Spec == Init /\ [][Next]_vars
=============================================================================
