------------------------------- MODULE Broker -------------------------------
(***************************************************************************)
(* RabbitMQ as the workers see it through streadway/amqp.  It is external: *)
(* nothing of it is under src/, so it is modelled by what the code relies  *)
(* on: durable queues, persistent messages, manual acknowledgement (every  *)
(* Consume call passes autoAck = false) and the dead-letter route declared *)
(* for eval_jobs.                                                          *)
(*                                                                         *)
(* A message is an element of Messages.  It keeps its identity when it is  *)
(* redelivered or dead-lettered; a Publish takes a fresh one.  Messages of *)
(* one queue may be delivered in any order.                                *)
(***************************************************************************)
EXTENDS Naturals

CONSTANTS Messages,     \* identities: bounds how many publications there are
          Bodies,       \* what a message may carry: the job it asks for
          NoBody,       \* the body of a message that was never published
          Procs,        \* the worker processes
          NoProc,       \* the owner of a message nobody holds
          Queues        \* the queue names

ASSUME BrokerAssumption == NoBody \notin Bodies /\ NoProc \notin Procs

VARIABLE msg            \* msg[m]: the broker's record of message m

(* The x-retry header, absent (read as 0) on the first publication. *)
Record == [at : {"unsent", "ready", "unacked", "gone"}, queue : Queues \cup {"none"},
           body : Bodies \cup {NoBody}, retry : Nat, owner : Procs \cup {NoProc}]

BrokerInit ==
    msg = [m \in Messages |-> [at |-> "unsent", queue |-> "none", body |-> NoBody,
                               retry |-> 0, owner |-> NoProc]]

-----------------------------------------------------------------------------
Live(m) == msg[m].at \in {"ready", "unacked"}

(* An acknowledgement takes effect only on the channel the message was     *)
(* delivered on: once the channel is closed the broker has requeued it.    *)
Holds(p, m, q) == /\ msg[m].at = "unacked"
                  /\ msg[m].owner = p
                  /\ msg[m].queue = q

Fresh == CHOOSE m \in Messages : msg[m].at = "unsent"

Publish(q, b, r) ==
    /\ \E m \in Messages : msg[m].at = "unsent"
    /\ msg' = [msg EXCEPT ![Fresh] = [at |-> "ready", queue |-> q, body |-> b,
                                      retry |-> r, owner |-> NoProc]]

Consume(p, m, q) ==
    /\ msg[m].at = "ready"
    /\ msg[m].queue = q
    /\ msg' = [msg EXCEPT ![m].at = "unacked", ![m].owner = p]

(* Ack(false), Nack(false, true) and Nack(false, false) of a delivery of   *)
(* queue q; the last one routes the message to the dead-letter queue dlq.  *)
Ack(p, m, q) ==
    msg' = IF Holds(p, m, q)
           THEN [msg EXCEPT ![m].at = "gone", ![m].owner = NoProc] ELSE msg

Requeue(p, m, q) ==
    msg' = IF Holds(p, m, q)
           THEN [msg EXCEPT ![m].at = "ready", ![m].owner = NoProc] ELSE msg

DeadLetter(p, m, q, dlq) ==
    msg' = IF Holds(p, m, q)
           THEN [msg EXCEPT ![m].at = "ready", ![m].owner = NoProc, ![m].queue = dlq]
           ELSE msg

(* The channels of p that consume the queues in qs are closed. *)
Held(p, qs) == {m \in Messages : \E q \in qs : Holds(p, m, q)}

Release(p, qs) ==
    msg' = [m \in Messages |-> IF m \in Held(p, qs)
                               THEN [msg[m] EXCEPT !.at = "ready", !.owner = NoProc]
                               ELSE msg[m]]
=============================================================================
