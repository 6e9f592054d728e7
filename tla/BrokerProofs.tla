---------------------------- MODULE BrokerProofs ----------------------------
(***************************************************************************)
(* What the operations of the broker do to the messages, for any set of    *)
(* messages, processes and queues: the facts the pipelines' proofs cite.   *)
(***************************************************************************)
EXTENDS Broker, TLAPS

MsgType == msg \in [Messages -> Record]

(* A published message keeps its body and its retry counter for good. *)
Kept == \A k \in Messages : msg[k].at # "unsent" =>
            /\ msg'[k].at # "unsent"
            /\ msg'[k].body = msg[k].body
            /\ msg'[k].retry = msg[k].retry

(* Nothing is published, and no copy is lost. *)
NothingNew == \A k \in Messages : msg[k].at = "unsent" => msg'[k].at = "unsent"
StaysLive  == \A k \in Messages : Live(k) => Live(k)'

(* A step leaves every message but m alone. *)
Only(m) == \A k \in Messages \ {m} : msg'[k] = msg[k]

(* Publish turns one unsent message into a ready one. *)
LEMMA PublishFact ==
  ASSUME MsgType, NEW q \in Queues, NEW b \in Bodies, NEW r \in Nat, Publish(q, b, r)
  PROVE  /\ MsgType' /\ Kept /\ StaysLive
         /\ \E n \in Messages :
              /\ msg[n].at = "unsent" /\ Only(n)
              /\ msg'[n] = [at |-> "ready", queue |-> q, body |-> b,
                            retry |-> r, owner |-> NoProc]
  <1>1. Fresh \in Messages /\ msg[Fresh].at = "unsent"
      BY DEF Publish, Fresh
  <1> DEFINE new == [at |-> "ready", queue |-> q, body |-> b, retry |-> r, owner |-> NoProc]
  <1>2. msg' = [msg EXCEPT ![Fresh] = new] BY DEF Publish
  <1>3. new \in Record BY DEF Record
  <1>4. MsgType' BY <1>1, <1>2, <1>3 DEF MsgType
  <1>5. Only(Fresh) /\ msg'[Fresh] = new BY <1>1, <1>2 DEF MsgType, Only
  <1>6. Kept /\ StaysLive BY <1>1, <1>5 DEF Kept, StaysLive, Only, Live
  <1>7. QED BY <1>1, <1>4, <1>5, <1>6

(* Consume moves one message from ready to unacknowledged. *)
LEMMA ConsumeFact ==
  ASSUME MsgType, NEW p \in Procs, NEW m \in Messages, NEW q \in Queues, Consume(p, m, q)
  PROVE  /\ MsgType' /\ Kept /\ NothingNew /\ StaysLive /\ Only(m)
         /\ msg[m].at = "ready" /\ msg[m].queue = q
         /\ msg'[m].at = "unacked" /\ msg'[m].queue = q /\ msg'[m].owner = p
  <1> DEFINE rec == [msg[m] EXCEPT !.at = "unacked", !.owner = p]
  <1>1. msg[m] \in Record BY DEF MsgType
  <1>2. msg' = [msg EXCEPT ![m] = rec] BY <1>1 DEF Consume, MsgType, Record
  <1>3. rec \in Record BY <1>1 DEF Record
  <1>4. MsgType' /\ Only(m) /\ msg'[m] = rec BY <1>2, <1>3 DEF MsgType, Only
  <1>5. /\ rec.at = "unacked" /\ rec.queue = msg[m].queue /\ rec.owner = p
        /\ rec.body = msg[m].body /\ rec.retry = msg[m].retry
      BY <1>1 DEF Record
  <1>6. msg[m].at = "ready" /\ msg[m].queue = q BY DEF Consume
  <1>7. Kept /\ NothingNew /\ StaysLive
      BY <1>4, <1>5, <1>6 DEF Kept, NothingNew, StaysLive, Only, Live
  <1>8. QED BY <1>4, <1>5, <1>6, <1>7

(* What Ack, Requeue and DeadLetter have in common: the message may leave  *)
(* its holder, and nobody gets it.                                         *)
Answered(m) ==
    /\ MsgType' /\ Kept /\ NothingNew /\ Only(m)
    /\ msg'[m] = msg[m] \/ msg'[m].owner = NoProc

LEMMA AckFact ==
  ASSUME MsgType, NEW p \in Procs, NEW m \in Messages, NEW q \in Queues, Ack(p, m, q)
  PROVE  Answered(m) /\ ~Holds(p, m, q)'
  <1> DEFINE rec == [msg[m] EXCEPT !.at = "gone", !.owner = NoProc]
  <1>1. msg[m] \in Record BY DEF MsgType
  <1>2. CASE ~Holds(p, m, q)
      BY <1>2 DEF Ack, Answered, MsgType, Kept, NothingNew, Only, Holds
  <1>3. CASE Holds(p, m, q)
    <2>1. msg' = [msg EXCEPT ![m] = rec] BY <1>1, <1>3 DEF Ack, MsgType, Record
    <2>2. rec \in Record BY <1>1 DEF Record
    <2>3. MsgType' /\ Only(m) /\ msg'[m] = rec BY <2>1, <2>2 DEF MsgType, Only
    <2>4. /\ rec.at = "gone" /\ rec.owner = NoProc
          /\ rec.body = msg[m].body /\ rec.retry = msg[m].retry
        BY <1>1 DEF Record
    <2>5. QED BY <1>3, <2>3, <2>4 DEF Answered, Kept, NothingNew, Only, Holds
  <1>4. QED BY <1>2, <1>3

(* A message put back or dead-lettered is as live as before. *)
LEMMA RequeueFact ==
  ASSUME MsgType, NEW p \in Procs, NEW m \in Messages, NEW q \in Queues, Requeue(p, m, q)
  PROVE  Answered(m) /\ ~Holds(p, m, q)' /\ StaysLive
  <1> DEFINE rec == [msg[m] EXCEPT !.at = "ready", !.owner = NoProc]
  <1>1. msg[m] \in Record BY DEF MsgType
  <1>2. CASE ~Holds(p, m, q)
      BY <1>2 DEF Requeue, Answered, MsgType, Kept, NothingNew, Only, Holds, StaysLive, Live
  <1>3. CASE Holds(p, m, q)
    <2>1. msg' = [msg EXCEPT ![m] = rec] BY <1>1, <1>3 DEF Requeue, MsgType, Record
    <2>2. rec \in Record BY <1>1 DEF Record
    <2>3. MsgType' /\ Only(m) /\ msg'[m] = rec BY <2>1, <2>2 DEF MsgType, Only
    <2>4. /\ rec.at = "ready" /\ rec.owner = NoProc
          /\ rec.body = msg[m].body /\ rec.retry = msg[m].retry
        BY <1>1 DEF Record
    <2>5. QED
        BY <1>3, <2>3, <2>4 DEF Answered, Kept, NothingNew, Only, Holds, StaysLive, Live
  <1>4. QED BY <1>2, <1>3

LEMMA DeadLetterFact ==
  ASSUME MsgType, NEW p \in Procs, NEW m \in Messages, NEW q \in Queues,
         NEW d \in Queues, DeadLetter(p, m, q, d)
  PROVE  Answered(m) /\ ~Holds(p, m, q)' /\ StaysLive
  <1> DEFINE rec == [msg[m] EXCEPT !.at = "ready", !.owner = NoProc, !.queue = d]
  <1>1. msg[m] \in Record BY DEF MsgType
  <1>2. CASE ~Holds(p, m, q)
      BY <1>2 DEF DeadLetter, Answered, MsgType, Kept, NothingNew, Only, Holds, StaysLive, Live
  <1>3. CASE Holds(p, m, q)
    <2>1. msg' = [msg EXCEPT ![m] = rec] BY <1>1, <1>3 DEF DeadLetter, MsgType, Record
    <2>2. rec \in Record BY <1>1 DEF Record
    <2>3. MsgType' /\ Only(m) /\ msg'[m] = rec BY <2>1, <2>2 DEF MsgType, Only
    <2>4. /\ rec.at = "ready" /\ rec.owner = NoProc
          /\ rec.body = msg[m].body /\ rec.retry = msg[m].retry
        BY <1>1 DEF Record
    <2>5. QED
        BY <1>3, <2>3, <2>4 DEF Answered, Kept, NothingNew, Only, Holds, StaysLive, Live
  <1>4. QED BY <1>2, <1>3

(* Closing channels of p loses no message, and takes from p exactly what   *)
(* it held on them.                                                        *)
LEMMA ReleaseFact ==
  ASSUME MsgType, BrokerAssumption, NEW p \in Procs, NEW qs \in SUBSET Queues,
         Release(p, qs)
  PROVE  /\ MsgType' /\ Kept /\ NothingNew /\ StaysLive
         /\ \A r \in Procs, m \in Messages, q \in Queues :
              Holds(r, m, q)' => Holds(r, m, q) /\ (r = p => q \notin qs)
  <1> DEFINE rec(m) == [msg[m] EXCEPT !.at = "ready", !.owner = NoProc]
  <1>1. \A m \in Messages :
          /\ msg[m] \in Record /\ rec(m) \in Record
          /\ rec(m).at = "ready" /\ rec(m).owner = NoProc
          /\ rec(m).body = msg[m].body /\ rec(m).retry = msg[m].retry
      BY DEF MsgType, Record
  <1>2. \A m \in Messages : msg'[m] = IF m \in Held(p, qs) THEN rec(m) ELSE msg[m]
      BY DEF Release
  <1>3. MsgType' BY <1>1, <1>2 DEF Release, MsgType
  <1>4. Kept /\ NothingNew /\ StaysLive
      BY <1>1, <1>2 DEF Kept, NothingNew, StaysLive, Live, Held, Holds
  <1>5. ASSUME NEW r \in Procs, NEW m \in Messages, NEW q \in Queues, Holds(r, m, q)'
        PROVE  Holds(r, m, q) /\ (r = p => q \notin qs)
    <2>1. m \notin Held(p, qs)
        BY <1>1, <1>2, <1>5 DEF Holds
    <2>2. Holds(r, m, q) BY <1>2, <1>5, <2>1 DEF Holds
    <2>3. QED BY <2>1, <2>2 DEF Held
  <1>6. QED BY <1>3, <1>4, <1>5

(* The same operations seen from the message: an answer by anyone but the  *)
(* holder changes nothing, and the holder's does what its name says.       *)
Takes(p, m, q) == Only(m) /\ (Holds(p, m, q) \/ msg' = msg)

LEMMA AckExact ==
  ASSUME MsgType, NEW p \in Procs, NEW m \in Messages, NEW q \in Queues, Ack(p, m, q)
  PROVE  Takes(p, m, q) /\ (Holds(p, m, q) => msg'[m].at = "gone")
  <1>1. msg[m] \in Record BY DEF MsgType
  <1>2. CASE ~Holds(p, m, q) BY <1>2 DEF Ack, Takes, Only
  <1>3. CASE Holds(p, m, q)
    <2>1. msg' = [msg EXCEPT ![m] = [msg[m] EXCEPT !.at = "gone", !.owner = NoProc]]
        BY <1>1, <1>3 DEF Ack, MsgType, Record
    <2>2. QED BY <1>1, <1>3, <2>1 DEF Takes, Only, MsgType, Record
  <1>4. QED BY <1>2, <1>3

LEMMA RequeueExact ==
  ASSUME MsgType, NEW p \in Procs, NEW m \in Messages, NEW q \in Queues, Requeue(p, m, q)
  PROVE  /\ Takes(p, m, q)
         /\ Holds(p, m, q) => msg'[m].at = "ready" /\ msg'[m].queue = q
  <1>1. msg[m] \in Record BY DEF MsgType
  <1>2. CASE ~Holds(p, m, q) BY <1>2 DEF Requeue, Takes, Only
  <1>3. CASE Holds(p, m, q)
    <2>1. msg' = [msg EXCEPT ![m] = [msg[m] EXCEPT !.at = "ready", !.owner = NoProc]]
        BY <1>1, <1>3 DEF Requeue, MsgType, Record
    <2>2. QED BY <1>1, <1>3, <2>1 DEF Takes, Only, MsgType, Record, Holds
  <1>4. QED BY <1>2, <1>3

LEMMA DeadLetterExact ==
  ASSUME MsgType, NEW p \in Procs, NEW m \in Messages, NEW q \in Queues,
         NEW d \in Queues, DeadLetter(p, m, q, d)
  PROVE  /\ Takes(p, m, q)
         /\ Holds(p, m, q) => msg'[m].at = "ready" /\ msg'[m].queue = d
  <1>1. msg[m] \in Record BY DEF MsgType
  <1>2. CASE ~Holds(p, m, q) BY <1>2 DEF DeadLetter, Takes, Only
  <1>3. CASE Holds(p, m, q)
    <2>1. msg' = [msg EXCEPT ![m] = [msg[m] EXCEPT !.at = "ready", !.owner = NoProc,
                                                   !.queue = d]]
        BY <1>1, <1>3 DEF DeadLetter, MsgType, Record
    <2>2. QED BY <1>1, <1>3, <2>1 DEF Takes, Only, MsgType, Record
  <1>4. QED BY <1>2, <1>3

(* A message not held on a closed channel does not notice.                 *)
LEMMA ReleaseExact ==
  ASSUME MsgType, NEW p \in Procs, NEW qs \in SUBSET Queues, Release(p, qs)
  PROVE  \A k \in Messages :
           /\ k \notin Held(p, qs) => msg'[k] = msg[k]
           /\ msg'[k].queue = msg[k].queue
           /\ Live(k)' => Live(k)
  <1>1. \A k \in Messages : msg[k] \in Record BY DEF MsgType
  <1>2. \A k \in Messages :
          msg'[k] = IF k \in Held(p, qs)
                    THEN [msg[k] EXCEPT !.at = "ready", !.owner = NoProc] ELSE msg[k]
      BY DEF Release
  <1>3. QED BY <1>1, <1>2 DEF Record, Held, Holds, Live
=============================================================================
