------------------------ MODULE DatasetPipelineProofs ------------------------
(***************************************************************************)
(* The safety of the import of datasets, for every set of datasets,        *)
(* messages and processes and every limit.                                 *)
(***************************************************************************)
EXTENDS DatasetPipeline, BrokerProofs, FiniteSetTheorems, WellFoundedInduction

(* What ValidateJsonKeys compares, the number of keys and each key of the  *)
(* later object, is the equality of two finite sets.                       *)
LEMMA ConsistentIsEqual ==
  ASSUME NEW a \in SUBSET Keys, NEW b \in SUBSET Keys
  PROVE  Consistent(a, b) <=> a = b
  <1>1. IsFiniteSet(a) BY FileAssumption, FS_Subset DEF FileAssumption
  <1>2. Consistent(a, b) => a = b BY <1>1, FS_Subset DEF Consistent
  <1>3. QED BY <1>2 DEF Consistent

(* The first row exists: a set of naturals has a least element. *)
LEMMA FirstIsRow ==
  ASSUME NEW f \in Seq(Line), NEW k \in Rows(f) PROVE First(f) \in Rows(f)
  <1>1. Rows(f) \subseteq Nat /\ Rows(f) # {} BY DEF Rows
  <1>2. PICK i \in Rows(f) : \A j \in Rows(f) : ~(<<j, i>> \in OpToRel(<, Nat))
      BY <1>1, NatLessThanWellFounded, WFMin
  <1>3. \A j \in Rows(f) : i <= j
    <2>1. \A j \in Rows(f) : <<j, i>> \in OpToRel(<, Nat) <=> j < i
        BY <1>1 DEF OpToRel
    <2>2. \A j \in Rows(f) : ~(j < i) BY <1>2, <2>1, Zenon
    <2>3. QED BY <1>1, <2>2
  <1>4. QED BY <1>3 DEF First

(* The check of a file accepts what it is meant to accept, nothing else:   *)
(* files whose rows are objects with the same keys.                        *)
THEOREM ValidationIsUniformity == \A f \in Files : ValidateJsonKeys(f) <=> Uniform(f)
  <1> SUFFICES ASSUME NEW f \in Seq(Line) PROVE ValidateJsonKeys(f) <=> Uniform(f)
      BY FileAssumption DEF FileAssumption
  <1>1. \A i \in Rows(f) : f[i].keys \in SUBSET Keys
    <2>1. \A i \in Rows(f) : f[i] \in Line BY DEF Rows
    <2>2. QED BY <2>1 DEF Line
  <1>2. \A i \in Rows(f) : First(f) \in Rows(f) BY FirstIsRow
  <1>3. \A i \in Rows(f) :
          Consistent(f[First(f)].keys, f[i].keys) <=> f[First(f)].keys = f[i].keys
      BY <1>1, <1>2, ConsistentIsEqual
  <1>4. QED BY <1>2, <1>3 DEF ValidateJsonKeys, Uniform

(* Only published jobs have messages, and only sent messages are handled. *)
Sent ==
    /\ \A m \in Messages : msg[m].at # "unsent" =>
         JobOf(m) \in Datasets /\ api[JobOf(m)] = "published"
    /\ \A p \in Procs, m \in Messages : handler[p][m] # "idle" => msg[m].at # "unsent"

(* A job is published once: its message is the only one it ever has. *)
Unique ==
    \A m, k \in Messages :
        msg[m].at # "unsent" /\ msg[k].at # "unsent" /\ JobOf(m) = JobOf(k) => m = k

(* The object is stored before anything refers to it. *)
Uploaded == \A d \in Datasets :
    api[d] \in {"uploaded", "committed", "published"} => file[d] # NoFile

(* Before its job is published nothing of a dataset is visible. *)
Blank == \A d \in Datasets : api[d] # "published" => ~valid[d] /\ items[d] = 0

(* How far a handler has come says what it has seen and done. *)
Vetted == {"mark", "insert", "complete", "ack"}
Done   == {"complete", "ack"}
Progress ==
    \A p \in Procs, m \in Messages :
        /\ handler[p][m] \in Vetted => Good(JobOf(m))
        /\ handler[p][m] \in Done => items[JobOf(m)] > 0

(* A job that was never put back is delivered once, to one handler, which  *)
(* finds no items of an earlier one.                                       *)
FirstTime ==
    \A m \in Messages : JobOf(m) \notin disturbed =>
        /\ \A p \in Procs : handler[p][m] \notin Done \cup {"idle"} => items[JobOf(m)] = 0
        /\ msg[m].at = "ready" =>
             items[JobOf(m)] = 0 /\ \A p \in Procs : handler[p][m] = "idle"
        /\ \A p, r \in Procs :
             handler[p][m] # "idle" /\ handler[r][m] # "idle" => p = r

Flow == /\ Sent /\ Unique /\ Uploaded /\ Blank /\ Progress /\ FirstTime
        /\ NoLostJob /\ OnlyValidated /\ ImportedOnce
IInv == TypeOK /\ Flow

-----------------------------------------------------------------------------
(* Nothing has happened yet. *)
LEMMA InitIInv == Init => IInv
  <1> SUFFICES ASSUME Init PROVE IInv OBVIOUS
  <1> USE DatasetAssumption DEF DatasetAssumption, Init, BrokerInit
  <1>1. TypeOK BY DEF TypeOK, Record
  <1>2. \A m \in Messages : msg[m].at = "unsent" OBVIOUS
  <1>3. Flow
    BY <1>2 DEF Flow, Sent, Unique, Uploaded, Blank, Progress, FirstTime, Vetted, Done, NoLostJob,
                OnlyValidated, ImportedOnce, Holds
  <1>4. QED BY <1>1, <1>3 DEF IInv

(* A step that touches neither the request nor the object.                 *)
LEMMA SameUploads ==
  ASSUME Uploaded, api' = api, file' = file PROVE Uploaded'
  BY DEF Uploaded

(* The request: nothing of a published dataset, and nothing visible. *)
LEMMA RequestStep ==
  ASSUME IInv, NEW d \in Datasets, PutFile(d) \/ CommitDataset(d) \/ AbandonDataset(d)
  PROVE  IInv'
  <1> USE DEF IInv, Good
  <1>1. /\ api[d] # "published" /\ api'[d] # "published"
        /\ \A e \in Datasets \ {d} : /\ api'[e] = api[e] /\ file'[e] = file[e]
                                     /\ job'[e] = job[e]
        /\ job'[d] # "completed" \/ job'[d] = job[d]
        /\ UNCHANGED <<valid, items, msg, proc, handler, disturbed>>
    <2> USE DEF TypeOK, tables
    <2>1. CASE PutFile(d) BY <2>1 DEF PutFile
    <2>2. CASE CommitDataset(d) BY <2>2 DEF CommitDataset
    <2>3. CASE AbandonDataset(d) BY <2>3 DEF AbandonDataset
    <2>4. QED BY <2>1, <2>2, <2>3
  <1>2. TypeOK'
    <2> USE DEF TypeOK, tables, budget
    <2>1. CASE PutFile(d) BY <2>1 DEF PutFile
    <2>2. CASE CommitDataset(d) BY <2>2 DEF CommitDataset
    <2>3. CASE AbandonDataset(d) BY <2>3 DEF AbandonDataset
    <2>4. QED BY <2>1, <2>2, <2>3
  <1>3. ~valid[d] /\ items[d] = 0 BY <1>1 DEF Flow, Blank
  <1>4. \A m \in Messages : msg[m].at # "unsent" => JobOf(m) \in Datasets \ {d}
      BY <1>1 DEF Flow, Sent
  <1>5. Sent' /\ Unique' BY <1>1, <1>4 DEF Flow, Sent, Unique, JobOf
  <1>6. Blank' BY <1>1, <1>3 DEF Flow, Blank
  <1>7. Progress'
      BY <1>1, <1>4 DEF Flow, Sent, Progress, JobOf, Vetted, Done
  <1>8. FirstTime' BY <1>1 DEF Flow, FirstTime, JobOf
  <1>9. NoLostJob' BY <1>1 DEF Flow, NoLostJob, Holds, Live, JobOf
  <1>10. OnlyValidated' BY <1>1, <1>3 DEF Flow, OnlyValidated
  <1>11. ImportedOnce' BY <1>1 DEF Flow, ImportedOnce
  <1>12. Uploaded'
      BY DatasetAssumption
      DEF PutFile, CommitDataset, AbandonDataset, tables, TypeOK, Flow, Uploaded,
          DatasetAssumption
  <1>13. QED BY <1>2, <1>5, <1>6, <1>7, <1>8, <1>9, <1>10, <1>11, <1>12 DEF Flow

(* The publication gives the job its first and only message. *)
LEMMA PublishStep ==
  ASSUME IInv, NEW d \in Datasets, PublishJob(d) PROVE IInv'
  <1> USE DEF IInv, Good
  <1>1. /\ api[d] = "committed" /\ api' = [api EXCEPT ![d] = "published"]
        /\ Publish(DatasetQueueName, d, 0) /\ DatasetQueueName \in Queues /\ MsgType
        /\ UNCHANGED <<file, job, valid, items, proc, handler, disturbed, faults, crashes>>
      BY DatasetAssumption
         DEF PublishJob, tables, budget, TypeOK, MsgType, DatasetAssumption
  <1>2. MsgType' /\ Kept /\ StaysLive BY <1>1, PublishFact DEF Datasets
  <1>3. PICK n \in Messages :
          /\ msg[n].at = "unsent" /\ Only(n)
          /\ msg'[n] = [at |-> "ready", queue |-> DatasetQueueName, body |-> d,
                        retry |-> 0, owner |-> NoProc]
      BY <1>1, PublishFact DEF Datasets
  <1>4. \A k \in Messages \ {n} : msg'[k] = msg[k] BY <1>3 DEF Only
  <1>5. /\ msg'[n].at = "ready" /\ JobOf(n)' = d /\ msg'[n].at # "unacked"
        /\ \A p \in Procs : handler[p][n] = "idle"
      BY <1>3 DEF JobOf, Flow, Sent
  <1>6. \A k \in Messages : msg[k].at # "unsent" => JobOf(k) # d
      BY <1>1 DEF Flow, Sent
  <1>7. ~valid[d] /\ items[d] = 0 BY <1>1 DEF Flow, Blank
  <1>8. TypeOK' BY <1>1, <1>2 DEF TypeOK, MsgType
  <1>9. api'[d] = "published" /\ \A e \in Datasets \ {d} : api'[e] = api[e]
      BY <1>1 DEF TypeOK
  <1>10. Sent' BY <1>1, <1>4, <1>5, <1>9 DEF Flow, Sent, JobOf
  <1>11. Unique' BY <1>4, <1>5, <1>6 DEF Flow, Unique, JobOf
  <1>12. Blank' BY <1>1, <1>9 DEF Flow, Blank
  <1>13. Progress'
      BY <1>1, <1>4, <1>5 DEF Flow, Progress, JobOf, Vetted, Done
  <1>14. FirstTime' BY <1>1, <1>4, <1>5, <1>7 DEF Flow, FirstTime, JobOf
  <1>15. NoLostJob'
    <2>1. \A e \in Datasets : api'[e] = "published" /\ items'[e] = 0 =>
            \E m \in Messages : Live(m)' /\ JobOf(m)' = e
      <3>1. Live(n)' /\ JobOf(n)' = d BY <1>5 DEF Live
      <3>2. \A m \in Messages : Live(m) => Live(m)' /\ JobOf(m)' = JobOf(m)
          BY <1>2 DEF Kept, StaysLive, Live, JobOf
      <3>3. QED BY <1>1, <1>9, <3>1, <3>2 DEF Flow, NoLostJob
    <2>2. \A p \in Procs, m \in Messages :
            Holds(p, m, DatasetQueueName)' => proc'[p] /\ handler'[p][m] # "idle"
        BY <1>1, <1>4, <1>5 DEF Flow, NoLostJob, Holds
    <2>3. QED BY <2>1, <2>2 DEF NoLostJob
  <1>16. OnlyValidated' BY <1>1, <1>7, <1>9 DEF Flow, OnlyValidated
  <1>17. ImportedOnce' BY <1>1 DEF Flow, ImportedOnce
  <1>18. Uploaded' BY <1>1, <1>9 DEF Flow, Uploaded
  <1>19. QED
      BY <1>8, <1>10, <1>11, <1>12, <1>13, <1>14, <1>15, <1>16, <1>17, <1>18 DEF Flow

HandlerPC == {"idle", "load", "validate", "mark", "insert", "complete", "ack"}

(* A handler moves on, and no other does. *)
LEMMA GotoFact ==
  ASSUME TypeOK, NEW p \in Procs, NEW m \in Messages, NEW pc \in HandlerPC, Goto(p, m, pc)
  PROVE  /\ handler' \in [Procs -> [Messages -> HandlerPC]]
         /\ proc' = proc /\ handler'[p][m] = pc
         /\ \A r \in Procs, k \in Messages :
              r # p \/ k # m => handler'[r][k] = handler[r][k]
  BY DEF TypeOK, Goto, HandlerPC

(* The work on a delivery, between its receipt and its answer. *)
LEMMA WorkStep ==
  ASSUME IInv, NEW p \in Procs, NEW m \in Messages,
         \/ LoadJob(p, m) \/ Validate(p, m) \/ MarkValid(p, m)
         \/ InsertItems(p, m) \/ Complete(p, m)
  PROVE  IInv'
  <1> USE DEF IInv, Good
  <1> DEFINE j == JobOf(m)
             was == handler[p][m]
             pc == handler'[p][m]
  <1>1. /\ was # "idle" /\ UNCHANGED <<api, file, msg, disturbed, faults, crashes>>
        /\ \E next \in HandlerPC : Goto(p, m, next)
      BY DEF LoadJob, Validate, MarkValid, InsertItems, Complete, tables, budget, HandlerPC
  <1>2. /\ handler' \in [Procs -> [Messages -> HandlerPC]] /\ proc' = proc
        /\ \A r \in Procs, k \in Messages :
             r # p \/ k # m => handler'[r][k] = handler[r][k]
      BY <1>1, GotoFact
  <1>3. msg[m].at # "unsent" /\ j \in Datasets /\ api[j] = "published"
      BY <1>1 DEF Flow, Sent
  <1>4. /\ \A d \in Datasets \ {j} : /\ items'[d] = items[d] /\ valid'[d] = valid[d]
                                     /\ job'[d] = job[d]
        /\ \/ /\ was = "load" /\ pc = "validate"
              /\ UNCHANGED <<items, valid, job>>
           \/ /\ was = "validate" /\ pc = "mark" /\ Good(j)
              /\ UNCHANGED <<items, valid, job>>
           \/ /\ was = "mark" /\ pc = "insert" /\ UNCHANGED <<items, job>>
           \/ /\ was = "insert" /\ pc = "complete" /\ items'[j] = items[j] + 1
              /\ UNCHANGED <<valid, job>>
           \/ /\ was = "complete" /\ pc = "ack" /\ UNCHANGED <<items, valid>>
    <2>1. CASE LoadJob(p, m)
        BY <2>1, GotoFact DEF LoadJob, HandlerPC, tables
    <2>2. CASE Validate(p, m)
      <3>1. /\ was = "validate" /\ pc = "mark" /\ UNCHANGED <<items, valid, job>>
            /\ ValidateJsonKeys(file[j])
          BY <2>2, GotoFact DEF Validate, HandlerPC, tables
      <3>2. file[j] # NoFile /\ file[j] \in Files
          BY <1>3 DEF Flow, Uploaded, TypeOK
      <3>3. Good(j) BY <3>1, <3>2, ValidationIsUniformity
      <3>4. QED BY <3>1, <3>3
    <2>3. CASE MarkValid(p, m)
        BY <2>3, GotoFact DEF MarkValid, HandlerPC, TypeOK
    <2>4. CASE InsertItems(p, m)
        BY <1>3, <2>4, GotoFact DEF InsertItems, HandlerPC, TypeOK
    <2>5. CASE Complete(p, m)
        BY <2>5, GotoFact DEF Complete, HandlerPC, TypeOK
    <2>6. QED BY <2>1, <2>2, <2>3, <2>4, <2>5
  <1>5. TypeOK'
    <2>1. items' \in [Datasets -> 0..MaxImports]
        BY <1>3, DatasetAssumption DEF LoadJob, Validate, MarkValid, InsertItems, Complete,
                  TypeOK, tables, DatasetAssumption
    <2>2. valid' \in [Datasets -> BOOLEAN] /\ job' \in [Datasets -> {"none", "pending", "completed"}]
        BY DEF LoadJob, Validate, MarkValid, InsertItems, Complete, TypeOK, tables
    <2>3. QED BY <1>1, <1>2, <2>1, <2>2 DEF TypeOK, HandlerPC
  <1> HIDE DEF j, was, pc
  <1>6. \A d \in Datasets : items[d] \in Nat BY DatasetAssumption DEF TypeOK, DatasetAssumption
  <1>7. Sent' /\ Unique'
      BY <1>1, <1>2, <1>3 DEF Flow, Sent, Unique, JobOf
  <1>8. Blank' BY <1>1, <1>3, <1>4 DEF Flow, Blank
  <1>9. \A d \in Datasets : items[d] > 0 => items'[d] > 0 BY <1>4, <1>6
  <1>10. \A k \in Messages : JobOf(k)' = JobOf(k) BY <1>1 DEF JobOf
  <1>11. Progress'
    <2>1. SUFFICES ASSUME NEW r \in Procs, NEW k \in Messages
                   PROVE  /\ handler'[r][k] \in Vetted => Good(JobOf(k))
                          /\ handler'[r][k] \in Done => items'[JobOf(k)] > 0
          BY <1>1, <1>10 DEF Progress
    <2>2. handler[r][k] # "idle" => JobOf(k) \in Datasets BY DEF Flow, Sent
    <2>3. CASE r # p \/ k # m
        BY <2>2, <2>3, <1>2, <1>9 DEF Flow, Progress, Vetted, Done
    <2>4. CASE r = p /\ k = m
      <3>1. pc \in Vetted => Good(j)
          BY <1>4 DEF Flow, Progress, Vetted, was, pc, j
      <3>2. pc \in Done => items'[j] > 0
          BY <1>3, <1>4, <1>6, <1>9 DEF Flow, Progress, Done, was, pc, j
      <3>3. QED BY <2>4, <3>1, <3>2 DEF pc, j
    <2>5. QED BY <2>3, <2>4
  <1>12. FirstTime'
    <2>1. SUFFICES ASSUME NEW k \in Messages, JobOf(k) \notin disturbed
                   PROVE
            /\ \A r \in Procs : handler'[r][k] \notin Done \cup {"idle"} => items'[JobOf(k)] = 0
            /\ msg[k].at = "ready" =>
                 items'[JobOf(k)] = 0 /\ \A r \in Procs : handler'[r][k] = "idle"
            /\ \A r, q \in Procs :
                 handler'[r][k] # "idle" /\ handler'[q][k] # "idle" => r = q
          BY <1>1, <1>10 DEF FirstTime
    <2>2. CASE k # m
      <3>1. \A r \in Procs : handler'[r][k] = handler[r][k] BY <1>2, <2>2
      <3>2. msg[k].at # "unsent" => JobOf(k) \in Datasets \ {j}
          BY <1>3, <2>2 DEF Flow, Sent, Unique, j
      <3>3. msg[k].at # "unsent" => items'[JobOf(k)] = items[JobOf(k)] BY <1>4, <3>2
      <3>4. \A r \in Procs : handler[r][k] # "idle" => msg[k].at # "unsent"
          BY DEF Flow, Sent
      <3>5. QED BY <2>1, <3>1, <3>3, <3>4 DEF Flow, FirstTime
    <2>3. CASE k = m
      <3>1. was # "idle" /\ pc # "idle" BY <1>1, <1>4 DEF was
      <3>2. msg[m].at # "ready" /\ \A r \in Procs : r # p => handler[r][m] = "idle"
          BY <2>1, <2>3, <3>1 DEF Flow, FirstTime, was
      <3>3. \A r \in Procs : r # p => handler'[r][m] = "idle" BY <1>2, <3>2
      <3>4. pc \notin Done => items'[j] = 0
          BY <1>4, <2>1, <2>3 DEF Flow, FirstTime, Done, was, j
      <3>5. QED BY <2>3, <3>2, <3>3, <3>4 DEF pc, j
    <2>4. QED BY <2>2, <2>3
  <1>13. NoLostJob'
    <2>1. \A d \in Datasets : api'[d] = "published" /\ items'[d] = 0 =>
            \E k \in Messages : Live(k)' /\ JobOf(k)' = d
      <3>1. \A d \in Datasets : items'[d] = 0 => items[d] = 0 BY <1>4, <1>6
      <3>2. QED BY <1>1, <3>1 DEF Flow, NoLostJob, Live, JobOf
    <2>2. \A r \in Procs, k \in Messages :
            Holds(r, k, DatasetQueueName)' => proc'[r] /\ handler'[r][k] # "idle"
      <3>1. pc # "idle" BY <1>4
      <3>2. QED BY <1>1, <1>2, <3>1 DEF Flow, NoLostJob, Holds, pc
    <2>3. QED BY <2>1, <2>2 DEF NoLostJob
  <1>14. OnlyValidated'
    <2>1. was \in Vetted => Good(j) BY DEF Flow, Progress, was, j
    <2>2. was = "complete" => items[j] > 0 BY DEF Flow, Progress, Done, was, j
    <2>3. ~Good(j) \/ api[j] = "abandoned" => ~valid'[j] /\ items'[j] = 0
        BY <1>3, <1>4, <2>1 DEF Flow, OnlyValidated, Vetted
    <2>4. job'[j] = "completed" => items'[j] > 0
        BY <1>3, <1>4, <1>6, <1>9, <2>2 DEF Flow, OnlyValidated
    <2>5. QED BY <1>1, <1>4, <2>3, <2>4 DEF Flow, OnlyValidated
  <1>15. ImportedOnce'
    <2>1. j \notin disturbed /\ was = "insert" => items[j] = 0
        BY DEF Flow, FirstTime, Done, was, j
    <2>2. QED BY <1>1, <1>3, <1>4, <2>1 DEF Flow, ImportedOnce
  <1>16. QED
      BY <1>1, <1>5, <1>7, <1>8, <1>11, <1>12, <1>13, <1>14, <1>15, SameUploads DEF Flow

(* A delivery goes to one handler, which starts from the beginning. *)
LEMMA DeliverStep ==
  ASSUME IInv, NEW p \in Procs, NEW m \in Messages, Deliver(p, m) PROVE IInv'
  <1> USE DEF IInv, Good
  <1>1. /\ proc[p] /\ Consume(p, m, DatasetQueueName) /\ DatasetQueueName \in Queues
        /\ MsgType /\ Goto(p, m, "load") /\ "load" \in HandlerPC
        /\ UNCHANGED <<api, file, job, valid, items, disturbed, faults, crashes>>
      BY DatasetAssumption
         DEF Deliver, TypeOK, MsgType, DatasetAssumption, HandlerPC, tables, budget
  <1>2. /\ MsgType' /\ Kept /\ NothingNew /\ StaysLive /\ Only(m)
        /\ msg[m].at = "ready" /\ msg'[m].at = "unacked" /\ msg'[m].owner = p
      BY <1>1, ConsumeFact
  <1>3. /\ handler' \in [Procs -> [Messages -> HandlerPC]] /\ proc' = proc
        /\ handler'[p][m] = "load"
        /\ \A r \in Procs, k \in Messages :
             r # p \/ k # m => handler'[r][k] = handler[r][k]
      BY <1>1, GotoFact
  <1>4. TypeOK' BY <1>1, <1>2, <1>3 DEF TypeOK, MsgType, HandlerPC
  <1>5. /\ \A k \in Messages : (msg'[k].at # "unsent" <=> msg[k].at # "unsent")
        /\ \A k \in Messages : msg[k].at # "unsent" => JobOf(k)' = JobOf(k)
        /\ \A k \in Messages \ {m} : msg'[k] = msg[k]
      BY <1>2 DEF Kept, NothingNew, JobOf, Only
  <1>6. Sent' BY <1>1, <1>2, <1>3, <1>5 DEF Flow, Sent
  <1>7. Unique' BY <1>5 DEF Flow, Unique
  <1>8. Blank' /\ OnlyValidated' /\ ImportedOnce'
      BY <1>1 DEF Flow, Blank, OnlyValidated, ImportedOnce
  <1>9. Progress'
    <2>1. \A r \in Procs, k \in Messages :
            handler'[r][k] \in Vetted => handler'[r][k] = handler[r][k]
        BY <1>3 DEF Vetted
    <2>2. \A r \in Procs, k \in Messages : handler[r][k] \in Vetted => JobOf(k)' = JobOf(k)
        BY <1>5 DEF Flow, Sent, Vetted
    <2>3. QED BY <1>1, <2>1, <2>2 DEF Flow, Progress, Vetted, Done
  <1>10. FirstTime'
    <2>1. JobOf(m)' = JobOf(m) BY <1>2, <1>5
    <2>2. JobOf(m) \notin disturbed =>
            items[JobOf(m)] = 0 /\ \A r \in Procs : r # p => handler'[r][m] = "idle"
        BY <1>2, <1>3 DEF Flow, FirstTime
    <2>3. \A k \in Messages \ {m} : /\ msg'[k] = msg[k] /\ JobOf(k)' = JobOf(k)
                                    /\ \A r \in Procs : handler'[r][k] = handler[r][k]
        BY <1>3, <1>5 DEF JobOf
    <2>4. QED BY <1>1, <1>2, <2>1, <2>2, <2>3 DEF Flow, FirstTime
  <1>11. NoLostJob'
    <2>1. \A k \in Messages : Live(k) => Live(k)' /\ JobOf(k)' = JobOf(k)
        BY <1>2, <1>5 DEF StaysLive, Live
    <2>2. \A r \in Procs, k \in Messages :
            Holds(r, k, DatasetQueueName)' => proc'[r] /\ handler'[r][k] # "idle"
        BY <1>1, <1>2, <1>3, <1>5 DEF Flow, NoLostJob, Holds
    <2>3. QED BY <1>1, <2>1, <2>2 DEF Flow, NoLostJob
  <1>12. QED
      BY <1>1, <1>4, <1>6, <1>7, <1>8, <1>9, <1>10, <1>11, SameUploads DEF Flow

(* What an answer, Ack or Nack, does to the deliveries that are held. *)
LEMMA AnsweredHolds ==
  ASSUME IInv, NEW p \in Procs, NEW m \in Messages, Goto(p, m, "idle"),
         Answered(m), ~Holds(p, m, DatasetQueueName)'
  PROVE  \A r \in Procs, k \in Messages :
           Holds(r, k, DatasetQueueName)' => proc'[r] /\ handler'[r][k] # "idle"
  <1>1. /\ proc' = proc
        /\ \A r \in Procs, k \in Messages :
             r # p \/ k # m => handler'[r][k] = handler[r][k]
      BY GotoFact DEF IInv, HandlerPC
  <1>2. SUFFICES ASSUME NEW r \in Procs, NEW k \in Messages, Holds(r, k, DatasetQueueName)'
                 PROVE  proc'[r] /\ handler'[r][k] # "idle"
        OBVIOUS
  <1>3. r # p \/ k # m BY <1>2
  <1>4. msg'[k] = msg[k]
    <2>1. r # NoProc BY BrokerAssumption DEF BrokerAssumption
    <2>2. QED BY <1>2, <2>1 DEF Answered, Only, Holds
  <1>5. Holds(r, k, DatasetQueueName) BY <1>2, <1>4 DEF Holds
  <1>6. QED BY <1>1, <1>3, <1>5 DEF IInv, Flow, NoLostJob

(* The facts that an answer leaves alone. *)
LEMMA AnsweredFlow ==
  ASSUME IInv, NEW p \in Procs, NEW m \in Messages, Goto(p, m, "idle"), Answered(m),
         UNCHANGED <<api, file>>,
         \A d \in Datasets : items[d] > 0 => items'[d] > 0
  PROVE  /\ Sent' /\ Unique' /\ Progress'
         /\ \A k \in Messages : msg[k].at # "unsent" => JobOf(k)' = JobOf(k)
  <1> USE DEF IInv, Good
  <1>1. /\ handler'[p][m] = "idle"
        /\ \A r \in Procs, k \in Messages :
             r # p \/ k # m => handler'[r][k] = handler[r][k]
      BY GotoFact DEF HandlerPC
  <1>2. /\ \A k \in Messages : (msg'[k].at # "unsent" <=> msg[k].at # "unsent")
        /\ \A k \in Messages : msg[k].at # "unsent" => JobOf(k)' = JobOf(k)
      BY DEF Answered, Kept, NothingNew, JobOf
  <1>3. \A r \in Procs, k \in Messages :
          handler'[r][k] # "idle" => handler'[r][k] = handler[r][k]
      BY <1>1
  <1>4. Sent' BY <1>2, <1>3 DEF Flow, Sent
  <1>5. Unique' BY <1>2 DEF Flow, Unique
  <1>6. Progress'
    <2>1. SUFFICES ASSUME NEW r \in Procs, NEW k \in Messages, handler'[r][k] \in Vetted
                   PROVE  /\ Good(JobOf(k)')
                          /\ handler'[r][k] \in Done => items'[JobOf(k)'] > 0
          BY DEF Progress, Vetted, Done
    <2>2. handler[r][k] = handler'[r][k] BY <2>1, <1>3 DEF Vetted
    <2>3. JobOf(k) \in Datasets /\ JobOf(k)' = JobOf(k)
        BY <2>1, <2>2, <1>2 DEF Flow, Sent, Vetted
    <2>4. QED BY <2>1, <2>2, <2>3 DEF Flow, Progress
  <1>7. QED BY <1>2, <1>4, <1>5, <1>6

(* The answer to a finished job: its items are there. *)
LEMMA AckStep ==
  ASSUME IInv, NEW p \in Procs, NEW m \in Messages, AckJob(p, m) PROVE IInv'
  <1> USE DEF IInv, Good
  <1>1. /\ handler[p][m] = "ack" /\ Ack(p, m, DatasetQueueName) /\ Goto(p, m, "idle")
        /\ DatasetQueueName \in Queues /\ MsgType /\ "idle" \in HandlerPC
        /\ UNCHANGED <<api, file, job, valid, items, disturbed, faults, crashes>>
      BY DatasetAssumption
         DEF AckJob, TypeOK, MsgType, DatasetAssumption, HandlerPC, tables, budget
  <1>2. Answered(m) /\ ~Holds(p, m, DatasetQueueName)' BY <1>1, AckFact
  <1>3. /\ handler' \in [Procs -> [Messages -> HandlerPC]] /\ proc' = proc
        /\ handler'[p][m] = "idle"
        /\ \A r \in Procs, k \in Messages :
             r # p \/ k # m => handler'[r][k] = handler[r][k]
      BY <1>1, GotoFact
  <1>4. TypeOK' BY <1>1, <1>2, <1>3 DEF TypeOK, Answered, MsgType, HandlerPC
  <1>5. /\ Sent' /\ Unique' /\ Progress'
        /\ \A k \in Messages : msg[k].at # "unsent" => JobOf(k)' = JobOf(k)
      BY <1>1, <1>2, AnsweredFlow
  <1>6. Blank' /\ OnlyValidated' /\ ImportedOnce'
      BY <1>1 DEF Flow, Blank, OnlyValidated, ImportedOnce
  <1>7. /\ \A k \in Messages \ {m} : msg'[k] = msg[k]
        /\ msg'[m].at = "ready" => msg[m].at = "ready"
        /\ msg[m].at # "unsent" /\ items[JobOf(m)] > 0
    <2>1. msg'[m].at = "ready" => msg[m].at = "ready"
        BY <1>1 DEF Ack, MsgType, Record
    <2>2. QED BY <1>1, <1>2, <2>1 DEF Answered, Only, Flow, Sent, Progress, Done
  <1>8. FirstTime'
    <2>1. JobOf(m)' = JobOf(m) BY <1>5, <1>7
    <2>2. \A k \in Messages \ {m} : msg'[k] = msg[k] /\ JobOf(k)' = JobOf(k)
        BY <1>7 DEF JobOf
    <2>3. QED BY <1>1, <1>3, <1>7, <2>1, <2>2 DEF Flow, FirstTime
  <1>9. NoLostJob'
    <2>1. \A d \in Datasets : api'[d] = "published" /\ items'[d] = 0 =>
            \E k \in Messages : Live(k)' /\ JobOf(k)' = d
      <3>1. SUFFICES ASSUME NEW d \in Datasets, api[d] = "published", items[d] = 0
                     PROVE  \E k \in Messages : Live(k)' /\ JobOf(k)' = d
            BY <1>1
      <3>2. PICK k \in Messages : Live(k) /\ JobOf(k) = d BY <3>1 DEF Flow, NoLostJob
      <3>3. k # m BY <1>7, <3>1, <3>2
      <3>4. QED BY <1>7, <3>2, <3>3 DEF Live, JobOf
    <2>2. QED BY <1>1, <1>2, <2>1, AnsweredHolds DEF NoLostJob
  <1>10. QED BY <1>1, <1>4, <1>5, <1>6, <1>8, <1>9, SameUploads DEF Flow

(* A delivery that is put back: from now on the job is on record. *)
LEMMA PutBackStep ==
  ASSUME IInv, NEW p \in Procs, NEW m \in Messages, Invalid(p, m) \/ StoreFails(p, m)
  PROVE  IInv'
  <1> USE DEF IInv, Good
  <1> DEFINE j == JobOf(m)
  <1>1. /\ handler[p][m] # "idle" /\ Requeue(p, m, DatasetQueueName) /\ Goto(p, m, "idle")
        /\ disturbed' = disturbed \cup {j}
        /\ DatasetQueueName \in Queues /\ MsgType /\ "idle" \in HandlerPC
        /\ UNCHANGED <<api, file, job, valid>>
        /\ faults' \in 0..MaxFaults /\ crashes' = crashes
      BY DatasetAssumption
         DEF Invalid, StoreFails, PutBack, Fault, TypeOK, MsgType, DatasetAssumption,
             HandlerPC, tables, budget
  <1>2. msg[m].at # "unsent" /\ j \in Datasets /\ api[j] = "published"
      BY <1>1 DEF Flow, Sent
  <1>3. \A d \in Datasets : items[d] \in Nat BY DatasetAssumption DEF TypeOK, DatasetAssumption
  <1>4. /\ items' \in [Datasets -> 0..MaxImports]
        /\ \A d \in Datasets \ {j} : items'[d] = items[d]
        /\ \/ items'[j] = items[j]
           \/ items'[j] = items[j] + 1 /\ handler[p][m] = "insert"
    <2>1. \/ items' = items
          \/ /\ handler[p][m] = "insert" /\ items[j] < MaxImports
             /\ items' = [items EXCEPT ![j] = @ + 1]
        BY DEF Invalid, StoreFails, tables
    <2>2. items \in [Datasets -> 0..MaxImports] /\ MaxImports \in Nat
        BY DatasetAssumption DEF TypeOK, DatasetAssumption
    <2> HIDE DEF j
    <2>3. items[j] < MaxImports => items[j] + 1 \in 0..MaxImports BY <1>2, <2>2
    <2>4. QED BY <1>2, <2>1, <2>2, <2>3
  <1>5. Answered(m) /\ ~Holds(p, m, DatasetQueueName)' /\ StaysLive BY <1>1, RequeueFact
  <1>6. /\ handler' \in [Procs -> [Messages -> HandlerPC]] /\ proc' = proc
        /\ handler'[p][m] = "idle"
        /\ \A r \in Procs, k \in Messages :
             r # p \/ k # m => handler'[r][k] = handler[r][k]
      BY <1>1, GotoFact
  <1>7. TypeOK' BY <1>1, <1>2, <1>4, <1>5, <1>6 DEF TypeOK, Answered, MsgType, HandlerPC
  <1> HIDE DEF j
  <1>8. \A d \in Datasets : items[d] > 0 => items'[d] > 0 BY <1>3, <1>4
  <1>9. /\ Sent' /\ Unique' /\ Progress'
        /\ \A k \in Messages : msg[k].at # "unsent" => JobOf(k)' = JobOf(k)
      BY <1>1, <1>5, <1>8, AnsweredFlow
  <1>10. Blank' BY <1>1, <1>2, <1>4 DEF Flow, Blank
  <1>11. OnlyValidated'
    <2>1. handler[p][m] = "insert" => Good(j)
        BY DEF Flow, Progress, Vetted, j
    <2>2. QED BY <1>1, <1>2, <1>4, <1>8, <2>1 DEF Flow, OnlyValidated
  <1>12. ImportedOnce' BY <1>1, <1>4 DEF Flow, ImportedOnce
  <1>13. FirstTime'
    <2>1. JobOf(m)' = j BY <1>2, <1>9 DEF j
    <2>2. \A k \in Messages \ {m} : msg'[k] = msg[k] /\ JobOf(k)' = JobOf(k)
        BY <1>5 DEF Answered, Only, JobOf
    <2>3. \A k \in Messages \ {m} : msg[k].at # "unsent" => JobOf(k) \in Datasets \ {j}
        BY <1>2 DEF Flow, Sent, Unique, j
    <2>4. SUFFICES ASSUME NEW k \in Messages \ {m}, JobOf(k) \notin disturbed
                   PROVE
            /\ \A r \in Procs : handler'[r][k] \notin Done \cup {"idle"} => items'[JobOf(k)] = 0
            /\ msg[k].at = "ready" =>
                 items'[JobOf(k)] = 0 /\ \A r \in Procs : handler'[r][k] = "idle"
            /\ \A r, q \in Procs :
                 handler'[r][k] # "idle" /\ handler'[q][k] # "idle" => r = q
          BY <1>1, <2>1, <2>2 DEF FirstTime
    <2>5. \A r \in Procs : handler'[r][k] = handler[r][k] BY <1>6
    <2>6. msg[k].at # "unsent" => items'[JobOf(k)] = items[JobOf(k)] BY <1>4, <2>3
    <2>7. \A r \in Procs : handler[r][k] # "idle" => msg[k].at # "unsent"
        BY DEF Flow, Sent
    <2>8. QED BY <2>4, <2>5, <2>6, <2>7 DEF Flow, FirstTime
  <1>14. NoLostJob'
    <2>1. \A k \in Messages : Live(k) => Live(k)' /\ JobOf(k)' = JobOf(k)
        BY <1>5, <1>9 DEF StaysLive, Live
    <2>2. \A d \in Datasets : items'[d] = 0 => items[d] = 0 BY <1>3, <1>8
    <2>3. \A d \in Datasets : api'[d] = "published" /\ items'[d] = 0 =>
            \E k \in Messages : Live(k)' /\ JobOf(k)' = d
        BY <1>1, <2>1, <2>2 DEF Flow, NoLostJob
    <2>4. QED BY <1>1, <1>5, <2>3, AnsweredHolds DEF NoLostJob
  <1>15. QED BY <1>1, <1>7, <1>9, <1>10, <1>11, <1>12, <1>13, <1>14, SameUploads DEF Flow

(* The end of a process puts back what it held, and nothing else moves. *)
LEMMA CrashStep ==
  ASSUME IInv, NEW p \in Procs, Crash(p) PROVE IInv'
  <1> USE DEF IInv, Good
  <1>1. /\ Release(p, Queues) /\ Queues \in SUBSET Queues /\ MsgType
        /\ DatasetQueueName \in Queues
        /\ handler' = [handler EXCEPT ![p] = [m \in Messages |-> "idle"]]
        /\ proc' = [proc EXCEPT ![p] = FALSE]
        /\ disturbed' = disturbed \cup {JobOf(m) : m \in Held(p, Queues)}
        /\ crashes' \in 0..MaxCrashes /\ faults' = faults
        /\ UNCHANGED <<api, file, job, valid, items>>
      BY DatasetAssumption
         DEF Crash, TypeOK, MsgType, DatasetAssumption, tables
  <1>2. /\ MsgType' /\ Kept /\ NothingNew /\ StaysLive
        /\ \A r \in Procs, m \in Messages, q \in Queues :
             Holds(r, m, q)' => Holds(r, m, q) /\ (r = p => q \notin Queues)
      BY <1>1, ReleaseFact, BrokerAssumption
  <1>3. /\ \A m \in Messages : handler'[p][m] = "idle"
        /\ \A r \in Procs \ {p} : handler'[r] = handler[r] /\ proc'[r] = proc[r]
      BY <1>1 DEF TypeOK
  <1>4. /\ \A k \in Messages : (msg'[k].at # "unsent" <=> msg[k].at # "unsent")
        /\ \A k \in Messages : msg[k].at # "unsent" => JobOf(k)' = JobOf(k)
      BY <1>2 DEF Kept, NothingNew, JobOf
  <1>5. \A m \in Held(p, Queues) : msg[m].at # "unsent" /\ m \in Messages
      BY DEF Held, Holds
  <1>6. TypeOK'
    <2>1. disturbed' \subseteq Datasets BY <1>1, <1>5 DEF Flow, Sent, TypeOK
    <2>2. handler' \in [Procs -> [Messages -> HandlerPC]] BY <1>1 DEF TypeOK, HandlerPC
    <2>3. QED BY <1>1, <1>2, <2>1, <2>2 DEF TypeOK, MsgType, HandlerPC
  <1>7. \A r \in Procs, k \in Messages :
          handler'[r][k] # "idle" => handler'[r][k] = handler[r][k] /\ r # p
      BY <1>3
  <1>8. Sent' BY <1>1, <1>4, <1>7 DEF Flow, Sent
  <1>9. Unique' BY <1>4 DEF Flow, Unique
  <1>10. Blank' /\ OnlyValidated' BY <1>1 DEF Flow, Blank, OnlyValidated
  <1>11. ImportedOnce' BY <1>1 DEF Flow, ImportedOnce
  <1>12. Progress'
    <2>1. \A r \in Procs, k \in Messages :
            handler'[r][k] \in Vetted => handler'[r][k] = handler[r][k] /\ JobOf(k)' = JobOf(k)
        BY <1>4, <1>7 DEF Flow, Sent, Vetted
    <2>2. QED BY <1>1, <2>1 DEF Flow, Progress, Vetted, Done
  <1>13. FirstTime'
    <2>1. SUFFICES ASSUME NEW k \in Messages, JobOf(k)' \notin disturbed'
                   PROVE
            /\ \A r \in Procs : handler'[r][k] \notin Done \cup {"idle"} => items[JobOf(k)'] = 0
            /\ msg'[k].at = "ready" =>
                 items[JobOf(k)'] = 0 /\ \A r \in Procs : handler'[r][k] = "idle"
            /\ \A r, q \in Procs :
                 handler'[r][k] # "idle" /\ handler'[q][k] # "idle" => r = q
          BY <1>1 DEF FirstTime
    <2>2. CASE k \in Held(p, Queues) BY <1>1, <1>4, <1>5, <2>1, <2>2
    <2>3. CASE k \notin Held(p, Queues)
      <3>1. msg'[k] = msg[k] /\ JobOf(k)' = JobOf(k) BY <1>1, <2>3 DEF Release, JobOf
      <3>2. JobOf(k) \notin disturbed BY <1>1, <2>1, <3>1
      <3>3. QED BY <1>7, <3>1, <3>2 DEF Flow, FirstTime
    <2>4. QED BY <2>2, <2>3
  <1>14. NoLostJob'
    <2>1. \A k \in Messages : Live(k) => Live(k)' /\ JobOf(k)' = JobOf(k)
        BY <1>2, <1>4 DEF StaysLive, Live
    <2>2. \A r \in Procs, k \in Messages :
            Holds(r, k, DatasetQueueName)' => proc'[r] /\ handler'[r][k] # "idle"
        BY <1>1, <1>2, <1>3 DEF Flow, NoLostJob
    <2>3. QED BY <1>1, <2>1, <2>2 DEF Flow, NoLostJob
  <1>15. QED
      BY <1>1, <1>6, <1>8, <1>9, <1>10, <1>11, <1>12, <1>13, <1>14, SameUploads DEF Flow

(* A process that comes up again, and a step that changes nothing. *)
LEMMA RestartStep ==
  ASSUME IInv, (\E p \in Procs : Restart(p)) \/ UNCHANGED vars PROVE IInv'
  <1> USE DEF IInv, Good
  <1>1. /\ UNCHANGED <<api, file, job, valid, items, msg, handler, disturbed, faults, crashes>>
        /\ proc' \in [Procs -> BOOLEAN] /\ \A r \in Procs : proc[r] => proc'[r]
      BY DEF Restart, vars, tables, budget, TypeOK
  <1>2. TypeOK' BY <1>1 DEF TypeOK
  <1>3. Sent' /\ Unique' /\ Blank' /\ Progress' /\ FirstTime'
      BY <1>1 DEF Flow, Sent, Unique, Uploaded, Blank, Progress, FirstTime, JobOf
  <1>4. OnlyValidated' /\ ImportedOnce' BY <1>1 DEF Flow, OnlyValidated, ImportedOnce
  <1>5. NoLostJob' BY <1>1 DEF Flow, NoLostJob, Holds, Live, JobOf
  <1>6. QED BY <1>1, <1>2, <1>3, <1>4, <1>5, SameUploads DEF Flow

(* Every step keeps the invariant. *)
LEMMA StepIInv == IInv /\ [Next]_vars => IInv'
  BY RequestStep, PublishStep, DeliverStep, WorkStep, PutBackStep, AckStep, CrashStep,
     RestartStep DEF Next, HandleMessage

(* The inductive invariant always holds. *)
LEMMA Invariant == Spec => []IInv
  BY InitIInv, StepIInv, PTL DEF Spec

-----------------------------------------------------------------------------
(* The variables keep their types, whatever the limits. *)
THEOREM TypeCorrect == Spec => []TypeOK
  <1>1. IInv => TypeOK BY DEF IInv
  <1>2. QED BY <1>1, Invariant, PTL

(* No error, crash or redelivery loses a published job before its items    *)
(* are there, and no delivery is held by nobody.                           *)
THEOREM NoJobIsLost == Spec => []NoLostJob
  <1>1. IInv => NoLostJob BY DEF IInv, Flow
  <1>2. QED BY <1>1, Invariant, PTL

(* Nothing of a bad file, or of a request that was given up, is visible,   *)
(* and a completed job has its items.                                      *)
THEOREM NothingUnvalidated == Spec => []OnlyValidated
  <1>1. IInv => OnlyValidated BY DEF IInv, Flow
  <1>2. QED BY <1>1, Invariant, PTL

(* Items are there twice only if the job's delivery was put back.          *)
THEOREM ImportsOnce == Spec => []ImportedOnce
  <1>1. IInv => ImportedOnce BY DEF IInv, Flow
  <1>2. QED BY <1>1, Invariant, PTL

-----------------------------------------------------------------------------
(* The refinement of TaskLifecycle.  It needs two facts more: a handler at *)
(* work holds its message, and a row is there from the commit on.          *)
Holding == \A p \in Procs, m \in Messages :
    handler[p][m] # "idle" => Holds(p, m, DatasetQueueName)

Opening == \A d \in Datasets :
    /\ api[d] \in {"new", "uploaded"} => job[d] = "none"
    /\ api[d] \in {"committed", "published"} => job[d] # "none"

LInv == IInv /\ Holding /\ Opening

(* A step of the handler of m in p that leaves the request and the rows of *)
(* the jobs alone, or completes the job.                                   *)
Settling == /\ api' = api
            /\ \A d \in Datasets : job'[d] = job[d] \/ (job[d] # "none" /\ job'[d] # "none")

LEMMA SameOpening == ASSUME Opening, Settling PROVE Opening'
  BY DEF Opening, Settling

(* Only its holder works on a message, and it is the only one. *)
LEMMA OneHolder ==
  ASSUME LInv, NEW p \in Procs, NEW m \in Messages, handler[p][m] # "idle"
  PROVE  /\ Live(m) /\ JobOf(m) \in Datasets /\ api[JobOf(m)] = "published"
         /\ \A r \in Procs \ {p} : handler[r][m] = "idle"
  <1>1. Holds(p, m, DatasetQueueName) BY DEF LInv, Holding
  <1>2. Live(m) /\ msg[m].at # "unsent" BY <1>1 DEF Holds, Live
  <1>3. \A r \in Procs \ {p} : handler[r][m] = "idle"
      BY <1>1 DEF LInv, Holding, Holds
  <1>4. QED BY <1>2, <1>3 DEF LInv, IInv, Flow, Sent

LEMMA JobStays ==
  ASSUME TypeOK, Opening, NEW m \in Messages, JobOf(m) \in Datasets,
         api[JobOf(m)] = "published", api' = api,
         job' \in {job, [job EXCEPT ![JobOf(m)] = "completed"]}
  PROVE  Settling
  BY DEF TypeOK, Opening, Settling

-----------------------------------------------------------------------------
(* The two facts are kept. *)
LEMMA HoldingRequest ==
  ASSUME LInv, NEW d \in Datasets,
         PutFile(d) \/ CommitDataset(d) \/ AbandonDataset(d) \/ PublishJob(d)
  PROVE  Holding' /\ Opening'
  <1> USE DEF tables
  <1>1. Opening'
    <2>1. api \in [Datasets -> {"new", "uploaded", "committed", "published", "abandoned"}]
          /\ job \in [Datasets -> {"none", "pending", "completed"}]
        BY DEF LInv, IInv, TypeOK
    <2>2. CASE PutFile(d) BY <2>1, <2>2 DEF PutFile, LInv, Opening
    <2>3. CASE CommitDataset(d) BY <2>1, <2>3 DEF CommitDataset, LInv, Opening
    <2>4. CASE AbandonDataset(d) BY <2>1, <2>4 DEF AbandonDataset, LInv, Opening
    <2>5. CASE PublishJob(d) BY <2>1, <2>5 DEF PublishJob, LInv, Opening
    <2>6. QED BY <2>2, <2>3, <2>4, <2>5
  <1>2. handler' = handler BY DEF PutFile, CommitDataset, AbandonDataset, PublishJob
  <1>3. CASE PublishJob(d)
    <2>1. MsgType /\ DatasetQueueName \in Queues
        BY DatasetAssumption DEF LInv, IInv, TypeOK, MsgType, DatasetAssumption
    <2>2. PICK n \in Messages : msg[n].at = "unsent" /\ Only(n)
        BY <1>3, <2>1, PublishFact DEF PublishJob, Datasets
    <2>3. \A r \in Procs, k \in Messages : handler[r][k] # "idle" => msg'[k] = msg[k]
        BY <2>2 DEF LInv, IInv, Flow, Sent, Only
    <2>4. QED BY <1>1, <1>2, <2>3 DEF LInv, Holding, Holds
  <1>4. CASE ~PublishJob(d)
    <2>1. msg' = msg BY <1>4 DEF PutFile, CommitDataset, AbandonDataset
    <2>2. QED BY <1>1, <1>2, <2>1 DEF LInv, Holding, Holds
  <1>5. QED BY <1>3, <1>4

LEMMA HoldingWork ==
  ASSUME LInv, NEW p \in Procs, NEW m \in Messages,
         \/ LoadJob(p, m) \/ Validate(p, m) \/ MarkValid(p, m)
         \/ InsertItems(p, m) \/ Complete(p, m)
  PROVE  Holding' /\ Opening' /\ msg' = msg /\ Settling
  <1> USE DEF tables
  <1>1. /\ handler[p][m] # "idle" /\ msg' = msg /\ api' = api
        /\ \E next \in HandlerPC : Goto(p, m, next)
      BY DEF LoadJob, Validate, MarkValid, InsertItems, Complete, HandlerPC
  <1>2. \A r \in Procs, k \in Messages :
          r # p \/ k # m => handler'[r][k] = handler[r][k]
      BY <1>1, GotoFact DEF LInv, IInv
  <1>3. \A r \in Procs, k \in Messages : handler'[r][k] # "idle" => handler[r][k] # "idle"
      BY <1>1, <1>2
  <1>4. Holding' BY <1>1, <1>3 DEF LInv, Holding, Holds
  <1>5. job' \in {job, [job EXCEPT ![JobOf(m)] = "completed"]}
      BY DEF LoadJob, Validate, MarkValid, InsertItems, Complete
  <1>6. Settling BY <1>1, <1>5, OneHolder, JobStays DEF LInv, IInv
  <1>7. QED BY <1>1, <1>4, <1>6, SameOpening DEF LInv

LEMMA HoldingDeliver ==
  ASSUME LInv, NEW p \in Procs, NEW m \in Messages, Deliver(p, m)
  PROVE  Holding' /\ Opening'
  <1>1. /\ Consume(p, m, DatasetQueueName) /\ DatasetQueueName \in Queues
        /\ MsgType /\ Goto(p, m, "load") /\ "load" \in HandlerPC /\ UNCHANGED <<api, job>>
      BY DatasetAssumption
         DEF Deliver, LInv, IInv, TypeOK, MsgType, DatasetAssumption, HandlerPC, tables
  <1>2. /\ Only(m) /\ msg[m].at = "ready" /\ msg'[m].at = "unacked" /\ msg'[m].owner = p
        /\ msg'[m].queue = DatasetQueueName
      BY <1>1, ConsumeFact
  <1>3. \A r \in Procs, k \in Messages :
          r # p \/ k # m => handler'[r][k] = handler[r][k]
      BY <1>1, GotoFact DEF LInv, IInv
  <1>4. \A r \in Procs : handler[r][m] = "idle" BY <1>2 DEF LInv, Holding, Holds
  <1>5. Holding' BY <1>2, <1>3, <1>4 DEF LInv, Holding, Holds, Only
  <1>6. QED BY <1>1, <1>5 DEF LInv, Opening

LEMMA HoldingAnswer ==
  ASSUME LInv, NEW p \in Procs, NEW m \in Messages,
         AckJob(p, m) \/ Invalid(p, m) \/ StoreFails(p, m)
  PROVE  /\ Holding' /\ Opening' /\ api' = api /\ job' = job
         /\ handler[p][m] # "idle" /\ Kept /\ Only(m)
         /\ AckJob(p, m) => msg'[m].at = "gone" /\ disturbed' = disturbed /\ items' = items
         /\ ~AckJob(p, m) => Live(m)' /\ disturbed' = disturbed \cup {JobOf(m)}
  <1> USE DEF tables
  <1>1. /\ handler[p][m] # "idle" /\ UNCHANGED <<api, job>> /\ Goto(p, m, "idle")
        /\ \/ AckJob(p, m) /\ Ack(p, m, DatasetQueueName)
           \/ ~AckJob(p, m) /\ Requeue(p, m, DatasetQueueName)
      BY DEF AckJob, Invalid, StoreFails, PutBack
  <1>2. MsgType /\ DatasetQueueName \in Queues /\ "idle" \in HandlerPC
      BY DatasetAssumption DEF LInv, IInv, TypeOK, MsgType, DatasetAssumption, HandlerPC
  <1>3. Holds(p, m, DatasetQueueName) BY <1>1 DEF LInv, Holding
  <1>4. Kept /\ Only(m)
      BY <1>1, <1>2, AckFact, RequeueFact DEF Answered
  <1>5. AckJob(p, m) => msg'[m].at = "gone" /\ disturbed' = disturbed /\ items' = items
      BY <1>1, <1>2, <1>3, AckExact DEF AckJob
  <1>6. ~AckJob(p, m) => Live(m)' /\ disturbed' = disturbed \cup {JobOf(m)}
    <2>1. Live(m) BY <1>3 DEF Holds, Live
    <2>2. ~AckJob(p, m) => Live(m)' BY <1>1, <1>2, <2>1, RequeueFact DEF StaysLive
    <2>3. QED BY <2>2 DEF Invalid, StoreFails, PutBack
  <1>7. /\ handler'[p][m] = "idle"
        /\ \A r \in Procs, k \in Messages :
             r # p \/ k # m => handler'[r][k] = handler[r][k]
      BY <1>1, <1>2, GotoFact DEF LInv, IInv
  <1>8. \A r \in Procs, k \in Messages :
          handler'[r][k] # "idle" => handler[r][k] # "idle" /\ k # m
      BY <1>1, <1>7, OneHolder
  <1>9. Holding' BY <1>4, <1>8 DEF LInv, Holding, Holds, Only
  <1>10. QED BY <1>1, <1>4, <1>5, <1>6, <1>9 DEF LInv, Opening

LEMMA HoldingCrash ==
  ASSUME LInv, NEW p \in Procs, Crash(p)
  PROVE  Holding' /\ Opening'
  <1>1. /\ Release(p, Queues) /\ MsgType /\ UNCHANGED <<api, job>>
        /\ \A m \in Messages : handler'[p][m] = "idle"
        /\ \A r \in Procs \ {p} : handler'[r] = handler[r]
      BY DEF Crash, LInv, IInv, TypeOK, MsgType, tables
  <1>2. \A k \in Messages : k \notin Held(p, Queues) => msg'[k] = msg[k]
      BY <1>1, ReleaseExact
  <1>3. \A r \in Procs, k \in Messages :
          handler'[r][k] # "idle" => handler[r][k] # "idle" /\ msg'[k] = msg[k]
    <2>1. SUFFICES ASSUME NEW r \in Procs, NEW k \in Messages, handler'[r][k] # "idle"
                   PROVE  handler[r][k] # "idle" /\ msg'[k] = msg[k]
          OBVIOUS
    <2>2. r # p /\ handler[r][k] # "idle" BY <1>1, <2>1
    <2>3. msg[k].owner = r BY <2>2 DEF LInv, Holding, Holds
    <2>4. k \notin Held(p, Queues) BY <2>2, <2>3 DEF Held, Holds
    <2>5. QED BY <1>2, <2>2, <2>4
  <1>4. Holding' BY <1>3 DEF LInv, Holding, Holds
  <1>5. QED BY <1>1, <1>4 DEF LInv, Opening

LEMMA StepLInv == LInv /\ [Next]_vars => LInv'
  <1> SUFFICES ASSUME LInv, [Next]_vars PROVE Holding' /\ Opening'
      BY StepIInv DEF LInv
  <1>1. CASE (\E p \in Procs : Restart(p)) \/ UNCHANGED vars
    <2>1. UNCHANGED <<msg, handler, api, job>> BY <1>1 DEF Restart, vars, tables
    <2>2. QED BY <2>1 DEF LInv, Holding, Opening, Holds
  <1>2. QED
      BY <1>1, HoldingRequest, HoldingWork, HoldingDeliver, HoldingAnswer, HoldingCrash
      DEF Next, HandleMessage

LEMMA LInvariance == Spec => []LInv
  <1>1. Init => LInv
    <2>1. Init => Holding /\ Opening BY DEF Init, Holding, Opening
    <2>2. QED BY <2>1, InitIInv DEF LInv
  <1>2. QED BY <1>1, StepLInv, PTL DEF Spec

-----------------------------------------------------------------------------
(* How the abstract variables move. *)
SameVerdicts == \A d \in Datasets : Verdict(d)' = Verdict(d)
SameWork     == \A d \in Datasets : LiveFor(d)' <=> LiveFor(d)
Stutters     == SameVerdicts /\ SameWork /\ disturbed' = disturbed

LEMMA SameVerdict ==
  ASSUME SameVerdicts PROVE [d \in Datasets |-> Verdict(d)]' = [d \in Datasets |-> Verdict(d)]
  BY DEF SameVerdicts

LEMMA SameOutstanding ==
  ASSUME SameWork PROVE [d \in Datasets |-> LiveFor(d)]' = [d \in Datasets |-> LiveFor(d)]
  <1>1. \A d \in Datasets : LiveFor(d)' = LiveFor(d) BY DEF SameWork, LiveFor
  <1>2. QED BY <1>1

LEMMA StutterMaps == ASSUME Stutters PROVE UNCHANGED Lifecycle!vars
  BY SameVerdict, SameOutstanding DEF Stutters, Lifecycle!vars

LEMMA UntouchedMessages == msg' = msg => SameWork
  BY DEF SameWork, LiveFor, Live, JobOf

(* A message that changes hands is as live as before. *)
LEMMA MovedMessage ==
  ASSUME LInv, NEW m \in Messages, Kept, Only(m), Live(m), Live(m)'
  PROVE  SameWork
  <1>1. \A k \in Messages : (Live(k)' <=> Live(k)) /\ (Live(k) => JobOf(k)' = JobOf(k))
      BY DEF Kept, Only, Live, JobOf
  <1>2. QED BY <1>1 DEF SameWork, LiveFor

(* The verdict depends on whether there is a row and there are items.      *)
LEMMA VerdictFact ==
  ASSUME IInv, NEW d \in Datasets
  PROVE  /\ job[d] = "none" => Verdict(d) = "none"
         /\ job[d] # "none" /\ items[d] > 0 => Verdict(d) = "success"
         /\ job[d] # "none" /\ items[d] = 0 => Verdict(d) = "pending"
  <1>1. items[d] \in Nat BY DatasetAssumption DEF IInv, TypeOK, DatasetAssumption
  <1>2. QED BY <1>1 DEF Verdict

LEMMA SameVerdictOf ==
  ASSUME IInv, IInv', NEW d \in Datasets,
         job'[d] = "none" <=> job[d] = "none", items'[d] > 0 <=> items[d] > 0
  PROVE  Verdict(d)' = Verdict(d)
  <1>1. items[d] \in Nat /\ items'[d] \in Nat
      BY DatasetAssumption DEF IInv, TypeOK, DatasetAssumption
  <1>2. items'[d] = 0 <=> items[d] = 0 BY <1>1
  <1>3. QED BY <1>2 DEF Verdict

(* The commit submits the job, its publication makes it outstanding.       *)
LEMMA CommitMaps ==
  ASSUME LInv, LInv', NEW d \in Datasets, CommitDataset(d) PROVE Lifecycle!Submit(d)
  <1>1. /\ api[d] = "uploaded" /\ job' = [job EXCEPT ![d] = "pending"]
        /\ UNCHANGED <<items, msg, disturbed>>
      BY DEF CommitDataset
  <1>2. Verdict(d) = "none" BY <1>1, VerdictFact DEF LInv, Opening
  <1>3. Verdict(d)' = "pending"
    <2>1. items[d] = 0 BY <1>1 DEF LInv, IInv, Flow, Blank
    <2>2. job'[d] # "none" BY <1>1 DEF LInv, IInv, TypeOK
    <2>3. QED BY <1>1, <2>1, <2>2 DEF Verdict
  <1>4. \A e \in Datasets \ {d} : Verdict(e)' = Verdict(e)
      BY <1>1, SameVerdictOf DEF LInv, IInv, TypeOK
  <1>5. [e \in Datasets |-> Verdict(e)]'
        = [[e \in Datasets |-> Verdict(e)] EXCEPT ![d] = "pending"]
      BY <1>3, <1>4
  <1>6. QED
      BY <1>1, <1>2, <1>5, UntouchedMessages, SameOutstanding DEF Lifecycle!Submit

LEMMA PublishMaps ==
  ASSUME LInv, LInv', NEW d \in Datasets, PublishJob(d) PROVE Lifecycle!Accept(d)
  <1>1. /\ api[d] = "committed" /\ Publish(DatasetQueueName, d, 0)
        /\ UNCHANGED <<job, items, disturbed>> /\ MsgType /\ DatasetQueueName \in Queues
      BY DatasetAssumption
         DEF PublishJob, tables, LInv, IInv, TypeOK, MsgType, DatasetAssumption
  <1>2. Verdict(d) = "pending"
      BY <1>1, VerdictFact DEF LInv, Opening, IInv, Flow, Blank
  <1>3. \A e \in Datasets : Verdict(e)' = Verdict(e)
      BY <1>1, SameVerdictOf DEF LInv
  <1>4. PICK n \in Messages :
          /\ msg[n].at = "unsent" /\ Only(n)
          /\ msg'[n] = [at |-> "ready", queue |-> DatasetQueueName, body |-> d,
                        retry |-> 0, owner |-> NoProc]
      BY <1>1, PublishFact DEF Datasets
  <1>5. Live(n)' /\ JobOf(n)' = d /\ ~Live(n) BY <1>4 DEF Live, JobOf
  <1>6. \A k \in Messages \ {n} : (Live(k)' <=> Live(k)) /\ JobOf(k)' = JobOf(k)
      BY <1>4 DEF Only, Live, JobOf
  <1>7. LiveFor(d)' /\ \A e \in Datasets \ {d} : LiveFor(e)' <=> LiveFor(e)
      BY <1>5, <1>6 DEF LiveFor
  <1>8. [e \in Datasets |-> LiveFor(e)]'
        = [[e \in Datasets |-> LiveFor(e)] EXCEPT ![d] = TRUE]
    <2>1. \A e \in Datasets \ {d} : LiveFor(e)' = LiveFor(e) BY <1>7 DEF LiveFor
    <2>2. LiveFor(d)' = TRUE BY <1>7 DEF LiveFor
    <2>3. QED BY <2>1, <2>2
  <1>9. QED
      BY <1>1, <1>2, <1>3, <1>8, SameVerdict DEF SameVerdicts, Lifecycle!Accept

(* The first insertion settles a job, even one that is then put back.      *)
LEMMA SettleMaps ==
  ASSUME LInv, LInv', NEW d \in Datasets, SameWork, LiveFor(d), job[d] # "none", job'[d] # "none",
         \A e \in Datasets \ {d} : Verdict(e)' = Verdict(e),
         items[d] = 0, items'[d] > 0, disturbed' \in {disturbed, disturbed \cup {d}}
  PROVE  Lifecycle!Settle(d)
  <1>1. Verdict(d) = "pending" /\ Verdict(d)' = "success"
    <2>1. Verdict(d) = "pending" BY VerdictFact DEF LInv
    <2>2. items'[d] \in Nat BY DatasetAssumption DEF LInv, IInv, TypeOK, DatasetAssumption
    <2>3. Verdict(d)' = "success" BY <2>2 DEF Verdict
    <2>4. QED BY <2>1, <2>3
  <1>2. [e \in Datasets |-> Verdict(e)]'
        = [[e \in Datasets |-> Verdict(e)] EXCEPT ![d] = "success"]
      BY <1>1
  <1>3. "success" \in Lifecycle!Verdicts BY DEF Lifecycle!Verdicts
  <1>4. QED BY <1>1, <1>2, <1>3, SameOutstanding DEF Lifecycle!Settle

(* A later insertion makes nothing visible that was not.                   *)
LEMMA RepeatedInsertion ==
  ASSUME IInv, NEW j \in Datasets, items' = items \/ items' = [items EXCEPT ![j] = @ + 1],
         ~(items[j] = 0 /\ items' # items)
  PROVE  \A e \in Datasets : items'[e] > 0 <=> items[e] > 0
  <1>1. items \in [Datasets -> Nat]
      BY DatasetAssumption DEF IInv, TypeOK, DatasetAssumption
  <1>2. CASE items' = items BY <1>2
  <1>3. CASE items' # items
    <2>1. items[j] \in Nat /\ items[j] # 0 BY <1>1, <1>3
    <2>2. items'[j] = items[j] + 1 /\ \A e \in Datasets \ {j} : items'[e] = items[e]
        BY <1>1, <1>3
    <2>3. items'[j] > 0 /\ items[j] > 0 BY <2>1, <2>2
    <2>4. QED BY <2>2, <2>3
  <1>4. QED BY <1>2, <1>3

(* The work between receipt and answer: at most one insertion. *)
LEMMA WorkMaps ==
  ASSUME LInv, LInv', NEW p \in Procs, NEW m \in Messages,
         \/ LoadJob(p, m) \/ Validate(p, m) \/ MarkValid(p, m)
         \/ InsertItems(p, m) \/ Complete(p, m)
  PROVE  [Lifecycle!Next]_(Lifecycle!vars)
  <1>1. msg' = msg /\ Settling /\ SameWork BY HoldingWork, UntouchedMessages
  <1>2. disturbed' = disturbed /\ handler[p][m] # "idle"
      BY DEF LoadJob, Validate, MarkValid, InsertItems, Complete
  <1>3. PICK j \in Datasets : j = JobOf(m) /\ Live(m) /\ api[j] = "published"
      BY <1>2, OneHolder
  <1>4. items' = items \/ items' = [items EXCEPT ![j] = @ + 1]
      BY <1>3 DEF LoadJob, Validate, MarkValid, InsertItems, Complete, tables
  <1>5. \A e \in Datasets : job'[e] = "none" <=> job[e] = "none" BY <1>1 DEF Settling
  <1>6. CASE items[j] = 0 /\ items' # items
    <2>1. items'[j] = 1 /\ \A e \in Datasets \ {j} : items'[e] = items[e]
        BY <1>4, <1>6 DEF LInv, IInv, TypeOK
    <2>2. \A e \in Datasets \ {j} : Verdict(e)' = Verdict(e)
        BY <1>5, <2>1, SameVerdictOf DEF LInv
    <2>3. LiveFor(j) BY <1>3 DEF LiveFor
    <2>4. job[j] # "none" /\ job'[j] # "none" BY <1>3, <1>5 DEF LInv, Opening
    <2>5. Lifecycle!Settle(j) BY <1>1, <1>2, <1>6, <2>1, <2>2, <2>3, <2>4, SettleMaps
    <2>6. QED BY <2>5 DEF Lifecycle!Next
  <1>7. CASE ~(items[j] = 0 /\ items' # items)
    <2>1. \A e \in Datasets : items'[e] > 0 <=> items[e] > 0
        BY <1>4, <1>7, RepeatedInsertion DEF LInv
    <2>2. SameVerdicts BY <1>5, <2>1, SameVerdictOf DEF LInv, SameVerdicts
    <2>3. QED BY <1>1, <1>2, <2>2, StutterMaps DEF Stutters
  <1>8. QED BY <1>6, <1>7

(* A delivery put back returns outstanding work, and may have settled it.  *)
LEMMA PutBackMaps ==
  ASSUME LInv, LInv', NEW p \in Procs, NEW m \in Messages,
         Invalid(p, m) \/ StoreFails(p, m)
  PROVE  Lifecycle!Next
  <1> USE DEF tables
  <1>1. /\ job' = job /\ handler[p][m] # "idle" /\ Kept /\ Only(m)
        /\ Live(m)' /\ disturbed' = disturbed \cup {JobOf(m)}
    <2>1. ~AckJob(p, m)
      <3>1. SUFFICES ASSUME AckJob(p, m) PROVE FALSE OBVIOUS
      <3>2. handler[p][m] = "ack" BY <3>1 DEF AckJob
      <3>3. QED BY <3>2 DEF Invalid, StoreFails
    <2>2. QED BY <2>1, HoldingAnswer
  <1>2. PICK j \in Datasets : j = JobOf(m) /\ Live(m) /\ api[j] = "published"
      BY <1>1, OneHolder
  <1>3. SameWork BY <1>1, <1>2, MovedMessage
  <1>4. LiveFor(j) BY <1>2 DEF LiveFor
  <1>5. items' = items \/ items' = [items EXCEPT ![j] = @ + 1]
      BY <1>2 DEF Invalid, StoreFails
  <1>6. CASE items[j] = 0 /\ items' # items
    <2>1. items'[j] = 1 /\ \A e \in Datasets \ {j} : items'[e] = items[e]
        BY <1>5, <1>6 DEF LInv, IInv, TypeOK
    <2>2. \A e \in Datasets \ {j} : Verdict(e)' = Verdict(e)
        BY <1>1, <2>1, SameVerdictOf DEF LInv
    <2>3. job[j] # "none" /\ job'[j] # "none" BY <1>1, <1>2 DEF LInv, Opening
    <2>4. Lifecycle!Settle(j)
        BY <1>1, <1>2, <1>3, <1>4, <1>6, <2>1, <2>2, <2>3, SettleMaps
    <2>5. QED BY <2>4 DEF Lifecycle!Next
  <1>7. CASE ~(items[j] = 0 /\ items' # items)
    <2>1. \A e \in Datasets : items'[e] > 0 <=> items[e] > 0
        BY <1>5, <1>7, RepeatedInsertion DEF LInv
    <2>2. SameVerdicts BY <1>1, <2>1, SameVerdictOf DEF LInv, SameVerdicts
    <2>3. {j} \in SUBSET {e \in Datasets : [x \in Datasets |-> LiveFor(x)][e]} BY <1>4
    <2>4. Lifecycle!ComeBack
        BY <1>1, <1>2, <1>3, <2>2, <2>3, SameVerdict, SameOutstanding DEF Lifecycle!ComeBack
    <2>5. QED BY <2>4 DEF Lifecycle!Next
  <1>8. QED BY <1>6, <1>7

(* The acknowledgement finishes the job: a job has one message, and its    *)
(* items are there.                                                        *)
LEMMA AckMaps ==
  ASSUME LInv, LInv', NEW p \in Procs, NEW m \in Messages, AckJob(p, m)
  PROVE  Lifecycle!Finish(JobOf(m))
  <1>1. /\ job' = job /\ items' = items /\ disturbed' = disturbed
        /\ handler[p][m] = "ack" /\ Kept /\ Only(m) /\ msg'[m].at = "gone"
      BY HoldingAnswer DEF AckJob
  <1>2. PICK j \in Datasets : j = JobOf(m) /\ Live(m) /\ api[j] = "published"
      BY <1>1, OneHolder
  <1>3. Verdict(j) = "success"
      BY <1>1, <1>2, VerdictFact DEF LInv, IInv, Flow, Progress, Done, Opening
  <1>4. SameVerdicts BY <1>1, SameVerdictOf DEF LInv, SameVerdicts
  <1>5. \A k \in Messages \ {m} : msg'[k] = msg[k] BY <1>1 DEF Only
  <1>6. LiveFor(j)' = FALSE
    <2>1. \A k \in Messages : Live(k)' => k # m /\ Live(k) /\ JobOf(k)' = JobOf(k)
        BY <1>1, <1>5 DEF Live, JobOf
    <2>2. \A k \in Messages \ {m} : Live(k) => JobOf(k) # j
        BY <1>2 DEF LInv, IInv, Flow, Unique, Live
    <2>3. QED BY <2>1, <2>2 DEF LiveFor
  <1>7. \A e \in Datasets \ {j} : LiveFor(e)' = LiveFor(e)
    <2>1. JobOf(m)' = j BY <1>1, <1>2 DEF Kept, Live, JobOf
    <2>2. \A k \in Messages \ {m} : (Live(k)' <=> Live(k)) /\ JobOf(k)' = JobOf(k)
        BY <1>5 DEF Live, JobOf
    <2>3. QED BY <1>2, <2>1, <2>2 DEF LiveFor
  <1>8. [e \in Datasets |-> LiveFor(e)]'
        = [[e \in Datasets |-> LiveFor(e)] EXCEPT ![j] = FALSE]
      BY <1>6, <1>7
  <1>9. Lifecycle!Finish(j)
      BY <1>1, <1>3, <1>4, <1>8, SameVerdict DEF Lifecycle!Finish, Lifecycle!Verdicts
  <1>10. QED BY <1>2, <1>9

(* A process that ends gives back outstanding work only. *)
LEMMA CrashMaps ==
  ASSUME LInv, LInv', NEW p \in Procs, Crash(p) PROVE Lifecycle!ComeBack
  <1>1. /\ Release(p, Queues) /\ MsgType /\ Queues \in SUBSET Queues
        /\ UNCHANGED <<job, items>>
        /\ disturbed' = disturbed \cup {JobOf(m) : m \in Held(p, Queues)}
      BY DEF Crash, LInv, IInv, TypeOK, MsgType, tables
  <1>2. SameVerdicts BY <1>1, SameVerdictOf DEF LInv, SameVerdicts
  <1>3. SameWork
    <2>1. Kept /\ StaysLive /\ \A k \in Messages : Live(k)' => Live(k)
        BY <1>1, ReleaseFact, ReleaseExact, BrokerAssumption
    <2>2. \A k \in Messages : (Live(k)' <=> Live(k)) /\ (Live(k) => JobOf(k)' = JobOf(k))
        BY <2>1 DEF StaysLive, Kept, Live, JobOf
    <2>3. QED BY <2>2 DEF SameWork, LiveFor
  <1>4. {JobOf(m) : m \in Held(p, Queues)}
        \in SUBSET {e \in Datasets : [x \in Datasets |-> LiveFor(x)][e]}
    <2>1. \A m \in Held(p, Queues) : m \in Messages /\ Live(m) /\ msg[m].at # "unsent"
        BY DEF Held, Holds, Live
    <2>2. \A m \in Held(p, Queues) : JobOf(m) \in Datasets
        BY <2>1 DEF LInv, IInv, Flow, Sent
    <2>3. \A m \in Held(p, Queues) : LiveFor(JobOf(m)) BY <2>1 DEF LiveFor
    <2>4. QED BY <2>2, <2>3
  <1>5. QED
      BY <1>1, <1>2, <1>3, <1>4, SameVerdict, SameOutstanding DEF Lifecycle!ComeBack

(* The other steps of the request, a delivery and a restart show nothing.  *)
LEMMA OtherStutters ==
  ASSUME LInv, LInv',
         \/ \E d \in Datasets : PutFile(d) \/ AbandonDataset(d)
         \/ \E p \in Procs : Restart(p) \/ \E m \in Messages : Deliver(p, m)
         \/ UNCHANGED vars
  PROVE  Stutters
  <1>1. UNCHANGED <<job, items, disturbed>>
      BY DEF PutFile, AbandonDataset, Restart, Deliver, vars, tables
  <1>2. SameVerdicts BY <1>1, SameVerdictOf DEF LInv, SameVerdicts
  <1>3. SameWork
    <2>1. ASSUME NEW p \in Procs, NEW m \in Messages, Deliver(p, m) PROVE SameWork
      <3>1. Consume(p, m, DatasetQueueName) /\ DatasetQueueName \in Queues /\ MsgType
          BY <2>1, DatasetAssumption
             DEF Deliver, LInv, IInv, TypeOK, MsgType, DatasetAssumption
      <3>2. Kept /\ Only(m) /\ Live(m) /\ Live(m)'
          BY <3>1, ConsumeFact DEF Live
      <3>3. QED BY <3>2, MovedMessage
    <2>2. CASE msg' = msg BY <2>2, UntouchedMessages
    <2>3. QED BY <2>1, <2>2 DEF PutFile, AbandonDataset, Restart, vars
  <1>4. QED BY <1>1, <1>2, <1>3 DEF Stutters

LEMMA InitLifecycle == Init => Lifecycle!Init
  <1> SUFFICES ASSUME Init PROVE Lifecycle!Init
      OBVIOUS
  <1>1. \A d \in Datasets : LiveFor(d) = FALSE BY DEF Init, BrokerInit, LiveFor, Live
  <1>2. \A d \in Datasets : Verdict(d) = "none" BY DEF Init, Verdict
  <1>3. QED BY <1>1, <1>2 DEF Init, Lifecycle!Init

LEMMA StepLifecycle == LInv /\ [Next]_vars => [Lifecycle!Next]_(Lifecycle!vars)
  <1> SUFFICES ASSUME LInv, [Next]_vars PROVE [Lifecycle!Next]_(Lifecycle!vars)
      OBVIOUS
  <1>0. LInv' BY StepLInv
  <1>1. ASSUME NEW d \in Datasets, CommitDataset(d) \/ PublishJob(d)
        PROVE  Lifecycle!Next
      BY <1>0, <1>1, CommitMaps, PublishMaps DEF Lifecycle!Next
  <1>2. ASSUME NEW p \in Procs, Crash(p) PROVE Lifecycle!Next
      BY <1>0, <1>2, CrashMaps DEF Lifecycle!Next
  <1>3. ASSUME NEW p \in Procs, NEW m \in Messages, HandleMessage(p, m)
        PROVE  [Lifecycle!Next]_(Lifecycle!vars)
    <2>1. CASE AckJob(p, m)
      <3>1. JobOf(m) \in Datasets BY <2>1, OneHolder DEF AckJob
      <3>2. QED BY <1>0, <2>1, <3>1, AckMaps DEF Lifecycle!Next
    <2>2. QED BY <1>0, <1>3, <2>1, WorkMaps, PutBackMaps DEF HandleMessage
  <1>4. QED BY <1>0, <1>1, <1>2, <1>3, OtherStutters, StutterMaps DEF Next

(* The import keeps what TaskLifecycle promises to each dataset whose row  *)
(* was committed: its message goes only behind its items, items appear     *)
(* only while it is outstanding, and a job that was put back may repeat.   *)
THEOREM KeepsThePromise == Spec => KeepsTaskLifecycle
  BY InitLifecycle, StepLifecycle, LInvariance, PTL
     DEF Spec, KeepsTaskLifecycle, Lifecycle!Spec
=============================================================================
