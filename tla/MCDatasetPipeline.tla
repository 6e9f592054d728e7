-------------------------- MODULE MCDatasetPipeline --------------------------
(* Instances of DatasetPipeline for TLC; the temporal properties rule out  *)
(* symmetry.                                                               *)
EXTENDS DatasetPipeline, TLC

MCQueues == {DatasetQueueName}

Row(ks) == [kind |-> "object", keys |-> ks]
Blank   == [kind |-> "blank", keys |-> {}]

(* Two rows around a blank line; rows with as many but other keys.         *)
MCFiles == {<<Row({"q", "a"}), Blank, Row({"q", "a"})>>,
            <<Row({"q"}), Row({"a"})>>}
==============================================================================
