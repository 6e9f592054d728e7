----------------------------- MODULE DatasetFile -----------------------------
(***************************************************************************)
(* A dataset file, one JSON object per line, and the check the worker      *)
(* makes of it before it imports it (service/dataset/dataset.go,           *)
(* ValidateJsonKeys).  Of an object only the keys matter.                  *)
(***************************************************************************)
EXTENDS FiniteSets, Naturals, Sequences

CONSTANTS Keys,   \* the keys an object may have
          Files   \* the files considered

(* A line is "broken" when it is no JSON object, or too long for the       *)
(* scanner.  The line null counts as an object without keys: Unmarshal     *)
(* leaves the map nil and reports no error.                                *)
Line == [kind : {"blank", "broken", "object"}, keys : SUBSET Keys]

ASSUME FileAssumption == IsFiniteSet(Keys) /\ Files \subseteq Seq(Line)

(* Blank lines are passed over, here and by the insertion. *)
Rows(f) == {i \in DOMAIN f : f[i].kind # "blank"}

(* The first object sets the keys, the others are held against it. *)
First(f) == CHOOSE i \in Rows(f) : \A j \in Rows(f) : i <= j

(* Faulty variant: the keys are counted, not looked up. *)
SameNumber(keys, obj) == Cardinality(keys) = Cardinality(obj)

(* len(keys) != len(obj), then each key of obj is looked up. *)
Consistent(keys, obj) == Cardinality(keys) = Cardinality(obj) /\ obj \subseteq keys

ValidateJsonKeys(f) ==
    \A i \in Rows(f) : /\ f[i].kind = "object"
                       /\ Consistent(f[First(f)].keys, f[i].keys)

(* What the check is for: every row is an object, all with the same keys. *)
Uniform(f) ==
    \A i, j \in Rows(f) : f[i].kind = "object" /\ f[i].keys = f[j].keys
=============================================================================
