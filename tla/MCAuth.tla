------------------------------- MODULE MCAuth -------------------------------
(* Instance of Auth for TLC.  Only invariants are checked, and clients are  *)
(* interchangeable.                                                         *)
EXTENDS Auth, TLC

Symmetry == Permutations(Clients)
=============================================================================
