------------------------------- MODULE MCHub -------------------------------
(* Instance of Hub for TLC; the temporal properties rule out symmetry. *)
EXTENDS Hub, TLC
=============================================================================
