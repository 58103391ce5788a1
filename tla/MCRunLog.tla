------------------------------- MODULE MCRunLog -------------------------------
(* Instances of RunLog for TLC. *)
EXTENDS RunLog
=============================================================================
