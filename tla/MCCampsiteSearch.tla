-------------------------- MODULE MCCampsiteSearch --------------------------
(***************************************************************************)
(* Three states to choose from and three searches per process: enough for an *)
(* answer to be compared with the one before and the one after a failure.  *)
(***************************************************************************)
EXTENDS CampsiteSearch

CONSTANTS co, ca, fl

MCStates == {co, ca, fl}
=============================================================================
