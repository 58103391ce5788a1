--------------------------- MODULE MCAlertSearch ---------------------------
(***************************************************************************)
(* Three searches per view model: two in flight while a third has been     *)
(* answered, in any order.                                                 *)
(***************************************************************************)
EXTENDS AlertSearch
=============================================================================
