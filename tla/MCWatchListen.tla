---------------------------- MODULE MCWatchListen ----------------------------
(* Instances of WatchListen for TLC. *)
EXTENDS WatchListen
=============================================================================
