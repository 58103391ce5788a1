-------------------------- MODULE MCAudioRecorder --------------------------
(***************************************************************************)
(* The number of recordings of a process is the only thing to bound: one   *)
(* to play, one to overwrite it with, and as many as it takes for every    *)
(* order of buttons, delegate calls and interruptions between them.        *)
(***************************************************************************)
EXTENDS AudioRecorder
=============================================================================
