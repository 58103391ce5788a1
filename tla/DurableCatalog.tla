--------------------------- MODULE DurableCatalog ---------------------------
(***************************************************************************)
(* What the user of an editable catalogue (continents and their countries, *)
(* states and their cities) is promised: while the app is open it shows a  *)
(* catalogue and one list of it may be edited at a time; when it opens it  *)
(* shows exactly what was kept; what is kept changes only to what is       *)
(* shown.  Unless storage is reliable, an interrupted or failed save may   *)
(* lose everything and an opening may show nothing of what is kept; in     *)
(* both it is all or nothing: a partial catalogue never shows.             *)
(***************************************************************************)
EXTENDS Naturals

CONSTANTS
    Default,    \* the catalogue shipped with the app
    Nothing,    \* the catalogue without a single entry
    Reliable    \* whether every read and every save, once begun, completes

VARIABLES
    open,       \* is the app running?
    shown,      \* the catalogue the app works on, Nothing while it is closed
    kept        \* the catalogue the next start will show

vars == <<open, shown, kept>>

Init ==
    /\ open = FALSE
    /\ shown = Nothing
    /\ kept = Default

Open ==
    /\ ~open
    /\ open' = TRUE
    /\ shown' = kept
    /\ UNCHANGED kept

\* What is kept could not be read.  It stays kept, until the next Keep.
OpenFails ==
    /\ ~Reliable
    /\ ~open
    /\ open' = TRUE
    /\ shown' = Nothing
    /\ UNCHANGED kept

\* One list of the catalogue changes; the catalogue keeps its entries.
Edit ==
    /\ open
    /\ open'
    /\ DOMAIN shown' = DOMAIN shown
    /\ \E i \in DOMAIN shown : \A j \in DOMAIN shown \ {i} : shown'[j] = shown[j]
    /\ UNCHANGED kept

Keep ==
    /\ open
    /\ kept' = shown
    /\ UNCHANGED <<open, shown>>

Close ==
    /\ open
    /\ open' = FALSE
    /\ shown' = Nothing
    /\ UNCHANGED kept

\* An interrupted save: the app goes on, or is closed by what interrupted it.
Lose ==
    /\ ~Reliable
    /\ open
    /\ kept' = Nothing
    /\ \/ UNCHANGED <<open, shown>>
       \/ open' = FALSE /\ shown' = Nothing

Next == Open \/ OpenFails \/ Edit \/ Keep \/ Close \/ Lose

Spec == Init /\ [][Next]_vars
=============================================================================
