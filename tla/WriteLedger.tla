----------------------------- MODULE WriteLedger -----------------------------
(***************************************************************************)
(* What the Firestore client promises an app about its writes: the server  *)
(* applies each user's writes in the order they were made, leaving out     *)
(* only what it refused, and the app is told of a write at most once, and  *)
(* only after the server has dealt with it.                                *)
(***************************************************************************)
EXTENDS Naturals, Sequences

CONSTANTS Users, MaxWrites

VARIABLES
    issued,     \* who made each write
    committed,  \* the writes the server has applied
    refused,    \* the writes it has refused at least once
    told        \* what the app has been told of each write

ledger == <<issued, committed, refused, told>>

Init ==
    /\ issued = << >>
    /\ committed = {}
    /\ refused = {}
    /\ told = [w \in 1..MaxWrites |-> "nothing"]

Issue(u) ==
    /\ Len(issued) < MaxWrites
    /\ issued' = Append(issued, u)
    /\ UNCHANGED <<committed, refused, told>>

\* Whatever the same user wrote before has been dealt with.
Due(w) == \A v \in 1..(w - 1) :
              issued[v] = issued[w] => v \in committed \cup refused

Commit(w) ==
    /\ Due(w)
    /\ committed' = committed \cup {w}
    /\ UNCHANGED <<issued, refused, told>>

Refuse(w) ==
    /\ Due(w)
    /\ refused' = refused \cup {w}
    /\ UNCHANGED <<issued, committed, told>>

Tell(w, outcome) ==
    /\ told[w] = "nothing"
    /\ w \in IF outcome = "ok" THEN committed ELSE committed \cup refused
    /\ told' = [told EXCEPT ![w] = outcome]
    /\ UNCHANGED <<issued, committed, refused>>

Next ==
    \/ \E u \in Users : Issue(u)
    \/ \E w \in 1..Len(issued) :
           Commit(w) \/ Refuse(w) \/ Tell(w, "ok") \/ Tell(w, "failed")

Spec == Init /\ [][Next]_ledger
=============================================================================
