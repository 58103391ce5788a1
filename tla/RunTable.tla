------------------------------ MODULE RunTable ------------------------------
(***************************************************************************)
(* What the Firestore client promises an app that shows a collection and   *)
(* adds to it, over a server that is a log of writes.  The app reads its   *)
(* own writes: a run it has saved is in the table at once, and after that  *)
(* the app sees no older state of it than the one it wrote, unless the     *)
(* write was refused.  Its reads are monotonic: of each run the table goes *)
(* from one state the server had to a later one, and never back.  Both     *)
(* outlast the process.                                                    *)
(***************************************************************************)
EXTENDS Naturals, Sequences

CONSTANT Runs

VARIABLES
    log,        \* the writes of the server: a run and a text
    refused,    \* the runs whose write has been refused
    open,       \* is there a table?
    waiting,    \* the runs saved here whose write has no outcome yet
    seen,       \* the version of the server's run that is seen
    table       \* the text the table has of a run, or "none"

tableVars == <<log, refused, open, waiting, seen, table>>

\* At version v the last the server has of k is this text.
Has(k, v, text) ==
    \E i \in 1..v : /\ log[i] = [run |-> k, text |-> text]
                    /\ \A j \in (i + 1)..v : log[j].run # k

\* The server has nothing of k at version v, or has had it deleted.
Missing(k, v) == (\A i \in 1..v : log[i].run # k) \/ Has(k, v, "gone")

\* The table of the runs that are waiting and of those that are seen.
Shows ==
    \A k \in Runs :
        IF ~open THEN table[k] = "none"
        ELSE IF k \in waiting THEN table[k] = "mine"
        ELSE IF table[k] = "none" THEN Missing(k, seen[k])
        ELSE table[k] # "gone" /\ Has(k, seen[k], table[k])

Init ==
    /\ log = << >>
    /\ refused = {}
    /\ open = FALSE
    /\ waiting = {}
    /\ seen = [k \in Runs |-> 0]
    /\ table = [k \in Runs |-> "none"]

\* The process starts, or ends.
StartOrEnd ==
    /\ open' = ~open
    /\ UNCHANGED <<log, refused, waiting, seen>>

Save(k) ==
    /\ open
    /\ k \notin waiting /\ \A i \in 1..Len(log) : log[i].run # k
    /\ waiting' = waiting \cup {k}
    /\ UNCHANGED <<log, refused, open, seen>>

\* Only what is waiting is written here.
Commit(k) ==
    /\ k \in waiting
    /\ log' = Append(log, [run |-> k, text |-> "mine"])
    /\ UNCHANGED <<refused, open, waiting, seen>>

Refuse(k) ==
    /\ k \in waiting
    /\ refused' = refused \cup {k}
    /\ UNCHANGED <<log, open, waiting, seen>>

Change(k, text) ==
    /\ log' = Append(log, [run |-> k, text |-> text])
    /\ UNCHANGED <<refused, open, waiting, seen>>

\* What is seen of the runs is as it was or a later state of the server.
Later ==
    /\ DOMAIN seen' = Runs
    /\ \A k \in Runs : seen'[k] \in seen[k]..Len(log)

Hear ==
    /\ Later
    /\ UNCHANGED <<log, refused, open, waiting>>

\* The write was refused, or what is seen of its run is the write or later.
Settle(k) ==
    /\ k \in waiting
    /\ waiting' = waiting \ {k}
    /\ Later
    /\ k \in refused \/ \E i \in 1..seen'[k] : log[i] = [run |-> k, text |-> "mine"]
    /\ UNCHANGED <<log, refused, open>>

Next ==
    /\ DOMAIN table' = Runs /\ Shows'
    /\ \/ StartOrEnd \/ Hear
       \/ \E k \in Runs : Save(k) \/ Commit(k) \/ Refuse(k) \/ Settle(k)
       \/ \E k \in Runs : Change(k, "other") \/ Change(k, "gone")

Spec == Init /\ [][Next]_tableVars
=============================================================================
