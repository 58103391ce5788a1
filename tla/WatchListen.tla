----------------------------- MODULE WatchListen -----------------------------
(***************************************************************************)
(* The listen side of the Firestore client that inclass/miles links: the   *)
(* listeners of the app (EventManager, QueryListener), their views         *)
(* (SyncEngine, View), the targets and the watch stream (RemoteStore,      *)
(* Stream, WatchStream), what is noted of each target between two global   *)
(* snapshots (WatchChangeAggregator) and the online state                  *)
(* (OnlineStateTracker).                                                   *)
(*                                                                         *)
(* The queries are of collections, and of their documents only this is     *)
(* kept: whether a query has any.  A global snapshot is taken apart into   *)
(* what it is for each target.  How a stream gets its credentials is in    *)
(* WritePipeline.  An action is one task of the worker queue, or a step of *)
(* the network or of the server.                                           *)
(***************************************************************************)
EXTENDS Integers, Sequences, FiniteSets

CONSTANTS
    Queries,            \* the queries of the app, each with its target
    MaxListens,         \* bound on the listeners added
    MaxEvents           \* bound on the disturbances: see Event

ASSUME WatchAssumption == MaxListens \in Nat /\ MaxEvents \in Nat

(* A listener of addSnapshotListener, or one of get(): the latter has      *)
(* wait_for_sync_when_online.                                              *)
Listener == [query : Queries, waits : BOOLEAN]

VARIABLES
    listening,  \* event manager: the listeners of queries_
    raised,     \* query listener: those with raised_initial_event_
    targets,    \* remote store: listen_targets_
    empty,      \* local store: does the cache hold no document of a query?
    synced,     \* view: is a query's sync_state_ Synced?
    network,    \* remote store: is_network_enabled_
    stream,     \* watch stream: state_
    idle,       \* watch stream: is idleness_timer_ running?
    tracker,    \* online state tracker: state_, online_state_timer_ and
                \* watch_stream_failures_
    pending,    \* aggregator: outstanding_responses_ of each target
    states,     \* aggregator: the rest of target_states_, see TargetState
    news,       \* aggregator: empty with pending_document_updates_ applied
    resets,     \* aggregator: pending_target_resets_
    up,         \* requests on their way to the server, by target
    down,       \* responses on their way to the client, by target
    served,     \* the server: the request a target is added for, or 0,
                \* whether it has been sent CURRENT, and whether a snapshot
                \* is due for it
    watches,    \* history: requests to watch a target
    listens,    \* listeners added so far
    miscount,   \* history: has pending ever been wrong?
    events      \* disturbances so far

heardVars == <<pending, states, news, resets>>
connVars  == <<heardVars, up, down, served>>
appVars   == <<listening, raised, synced, empty>>

vars == <<appVars, targets, network, stream, idle, tracker, connVars, watches,
          listens, miscount, events>>

Tracker  == [state : {"Unknown", "Online", "Offline"}, timer : BOOLEAN,
             failures : Nat]
Ask      == [kind : {"add", "remove"}, watch : Nat]

(* A "change" brings a target documents, the loss of those it had, CURRENT *)
(* or no more than a resume token: empty says what it leaves.              *)
Response == [kind : {"added", "removed", "refused", "change", "reset",
                     "mismatch", "snapshot"},
             watch : Nat, empty : BOOLEAN, current : BOOLEAN]

(* current_ as the request whose CURRENT set it, 0 for none;               *)
(* has_pending_changes_; and as a history, whether current_ has outlived   *)
(* its request, the next one being sent before the removal was answered.   *)
(* A state that a request makes has pending changes too, which its         *)
(* response clears: only those of a state that Reset makes matter.         *)
TargetState == [current : Nat, changed : BOOLEAN, kept : BOOLEAN]
Fresh       == [current |-> 0, changed |-> FALSE, kept |-> FALSE]

None == [q \in Queries |-> << >>]
Idle == [watch |-> 0, current |-> FALSE, due |-> FALSE]

Init ==
    /\ listening = {}
    /\ raised = {}
    /\ targets = {}
    /\ empty \in [Queries -> BOOLEAN]
    /\ synced = [q \in Queries |-> FALSE]
    /\ network = TRUE
    /\ stream = "Initial"
    /\ idle = FALSE
    /\ tracker = [state |-> "Unknown", timer |-> FALSE, failures |-> 0]
    /\ pending = [q \in Queries |-> 0]
    /\ states = [q \in Queries |-> Fresh]
    /\ news = empty
    /\ resets = {}
    /\ up = None
    /\ down = None
    /\ served = [q \in Queries |-> Idle]
    /\ watches = [q \in Queries |-> 0]
    /\ listens = 0
    /\ miscount = FALSE
    /\ events = 0

\* A disturbance: a lost connection, a refused or reset target, new content,
\* the network switched, a change of credentials, a listener removed.
Event == events < MaxEvents /\ events' = events + 1

-----------------------------------------------------------------------------
(* OnlineStateTracker.                                                     *)

HandleWatchStreamStart(t) ==
    IF t.failures # 0 THEN t
    ELSE [state |-> "Unknown", timer |-> TRUE, failures |-> 0]

\* Mutant: the timer runs on.
HandleWatchStreamFailureMutant(t) ==
    IF t.state = "Online" THEN [t EXCEPT !.state = "Unknown"]
    ELSE [t EXCEPT !.state = "Offline", !.failures = @ + 1]

\* kMaxWatchStreamFailures is 1.
HandleWatchStreamFailure(t) ==
    IF t.state = "Online" THEN [t EXCEPT !.state = "Unknown"]
    ELSE [state |-> "Offline", timer |-> FALSE, failures |-> t.failures + 1]

UpdateState(s) == [state |-> s, timer |-> FALSE, failures |-> 0]

-----------------------------------------------------------------------------
(* Listeners.                                                              *)

\* Mutants: a get() waits on when offline; an empty cache is raised.
RaisesInitialEventMutant(l, syn, emp, state) ==
    syn[l.query] \/ (~l.waits /\ (state = "Offline" \/ ~emp[l.query]))
RaisesInitialEventMutant2(l, syn, emp, state) ==
    syn[l.query] \/ state = "Offline" \/ ~l.waits

\* ShouldRaiseInitialEvent.
RaisesInitialEvent(l, syn, emp, state) ==
    \/ syn[l.query]
    \/ state = "Offline"
    \/ ~l.waits /\ ~emp[l.query]

\* Mutant: what is kept of a listener survives it.
AnnounceMutant(t, ls, syn, emp) ==
    /\ tracker' = t
    /\ listening' = ls
    /\ synced' = IF t.state = "Offline" THEN [q \in Queries |-> FALSE] ELSE syn
    /\ empty' = emp
    /\ raised' = raised \cup
           {l \in ls : RaisesInitialEvent(l, synced', emp, t.state)}

(* The tracker becomes t, the listeners ls, the views syn and emp: going   *)
(* offline no view remains synced (ApplyOnlineStateChange), and a listener *)
(* that has not been answered is, if it should (OnOnlineStateChanged,      *)
(* OnViewSnapshot).                                                        *)
Announce(t, ls, syn, emp) ==
    LET now == IF t.state = "Offline" THEN [q \in Queries |-> FALSE] ELSE syn
    IN  /\ tracker' = t
        /\ listening' = ls
        /\ synced' = now
        /\ empty' = emp
        /\ raised' = {l \in ls : \/ l \in raised
                                 \/ RaisesInitialEvent(l, now, emp, t.state)}

-----------------------------------------------------------------------------
(* The watch stream.                                                       *)

IsStarted(s) == s \in {"Starting", "Open", "Backoff"}

ShouldStartWatchStream(on, s, ts) == on /\ ~IsStarted(s) /\ ts # {}

\* Stream::Start: after an error by way of a backoff.
Started(s) == IF s = "Error" THEN "Backoff" ELSE "Starting"

(* SendWatchRequest and SendUnwatchRequest for the queries qs, whose       *)
(* targets have the states st: each counts as a response due, and a target *)
(* that is added again before it is known to be gone keeps its state.      *)
Send(qs, kinds, st) ==
    LET n      == Len(kinds)
        adds   == kinds[n] = "add"
        Req(q) == [i \in 1..n |-> [kind |-> kinds[i], watch |-> watches'[q]]]
    IN  /\ watches' = [q \in Queries |-> IF q \in qs /\ adds THEN watches[q] + 1
                                         ELSE watches[q]]
        /\ pending' = [q \in Queries |-> IF q \in qs THEN pending[q] + n
                                                     ELSE pending[q]]
        /\ states' = [q \in Queries |->
               IF q \in qs /\ adds /\ pending'[q] # 1 /\ st[q].current # 0
               THEN [st[q] EXCEPT !.kept = TRUE] ELSE st[q]]
        /\ up' = [q \in Queries |-> IF q \in qs THEN up[q] \o Req(q) ELSE up[q]]

\* The connection is gone, and the aggregator with it.
Disconnected ==
    /\ pending' = [q \in Queries |-> 0]
    /\ states' = [q \in Queries |-> Fresh]
    /\ news' = empty
    /\ resets' = {}
    /\ up' = None
    /\ down' = None
    /\ served' = [q \in Queries |-> Idle]
    /\ idle' = FALSE

\* What the tracker becomes when a Stop closes the stream.
Stopped(t) == IF IsStarted(stream) THEN UpdateState("Unknown") ELSE t
StateAfterStop == IF IsStarted(stream) THEN "Initial" ELSE stream

\* Is pending the number of responses on their way?  Refused can break that.
Responds(m) == m.kind \in {"added", "removed", "refused"}
Exact(q)    == pending[q] = Len(up[q]) + Cardinality(
                   {i \in 1..Len(down[q]) : Responds(down[q][i])})

-----------------------------------------------------------------------------
(* The app.                                                                *)

\* AddQueryListener, SyncEngine::Listen, RemoteStore::Listen.
AddListener(l) ==
    LET q  == l.query
        ts == targets \cup {q}
        starts == ShouldStartWatchStream(network, stream, ts)
    IN  /\ listens < MaxListens
        /\ listens' = listens + 1
        /\ l \notin listening
        /\ targets' = ts
        /\ stream' = IF starts THEN Started(stream) ELSE stream
        /\ Announce(IF starts THEN HandleWatchStreamStart(tracker) ELSE tracker,
                    listening \cup {l}, synced, empty)
        /\ IF q \notin targets /\ stream = "Open"
           THEN Send({q}, <<"add">>, states) /\ idle' = FALSE
           ELSE UNCHANGED <<pending, states, up, watches, idle>>
        /\ UNCHANGED <<network, news, resets, down, served, miscount, events>>

\* RemoveQueryListener, SyncEngine::StopListening, RemoteStore::StopListening.
RemoveListener(l) ==
    LET q    == l.query
        rest == listening \ {l}
        ends == \A k \in rest : k.query # q
        ts   == targets \ {q}
    IN  /\ Event
        /\ l \in listening
        /\ targets' = IF ends THEN ts ELSE targets
        /\ Announce(IF ends /\ ts = {} /\ stream # "Open" /\ network
                    THEN UpdateState("Unknown") ELSE tracker,
                    rest, IF ends THEN [synced EXCEPT ![q] = FALSE] ELSE synced,
                    empty)
        /\ IF ends /\ stream = "Open"
           THEN Send({q}, <<"remove">>, states) /\ idle' = (ts = {})
           ELSE UNCHANGED <<pending, states, up, watches, idle>>
        /\ UNCHANGED <<network, stream, news, resets, down, served, listens,
                       miscount>>

DisableNetwork ==
    /\ Event
    /\ network
    /\ network' = FALSE
    /\ stream' = StateAfterStop
    /\ Disconnected
    /\ Announce(UpdateState("Offline"), listening, synced, empty)
    /\ UNCHANGED <<targets, watches, listens, miscount>>

\* EnableNetwork from the stream's state s and the tracker t.
StartsAgain(s, t) ==
    LET starts == ShouldStartWatchStream(TRUE, s, targets)
    IN  /\ network' = TRUE
        /\ stream' = IF starts THEN Started(s) ELSE s
        /\ Announce(IF starts THEN HandleWatchStreamStart(t)
                    ELSE UpdateState("Unknown"), listening, synced, empty)

EnableNetwork ==
    /\ IF network THEN Event ELSE UNCHANGED events
    /\ StartsAgain(stream, tracker)
    /\ UNCHANGED <<targets, idle, connVars, watches, listens, miscount>>

HandleCredentialChange ==
    /\ Event
    /\ network
    /\ Disconnected
    /\ StartsAgain(StateAfterStop, UpdateState("Unknown"))
    /\ UNCHANGED <<targets, watches, listens, miscount>>

-----------------------------------------------------------------------------
(* The stream's life.                                                      *)

\* The token is there, the stream opens: OnWatchStreamOpen.
OpenStream ==
    /\ stream = "Starting"
    /\ stream' = "Open"
    /\ Send(targets, <<"add">>, states)
    /\ UNCHANGED <<appVars, targets, network, idle, tracker, news, resets, down,
                   served, listens, miscount, events>>

\* An error of the stream, or of the token: OnWatchStreamClose.
StreamFails ==
    /\ Event
    /\ stream \in {"Starting", "Open"}
    /\ Disconnected
    /\ IF ShouldStartWatchStream(network, "Error", targets)
       THEN /\ stream' = Started("Error")
            /\ Announce(HandleWatchStreamStart(HandleWatchStreamFailure(tracker)),
                        listening, synced, empty)
       ELSE /\ stream' = "Error"
            /\ Announce(UpdateState("Unknown"), listening, synced, empty)
    /\ UNCHANGED <<targets, network, watches, listens, miscount>>

BackoffElapses ==
    /\ stream = "Backoff"
    /\ stream' = "Starting"
    /\ UNCHANGED <<appVars, targets, network, idle, tracker, connVars, watches,
                   listens, miscount, events>>

IdleElapses ==
    /\ idle
    /\ stream' = StateAfterStop
    /\ Disconnected
    /\ Announce(Stopped(tracker), listening, synced, empty)
    /\ UNCHANGED <<targets, network, watches, listens, miscount, events>>

\* Nothing has been heard for kOnlineStateTimeout.
OnlineStateTimeout ==
    /\ tracker.timer
    /\ Announce([tracker EXCEPT !.timer = FALSE, !.state = "Offline"],
                listening, synced, empty)
    /\ UNCHANGED <<targets, network, stream, idle, connVars, watches, listens,
                   miscount, events>>

-----------------------------------------------------------------------------
(* OnWatchStreamChange: the client handles the next response for q, and is *)
(* online.                                                                 *)

Handles(q) ==
    /\ stream = "Open"
    /\ down[q] # << >>

Takes(q) == down' = [down EXCEPT ![q] = Tail(@)]

\* Mutant: responses that are due do not matter.
ActiveMutant(q) == q \in targets

\* IsActiveTarget: nothing is due for a target the client still listens to.
Active(q) == q \in targets /\ pending[q] = 0

(* The server has added or removed a target: one response less is due.     *)
(* When it was the last one, a target that is gone is forgotten, and of    *)
(* one that is back the changes are: current_ stays (ClearPendingChanges). *)
TargetResponse(q) ==
    LET added == Head(down[q]).kind = "added"
    IN  /\ Handles(q)
        /\ Head(down[q]).kind \in {"added", "removed"}
        /\ Takes(q)
        /\ pending' = [pending EXCEPT ![q] = @ - 1]
        /\ states' = [states EXCEPT ![q] =
               IF pending'[q] # 0 THEN @
               ELSE IF added THEN [@ EXCEPT !.changed = FALSE] ELSE Fresh]
        /\ Announce(UpdateState("Online"), listening, synced, empty)
        /\ UNCHANGED <<targets, network, stream, idle, news, resets, up, served,
                       watches, listens, miscount, events>>

\* Documents, CURRENT or a resume token, noted of an active target.
Change(q) ==
    LET m == Head(down[q])
    IN  /\ Handles(q)
        /\ m.kind = "change"
        /\ Takes(q)
        /\ IF Active(q)
           THEN /\ states' = [states EXCEPT ![q] =
                       IF m.current
                       THEN [current |-> m.watch, changed |-> TRUE, kept |-> FALSE]
                       ELSE [@ EXCEPT !.changed = TRUE]]
                /\ news' = [news EXCEPT ![q] = m.empty]
           ELSE UNCHANGED <<states, news>>
        /\ Announce(UpdateState("Online"), listening, synced, empty)
        /\ UNCHANGED <<targets, network, stream, idle, pending, resets, up,
                       served, watches, listens, miscount, events>>

(* ResetTarget, for the server's RESET or an existence filter that does    *)
(* not match: the state of an active target is made anew, and of the       *)
(* filter it is noted that the target has to be requested again.           *)
Reset(q) ==
    /\ Handles(q)
    /\ Head(down[q]).kind \in {"reset", "mismatch"}
    /\ Takes(q)
    /\ states' = [states EXCEPT ![q] =
           IF Active(q) THEN [Fresh EXCEPT !.changed = TRUE] ELSE @]
    /\ resets' = IF Active(q) /\ Head(down[q]).kind = "mismatch"
                 THEN resets \cup {q} ELSE resets
    /\ Announce(UpdateState("Online"), listening, synced, empty)
    /\ UNCHANGED <<targets, network, stream, idle, pending, news, up, served,
                   watches, listens, miscount, events>>

(* RaiseWatchSnapshot, CreateRemoteEvent: the documents noted go to the    *)
(* cache; the view of an active target that has changes is synced if the   *)
(* target is current; one that was reset by a filter is removed and added  *)
(* again, whatever is due for it.                                          *)
Snapshot(q) ==
    LET hits  == Active(q) /\ states[q].changed
        again == q \in resets /\ q \in targets
        rest  == [states EXCEPT ![q].changed = @ /\ ~hits]
    IN  /\ Handles(q)
        /\ Head(down[q]).kind = "snapshot"
        /\ Takes(q)
        /\ resets' = resets \ {q}
        /\ IF again
           THEN Send({q}, <<"remove", "add">>, rest) /\ idle' = FALSE
           ELSE states' = rest /\ UNCHANGED <<watches, pending, up, idle>>
        /\ Announce(UpdateState("Online"), listening,
                [synced EXCEPT ![q] = IF hits THEN states[q].current # 0 ELSE @],
                [empty EXCEPT ![q] = news[q]])
        /\ UNCHANGED <<targets, network, stream, news, served, listens, miscount,
                       events>>

(* ProcessTargetError, HandleRejectedListen: the listeners of the query    *)
(* get the error and are gone; a target that was removed already is        *)
(* ignored.                                                                *)
Refused(q) ==
    /\ Handles(q)
    /\ Head(down[q]).kind = "refused"
    /\ Takes(q)
    /\ targets' = targets \ {q}
    /\ IF q \in targets
       THEN /\ pending' = [pending EXCEPT ![q] = 0]
            /\ states' = [states EXCEPT ![q] = Fresh]
       ELSE UNCHANGED <<pending, states>>
    /\ Announce(UpdateState("Online"),
                {l \in listening : l.query # q},
                [synced EXCEPT ![q] = FALSE], empty)
    /\ UNCHANGED <<network, stream, idle, news, resets, up, served, watches,
                   listens, events>>
    /\ miscount' = (miscount \/ ~Exact(q)')

-----------------------------------------------------------------------------
(* The server: it answers the requests for a target in their order, sends  *)
(* CURRENT for one it has added, and changes or a reset when it has them;  *)
(* a snapshot follows.                                                     *)

Answers(q, kind) ==
    /\ up[q] # << >>
    /\ up' = [up EXCEPT ![q] = Tail(@)]
    /\ down' = [down EXCEPT ![q] = Append(@,
           [kind |-> kind, watch |-> Head(up[q]).watch, empty |-> FALSE,
            current |-> FALSE])]
    /\ UNCHANGED <<appVars, targets, network, stream, idle, tracker, heardVars,
                   watches, listens, miscount>>

ServerAdds(q) ==
    /\ Answers(q, "added")
    /\ Head(up[q]).kind = "add"
    /\ served' = [served EXCEPT ![q].watch = Head(up[q]).watch,
                                ![q].current = FALSE]
    /\ UNCHANGED events

ServerRefuses(q) ==
    /\ Event
    /\ Answers(q, "refused")
    /\ Head(up[q]).kind = "add"
    /\ served' = served

ServerRemoves(q) ==
    /\ Answers(q, "removed")
    /\ Head(up[q]).kind = "remove"
    /\ served' = [served EXCEPT ![q].watch = 0, ![q].current = FALSE]
    /\ UNCHANGED events

Sends(q, kind, e, current) ==
    /\ down' = [down EXCEPT ![q] = Append(@,
           [kind |-> kind, watch |-> served[q].watch, empty |-> e,
            current |-> current])]
    /\ UNCHANGED <<appVars, targets, network, stream, idle, tracker, heardVars,
                   up, watches, listens, miscount>>

ServerCurrent(q, e) ==
    /\ served[q].watch # 0
    /\ ~served[q].current
    /\ Sends(q, "change", e, TRUE)
    /\ served' = [served EXCEPT ![q].current = TRUE, ![q].due = TRUE]
    /\ UNCHANGED events

ServerChange(q, e) ==
    /\ Event
    /\ served[q].watch # 0
    /\ Sends(q, "change", e, FALSE)
    /\ served' = [served EXCEPT ![q].due = TRUE]

\* After a RESET the target is to become CURRENT again.
ServerReset(q, kind) ==
    /\ Event
    /\ served[q].watch # 0
    /\ Sends(q, kind, FALSE, FALSE)
    /\ served' = [served EXCEPT ![q].current = @ /\ kind = "mismatch",
                                ![q].due = TRUE]

ServerSnapshot(q) ==
    /\ served[q].due
    /\ Sends(q, "snapshot", FALSE, FALSE)
    /\ served' = [served EXCEPT ![q].due = FALSE]
    /\ UNCHANGED events

-----------------------------------------------------------------------------
Handle(q) ==
    TargetResponse(q) \/ Change(q) \/ Reset(q) \/ Snapshot(q) \/ Refused(q)

Client == OpenStream \/ BackoffElapses \/ \E q \in Queries : Handle(q)

Server ==
    \E q \in Queries :
        \/ ServerAdds(q)
        \/ ServerRemoves(q)
        \/ \E e \in BOOLEAN : ServerCurrent(q, e)
        \/ ServerSnapshot(q)

Next ==
    \/ \E l \in Listener : AddListener(l) \/ RemoveListener(l)
    \/ DisableNetwork \/ EnableNetwork \/ HandleCredentialChange
    \/ StreamFails \/ IdleElapses \/ OnlineStateTimeout
    \/ Client \/ Server
    \/ \E q \in Queries :
           \/ ServerRefuses(q)
           \/ \E e \in BOOLEAN : ServerChange(q, e)
           \/ \E kind \in {"reset", "mismatch"} : ServerReset(q, kind)

Spec == Init /\ [][Next]_vars

(* The worker queue runs what it has to and its timers elapse.  Nothing is *)
(* assumed of the server: it may not answer, and then no error need come.  *)
FairSpec == Spec /\ WF_vars(Client) /\ WF_vars(OnlineStateTimeout)

-----------------------------------------------------------------------------
(* Properties.                                                             *)

\* The types of the variables.
TypeOK ==
    /\ listening \subseteq Listener /\ raised \subseteq listening
    /\ targets = {l.query : l \in listening}
    /\ empty \in [Queries -> BOOLEAN] /\ synced \in [Queries -> BOOLEAN]
    /\ network \in BOOLEAN /\ idle \in BOOLEAN /\ miscount \in BOOLEAN
    /\ stream \in {"Initial", "Starting", "Open", "Backoff", "Error"}
    /\ tracker \in Tracker
    /\ pending \in [Queries -> Int] /\ states \in [Queries -> TargetState]
    /\ news \in [Queries -> BOOLEAN] /\ resets \subseteq Queries
    /\ up \in [Queries -> Seq(Ask)] /\ down \in [Queries -> Seq(Response)]
    /\ served \in [Queries -> [watch : Nat, current : BOOLEAN, due : BOOLEAN]]
    /\ watches \in [Queries -> Nat]
    /\ listens \in 0..MaxListens /\ events \in 0..MaxEvents

(* The assertions of the client (HARD_ASSERT): the timer of the online     *)
(* state runs only in Unknown, and only while the stream is started, so    *)
(* that no start finds it running; Online has no failures behind it; the   *)
(* stream is idle only when nothing is listened to.                        *)
AssertionsHold ==
    /\ tracker.timer => tracker.state = "Unknown" /\ IsStarted(stream)
    /\ tracker.state = "Online" => tracker.failures = 0 /\ stream = "Open"
    /\ tracker.failures > 0 => tracker.state = "Offline"
    /\ idle => stream = "Open" /\ targets = {}

\* With something to listen to and a network, the stream is on its way.
NeverStalls == network /\ targets # {} => IsStarted(stream)

\* Every handler leaves the stream, its timer and its idle timer as the
\* targets and the network want them.
StreamIsRight == AssertionsHold /\ NeverStalls

(* Offline, every listener has been answered from the cache and no view    *)
(* claims to be in sync; a synced view is one somebody listens to.         *)
OfflineIsAnswered ==
    /\ tracker.state = "Offline" => /\ raised = listening
                                    /\ \A q \in Queries : ~synced[q]
    /\ \A q \in Queries : synced[q] => q \in targets

(* A listener is first told "no documents" from the cache only when the    *)
(* server is given up, and a get() gets the cache's documents only then.   *)
CacheOnlyOffline ==
    [][\A l \in raised' \ raised :
          synced'[l.query] \/ tracker'.state = "Offline"
              \/ (~l.waits /\ ~empty'[l.query])]_vars

\* Offline, and only then, the cache answers for the server.
CacheIsForOffline == []OfflineIsAnswered /\ CacheOnlyOffline

(* As long as responses are counted right (see Refused), a view becomes    *)
(* synced only by a snapshot sent for the present request, and by that     *)
(* request's CURRENT: what was on its way for an earlier one is left out,  *)
(* however often a query was dropped and taken up again.  Left out by      *)
(* name is a target that is requested again before the server has answered *)
(* its removal: it keeps the earlier CURRENT (kept), although the comment  *)
(* in HandleTargetChange means to reset what was noted before, and a       *)
(* change and a snapshot that come before the new CURRENT sync its view.   *)
SyncedByItsOwn ==
    [][\A q \in Queries :
          ~miscount /\ ~synced[q] /\ synced'[q] =>
              /\ Head(down[q]).watch = watches[q]
              /\ states[q].current = watches[q] \/ states[q].kept]_vars

(* The online state is unknown, somebody listens, and no timer will end    *)
(* it.  It comes to that when the last listener leaves while the stream is *)
(* being started and another one comes, or when an enabled network is      *)
(* enabled.                                                                *)
Untimed == network /\ targets # {} /\ tracker.state = "Unknown" /\ ~tracker.timer

(* But for that, though the server never say a word, again and again every *)
(* listener there is has been answered or the client has heard of the      *)
(* server: the timeout ends in Offline.                                    *)
AnsweredInTime ==
    []~Untimed => []<>(raised = listening \/ tracker.state = "Online")

\* When the server does what it is asked to, and responses are counted right,
\* every listener is answered, Untimed or not.
AnsweredByServer ==
    WF_vars(Server) /\ []~miscount => []<>(raised = listening)

(* No listener waits for good, if the server answers; if it does not, none *)
(* waits for a client that has not heard of it.  A server that was heard   *)
(* and then falls silent may leave a listener waiting.                     *)
ListenersAreAnswered == AnsweredInTime /\ AnsweredByServer
=============================================================================
