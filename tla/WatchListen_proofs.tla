------------------------- MODULE WatchListen_proofs -------------------------
(***************************************************************************)
(* What the listen side of the Firestore client guarantees for any         *)
(* queries, any number of listeners and any order of responses, failures,  *)
(* time-outs and switches of the network.  First the tracker, the stream   *)
(* and the listeners (IndInv), then what is on the wire (WireInv).         *)
(***************************************************************************)
EXTENDS WatchListen, FiniteSetTheorems, TLAPS

Content == [Queries -> BOOLEAN]

(* What the assertions of the client ask of the tracker t while the        *)
(* stream is in state s.                                                   *)
Sound(t, s) ==
    /\ t \in Tracker
    /\ t.timer => t.state = "Unknown" /\ IsStarted(s)
    /\ t.state = "Online" => t.failures = 0 /\ s = "Open"
    /\ t.failures > 0 => t.state = "Offline"

\* A stream that starts finds no timer running, and sets one unless there have
\* been failures.
LEMMA StartFacts ==
    ASSUME NEW t \in Tracker, t.timer = FALSE,
           t.failures > 0 => t.state = "Offline", NEW s, IsStarted(s)
    PROVE  Sound(HandleWatchStreamStart(t), s)
<1>1. CASE t.failures = 0
  BY <1>1 DEF HandleWatchStreamStart, Tracker, Sound
<1>2. CASE t.failures # 0
  <2>1. HandleWatchStreamStart(t) = t /\ t.failures > 0
    BY <1>2 DEF HandleWatchStreamStart, Tracker
  <2> QED
    BY <2>1 DEF Sound
<1> QED
  BY <1>1, <1>2

\* A failure ends Online, and one more means Offline; no timer is left.
LEMMA FailureFacts ==
    ASSUME NEW t \in Tracker, NEW s, Sound(t, s)
    PROVE  /\ HandleWatchStreamFailure(t) \in Tracker
           /\ HandleWatchStreamFailure(t).timer = FALSE
           /\ HandleWatchStreamFailure(t).failures > 0 =>
                  HandleWatchStreamFailure(t).state = "Offline"
<1>1. CASE t.state = "Online"
  BY <1>1 DEF HandleWatchStreamFailure, Tracker, Sound
<1>2. CASE t.state # "Online"
  BY <1>2 DEF HandleWatchStreamFailure, Tracker
<1> QED
  BY <1>1, <1>2

\* A state that is given has no failures and no timer.
LEMMA UpdateFacts ==
    ASSUME NEW st \in {"Unknown", "Online", "Offline"}, NEW s,
           st = "Online" => s = "Open"
    PROVE  UpdateState(st).timer = FALSE /\ Sound(UpdateState(st), s)
BY DEF UpdateState, Tracker, Sound

\* A listener that was not answered is answered by a synced view, when offline,
\* or, if it does not wait, from a cache that has something; offline all are.
LEMMA AnnounceFacts ==
    ASSUME NEW t \in Tracker, NEW ls \in SUBSET Listener,
           NEW syn \in Content, NEW emp \in Content,
           Announce(t, ls, syn, emp)
    PROVE  /\ tracker' = t /\ listening' = ls /\ empty' = emp
           /\ synced' \in Content /\ raised' \subseteq ls
           /\ \A q \in Queries : synced'[q] => syn[q]
           /\ t.state = "Offline" =>
                  raised' = ls /\ \A q \in Queries : ~synced'[q]
           /\ \A l \in raised' \ raised :
                  synced'[l.query] \/ tracker'.state = "Offline"
                      \/ (~l.waits /\ ~empty'[l.query])
<1>1. tracker' = t /\ listening' = ls /\ empty' = emp
  BY DEF Announce
<1>2. synced' = IF t.state = "Offline" THEN [q \in Queries |-> FALSE] ELSE syn
  BY DEF Announce
<1>3. raised' = {l \in ls : l \in raised
                               \/ RaisesInitialEvent(l, synced', emp, t.state)}
  BY <1>2 DEF Announce
<1>4. synced' \in Content /\ \A q \in Queries : synced'[q] => syn[q]
  BY <1>2 DEF Content
<1>5. t.state = "Offline" => raised' = ls /\ \A q \in Queries : ~synced'[q]
  BY <1>2, <1>3 DEF RaisesInitialEvent
<1>6. \A l \in raised' \ raised :
          synced'[l.query] \/ tracker'.state = "Offline"
              \/ (~l.waits /\ ~empty'[l.query])
  BY <1>1, <1>3 DEF RaisesInitialEvent
<1> QED
  BY <1>1, <1>3, <1>4, <1>5, <1>6

(* The invariant: the types, a stream that is as it should be, and         *)
(* listeners that are answered when offline.                               *)
IndInv == TypeOK /\ StreamIsRight /\ OfflineIsAnswered

\* Whoever is newly answered is answered by the right side.
Answering ==
    \A l \in raised' \ raised :
        synced'[l.query] \/ tracker'.state = "Offline"
            \/ (~l.waits /\ ~empty'[l.query])

\* What the wire and the requests are, whatever their number.
WireOK ==
    /\ pending \in [Queries -> Int] /\ states \in [Queries -> TargetState]
    /\ news \in Content /\ resets \subseteq Queries
    /\ up \in [Queries -> Seq(Ask)] /\ down \in [Queries -> Seq(Response)]
    /\ served \in [Queries -> [watch : Nat, current : BOOLEAN, due : BOOLEAN]]
    /\ watches \in [Queries -> Nat]

\* The stream, its timers and the tracker, as they are left by a handler.
StreamOK ==
    /\ network \in BOOLEAN /\ idle \in BOOLEAN
    /\ stream \in {"Initial", "Starting", "Open", "Backoff", "Error"}
    /\ tracker \in Tracker

LEMMA TypeParts ==
    ASSUME TypeOK
    PROVE  /\ listening \subseteq Listener /\ raised \subseteq listening
           /\ targets = {l.query : l \in listening}
           /\ empty \in Content /\ synced \in Content
           /\ miscount \in BOOLEAN
           /\ StreamOK /\ WireOK
           /\ listens \in 0..MaxListens /\ events \in 0..MaxEvents
BY DEF TypeOK, Content, StreamOK, WireOK

LEMMA PartsMakeType ==
    ASSUME listening' \subseteq Listener, raised' \subseteq listening',
           targets' = {l.query : l \in listening'},
           empty' \in Content, synced' \in Content, miscount' \in BOOLEAN,
           StreamOK', WireOK',
           listens' \in 0..MaxListens, events' \in 0..MaxEvents
    PROVE  TypeOK'
BY DEF TypeOK, Content, StreamOK, WireOK

\* One sequence after another ends as the second one does.
LEMMA Joined ==
    ASSUME NEW S, NEW s \in Seq(S), NEW t \in Seq(S), t # << >>
    PROVE  /\ s \o t \in Seq(S) /\ s \o t # << >>
           /\ Len(s \o t) = Len(s) + Len(t)
           /\ (s \o t)[Len(s \o t)] = t[Len(t)]
<1>1. s \o t \in Seq(S) /\ Len(s) \in Nat /\ Len(t) \in Nat
  OBVIOUS
<1>2. Len(s \o t) = Len(s) + Len(t)
  OBVIOUS
<1>3. Len(t) # 0
  OBVIOUS
<1>4. s \o t # << >>
  BY <1>1, <1>2, <1>3
<1>5. (s \o t)[Len(s) + Len(t)] = t[Len(t)]
  BY <1>1, <1>3
<1> QED
  BY <1>1, <1>2, <1>4, <1>5

\* Requests are sent: they join the others, a response is due for each, and a
\* state is only marked, when an add finds it current and something due.
LEMMA SendFacts ==
    ASSUME WireOK, NEW qs \in SUBSET Queries,
           NEW kinds \in Seq({"add", "remove"}), kinds # << >>,
           NEW st \in [Queries -> TargetState], Send(qs, kinds, st)
    PROVE  /\ watches' \in [Queries -> Nat] /\ pending' \in [Queries -> Int]
           /\ states' \in [Queries -> TargetState] /\ up' \in [Queries -> Seq(Ask)]
           /\ \A q \in qs :
                  /\ pending'[q] = pending[q] + Len(kinds)
                  /\ Len(up'[q]) = Len(up[q]) + Len(kinds) /\ up'[q] # << >>
                  /\ up'[q][Len(up'[q])] =
                         [kind |-> kinds[Len(kinds)], watch |-> watches'[q]]
                  /\ kinds[Len(kinds)] = "add" /\ pending'[q] # 1
                         /\ st[q].current # 0 => states'[q].kept
           /\ \A q \in Queries :
                  /\ states'[q].current = st[q].current
                  /\ st[q].kept => states'[q].kept
<1> DEFINE n == Len(kinds)
           Req(q) == [i \in 1..n |-> [kind |-> kinds[i], watch |-> watches'[q]]]
<1>1. n \in Nat \ {0} /\ \A i \in 1..n : kinds[i] \in {"add", "remove"}
  OBVIOUS
<1>2. watches' \in [Queries -> Nat]
  BY DEF Send, WireOK
<1>3. pending' \in [Queries -> Int]
      /\ \A q \in qs : pending'[q] = pending[q] + n
  BY <1>1 DEF Send, WireOK
<1>4. states' = [q \in Queries |->
                   IF q \in qs /\ kinds[n] = "add" /\ pending'[q] # 1 /\ st[q].current # 0
                   THEN [st[q] EXCEPT !.kept = TRUE] ELSE st[q]]
  BY DEF Send
<1>5. \A q \in Queries : st[q] \in TargetState
  OBVIOUS
<1>6. \A q \in Queries :
          LET m == [st[q] EXCEPT !.kept = TRUE]
          IN  m \in TargetState /\ m.kept /\ m.current = st[q].current
  BY <1>5 DEF TargetState
<1>7. states' \in [Queries -> TargetState]
      /\ \A q \in Queries : /\ states'[q].current = st[q].current
                            /\ st[q].kept => states'[q].kept
  BY <1>4, <1>5, <1>6
<1>8. \A q \in qs : kinds[n] = "add" /\ pending'[q] # 1 /\ st[q].current # 0
                      => states'[q].kept
  BY <1>4, <1>6
<1>10. \A q \in Queries : Req(q) \in Seq(Ask) /\ Len(Req(q)) = n
                          /\ Req(q)[n] = [kind |-> kinds[n], watch |-> watches'[q]]
  BY <1>1, <1>2 DEF Ask
<1>11. up' = [q \in Queries |-> IF q \in qs THEN up[q] \o Req(q) ELSE up[q]]
  BY DEF Send
<1> HIDE DEF Req
<1>12. ASSUME NEW q \in Queries
       PROVE  /\ up[q] \in Seq(Ask) /\ Req(q) \in Seq(Ask) /\ Req(q) # << >>
              /\ Len(Req(q)) = n
  <2>1. up[q] \in Seq(Ask)
    BY DEF WireOK
  <2>2. Req(q) \in Seq(Ask) /\ Len(Req(q)) = n
    BY <1>10
  <2> HIDE DEF n
  <2>3. Req(q) # << >>
    BY <1>1, <2>2
  <2> QED
    BY <2>1, <2>2, <2>3
<1>13. ASSUME NEW q \in Queries
       PROVE  /\ up[q] \o Req(q) \in Seq(Ask) /\ up[q] \o Req(q) # << >>
              /\ Len(up[q] \o Req(q)) = Len(up[q]) + n
              /\ (up[q] \o Req(q))[Len(up[q] \o Req(q))]
                     = [kind |-> kinds[n], watch |-> watches'[q]]
  <2> HIDE DEF n
  <2>1. /\ up[q] \o Req(q) \in Seq(Ask) /\ up[q] \o Req(q) # << >>
        /\ Len(up[q] \o Req(q)) = Len(up[q]) + Len(Req(q))
        /\ (up[q] \o Req(q))[Len(up[q] \o Req(q))] = Req(q)[Len(Req(q))]
    BY <1>12, Joined
  <2>2. Len(Req(q)) = n /\ Req(q)[n] = [kind |-> kinds[n], watch |-> watches'[q]]
    BY <1>10
  <2> QED
    BY <2>1, <2>2
<1>14. up' \in [Queries -> Seq(Ask)]
  BY <1>11, <1>12, <1>13
<1>15. ASSUME NEW q \in qs
       PROVE  /\ Len(up'[q]) = Len(up[q]) + n /\ up'[q] # << >>
              /\ up'[q][Len(up'[q])] = [kind |-> kinds[n], watch |-> watches'[q]]
  <2>1. up'[q] = up[q] \o Req(q)
    BY <1>11
  <2> QED
    BY <1>13, <2>1
<1> HIDE DEF n
<1>16. \A q \in qs :
          /\ pending'[q] = pending[q] + n
          /\ Len(up'[q]) = Len(up[q]) + n /\ up'[q] # << >>
          /\ up'[q][Len(up'[q])] = [kind |-> kinds[n], watch |-> watches'[q]]
          /\ kinds[n] = "add" /\ pending'[q] # 1 /\ st[q].current # 0
                 => states'[q].kept
  BY <1>3, <1>8, <1>15
<1> QED
  BY <1>2, <1>3, <1>7, <1>14, <1>16 DEF n

\* The same of one of the queries.
LEMMA SendTo ==
    ASSUME WireOK, NEW qs \in SUBSET Queries,
           NEW kinds \in Seq({"add", "remove"}), kinds # << >>,
           NEW st \in [Queries -> TargetState], Send(qs, kinds, st), NEW q \in qs
    PROVE  /\ pending'[q] = pending[q] + Len(kinds)
           /\ Len(up'[q]) = Len(up[q]) + Len(kinds) /\ up'[q] # << >>
           /\ up'[q][Len(up'[q])] =
                  [kind |-> kinds[Len(kinds)], watch |-> watches'[q]]
           /\ kinds[Len(kinds)] = "add" /\ pending'[q] # 1
                  /\ st[q].current # 0 => states'[q].kept
BY SendFacts

\* The other queries are left as they are.
LEMMA SendOthers ==
    ASSUME WireOK, NEW qs, NEW kinds, NEW st \in [Queries -> TargetState],
           Send(qs, kinds, st), NEW q \in Queries, q \notin qs
    PROVE  /\ pending'[q] = pending[q] /\ up'[q] = up[q]
           /\ watches'[q] = watches[q] /\ states'[q] = st[q]
BY DEF Send, WireOK

\* One request of each of the queries.
LEMMA SendOne ==
    ASSUME WireOK, NEW qs \in SUBSET Queries, NEW kind \in {"add", "remove"},
           Send(qs, <<kind>>, states), UNCHANGED <<news, resets, down, served>>
    PROVE  WireOK'
<1>1. <<kind>> \in Seq({"add", "remove"}) /\ <<kind>> # << >>
  OBVIOUS
<1>2. /\ watches' \in [Queries -> Nat] /\ pending' \in [Queries -> Int]
      /\ states' \in [Queries -> TargetState] /\ up' \in [Queries -> Seq(Ask)]
  BY <1>1, SendFacts DEF WireOK
<1> QED
  BY <1>2 DEF WireOK

\* Without a connection there is nothing on the wire.
LEMMA DisconnectedFacts ==
    ASSUME WireOK, empty \in Content, Disconnected, UNCHANGED watches
    PROVE  WireOK' /\ idle' = FALSE
BY DEF WireOK, Disconnected, None, Idle, TargetState, Fresh

LEMMA EventFacts ==
    ASSUME events \in 0..MaxEvents, Event
    PROVE  events' \in 0..MaxEvents
BY WatchAssumption DEF Event

-----------------------------------------------------------------------------
(* The steps.                                                              *)

LEMMA InitHolds == Init => IndInv
<1> SUFFICES ASSUME Init PROVE IndInv
  OBVIOUS
<1>1. StreamOK
  BY DEF Init, StreamOK, Tracker
<1>2. WireOK
  BY DEF Init, WireOK, None, Idle, TargetState, Fresh, Content
<1>3. TypeOK
  <2>1. targets = {l.query : l \in listening}
    BY DEF Init
  <2>2. empty \in Content /\ synced \in Content /\ miscount \in BOOLEAN
    BY DEF Init, Content
  <2>3. listens \in 0..MaxListens /\ events \in 0..MaxEvents
    BY WatchAssumption DEF Init
  <2>4. listening \subseteq Listener /\ raised \subseteq listening
    BY DEF Init
  <2> QED
    BY <1>1, <1>2, <2>1, <2>2, <2>3, <2>4 DEF TypeOK, Content, StreamOK, WireOK
<1>4. StreamIsRight
  BY DEF Init, StreamIsRight, AssertionsHold, NeverStalls, IsStarted
<1>5. OfflineIsAnswered
  BY DEF Init, OfflineIsAnswered
<1> QED
  BY <1>3, <1>4, <1>5 DEF IndInv

\* What each step keeps and does.
Kept == IndInv' /\ Answering

\* The invariant in the parts the steps need.
LEMMA Parts ==
    ASSUME IndInv
    PROVE  /\ listening \subseteq Listener /\ raised \subseteq listening
           /\ targets = {l.query : l \in listening} /\ targets \subseteq Queries
           /\ empty \in Content /\ synced \in Content
           /\ miscount \in BOOLEAN /\ StreamOK /\ WireOK
           /\ listens \in 0..MaxListens /\ events \in 0..MaxEvents
           /\ Sound(tracker, stream)
           /\ idle => stream = "Open" /\ targets = {}
           /\ network /\ targets # {} => IsStarted(stream)
           /\ tracker.state = "Offline" => raised = listening
           /\ \A q \in Queries : synced[q] => q \in targets
<1>1. TypeOK /\ StreamIsRight /\ OfflineIsAnswered
  BY DEF IndInv
<1>2. Sound(tracker, stream)
  BY <1>1 DEF StreamIsRight, AssertionsHold, TypeOK, Sound
<1>3. targets \subseteq Queries
  BY <1>1 DEF TypeOK, Listener
<1> QED
  BY <1>1, <1>2, <1>3, TypeParts
     DEF StreamIsRight, AssertionsHold, NeverStalls, OfflineIsAnswered

(* A step that announces the tracker t, the listeners ls and the views syn *)
(* and emp keeps the invariant, when t suits the stream, a view is synced  *)
(* only with a target, and the stream is started for the targets.          *)
LEMMA AnnounceKeeps ==
    ASSUME NEW t \in Tracker, NEW ls \in SUBSET Listener,
           NEW syn \in Content, NEW emp \in Content,
           Announce(t, ls, syn, emp),
           targets' = {l.query : l \in ls},
           \A q \in Queries : syn[q] => q \in targets',
           miscount' \in BOOLEAN, network' \in BOOLEAN, idle' \in BOOLEAN,
           stream' \in {"Initial", "Starting", "Open", "Backoff", "Error"},
           WireOK', listens' \in 0..MaxListens, events' \in 0..MaxEvents,
           Sound(t, stream'),
           idle' => stream' = "Open" /\ targets' = {},
           network' /\ targets' # {} => IsStarted(stream')
    PROVE  Kept
<1>1. /\ tracker' = t /\ listening' = ls /\ empty' = emp
      /\ synced' \in Content /\ raised' \subseteq ls
      /\ \A q \in Queries : synced'[q] => syn[q]
      /\ t.state = "Offline" => raised' = ls /\ \A q \in Queries : ~synced'[q]
      /\ Answering
  BY AnnounceFacts DEF Answering
<1>2. StreamOK'
  BY <1>1 DEF StreamOK
<1>3. TypeOK'
  <2>1. targets' = {l.query : l \in listening'}
    BY <1>1
  <2>2. empty' \in Content /\ listening' \subseteq Listener /\ raised' \subseteq listening'
    BY <1>1
  <2> QED
    BY <1>1, <1>2, <2>1, <2>2, PartsMakeType
<1>4. StreamIsRight'
  BY <1>1 DEF StreamIsRight, AssertionsHold, NeverStalls, Sound, IsStarted
<1>5. OfflineIsAnswered'
  BY <1>1 DEF OfflineIsAnswered
<1> QED
  BY <1>1, <1>3, <1>4, <1>5 DEF Kept, IndInv

\* A step that leaves the listeners and the tracker alone.
LEMMA QuietKeeps ==
    ASSUME IndInv, UNCHANGED <<appVars, targets, network, tracker, listens>>,
           miscount' \in BOOLEAN, idle' \in BOOLEAN,
           stream' \in {"Initial", "Starting", "Open", "Backoff", "Error"},
           WireOK', events' \in 0..MaxEvents,
           IsStarted(stream) => IsStarted(stream'),
           stream = "Open" => stream' = "Open",
           idle' => stream' = "Open" /\ targets' = {}
    PROVE  Kept
<1>1. StreamOK'
  BY Parts DEF StreamOK
<1>2. TypeOK'
  BY <1>1, Parts DEF appVars, TypeOK, Content, StreamOK, WireOK
<1>3. StreamIsRight'
  BY Parts DEF appVars, Sound, StreamIsRight, AssertionsHold, NeverStalls, IsStarted
<1>4. OfflineIsAnswered'
  BY DEF appVars, IndInv, OfflineIsAnswered
<1>5. Answering
  BY DEF appVars, Answering
<1> QED
  BY <1>2, <1>3, <1>4, <1>5 DEF Kept, IndInv

LEMMA AddListenerKeeps ==
    ASSUME IndInv, NEW l \in Listener, AddListener(l)
    PROVE  Kept
<1> DEFINE q == l.query
           ts == targets \cup {q}
           starts == ShouldStartWatchStream(network, stream, ts)
           t == IF starts THEN HandleWatchStreamStart(tracker) ELSE tracker
<1>1. q \in Queries
  BY DEF Listener
<1>2. /\ listens' = listens + 1 /\ listens < MaxListens
      /\ targets' = ts
      /\ stream' = IF starts THEN Started(stream) ELSE stream
      /\ Announce(t, listening \cup {l}, synced, empty)
      /\ UNCHANGED <<network, miscount, events>>
  BY DEF AddListener
<1>3. /\ targets' = {k.query : k \in listening \cup {l}}
      /\ listens' \in 0..MaxListens
      /\ listening \cup {l} \in SUBSET Listener
      /\ \A k \in Queries : synced[k] => k \in targets'
  BY <1>2, Parts, WatchAssumption
<1>4. WireOK' /\ idle' = FALSE
  <2>1. CASE q \notin targets /\ stream = "Open"
    <3>1. /\ Send({q}, <<"add">>, states) /\ idle' = FALSE
          /\ UNCHANGED <<news, resets, down, served>>
      BY <2>1 DEF AddListener
    <3> QED
      BY <1>1, <3>1, Parts, SendOne
  <2>2. CASE ~(q \notin targets /\ stream = "Open")
    <3>1. UNCHANGED <<connVars, watches, idle>>
      BY <2>2 DEF AddListener, connVars, heardVars
    <3>2. WireOK'
      BY <3>1, Parts DEF WireOK, connVars, heardVars
    <3> QED
      BY <2>2, <3>1, <3>2, Parts DEF StreamOK
  <2> QED
    BY <2>1, <2>2
<1>5. Sound(t, stream') /\ stream' \in {"Initial", "Starting", "Open", "Backoff", "Error"}
  <2>1. CASE starts
    <3>1. ~IsStarted(stream) /\ IsStarted(stream')
      BY <1>2, <2>1, Parts
         DEF ShouldStartWatchStream, IsStarted, Started, StreamOK
    <3>2. tracker \in Tracker /\ tracker.timer = FALSE
          /\ (tracker.failures > 0 => tracker.state = "Offline")
      BY <3>1, Parts DEF Sound, Tracker
    <3> QED
      BY <2>1, <3>1, <3>2, StartFacts DEF IsStarted
  <2>2. CASE ~starts
    BY <1>2, <2>2, Parts DEF StreamOK
  <2> QED
    BY <2>1, <2>2
<1>6. network' => IsStarted(stream')
  BY <1>2 DEF ShouldStartWatchStream, Started, IsStarted
<1>7. t \in Tracker /\ network' \in BOOLEAN /\ events' \in 0..MaxEvents
      /\ miscount' \in BOOLEAN
  BY <1>2, <1>5, Parts DEF Sound, StreamOK
<1> HIDE DEF t
<1> QED
  BY <1>2, <1>3, <1>4, <1>5, <1>6, <1>7, Parts, AnnounceKeeps

LEMMA RemoveListenerKeeps ==
    ASSUME IndInv, NEW l \in Listener, RemoveListener(l)
    PROVE  Kept
<1> DEFINE q == l.query
           rest == listening \ {l}
           ends == \A k \in rest : k.query # q
           ts == targets \ {q}
           t == IF ends /\ ts = {} /\ stream # "Open" /\ network
                THEN UpdateState("Unknown") ELSE tracker
           syn == IF ends THEN [synced EXCEPT ![q] = FALSE] ELSE synced
<1>1. q \in Queries
  BY DEF Listener
<1>2. /\ Event /\ l \in listening
      /\ targets' = IF ends THEN ts ELSE targets
      /\ Announce(t, rest, syn, empty)
      /\ UNCHANGED <<network, stream, listens, miscount>>
  BY DEF RemoveListener
<1>3. q \in targets /\ idle = FALSE
  BY <1>2, Parts DEF StreamOK
<1>4. targets' = {k.query : k \in rest}
  <2>1. CASE ends
    BY <1>2, <2>1, Parts
  <2>2. CASE ~ends
    BY <1>2, <2>2, Parts
  <2> QED
    BY <2>1, <2>2
<1>5. syn \in Content /\ \A k \in Queries : syn[k] => k \in targets'
  <2>1. CASE ends
    BY <1>1, <1>2, <2>1, Parts DEF Content
  <2>2. CASE ~ends
    BY <1>2, <2>2, Parts
  <2> QED
    BY <2>1, <2>2
<1>6. WireOK' /\ idle' \in BOOLEAN /\ (idle' => stream' = "Open" /\ targets' = {})
  <2>1. CASE ends /\ stream = "Open"
    <3>1. /\ Send({q}, <<"remove">>, states) /\ idle' = (ts = {})
          /\ UNCHANGED <<news, resets, down, served>>
      BY <2>1 DEF RemoveListener
    <3> QED
      BY <1>1, <1>2, <2>1, <3>1, Parts, SendOne
  <2>2. CASE ~(ends /\ stream = "Open")
    <3>1. UNCHANGED <<connVars, watches, idle>>
      BY <2>2 DEF RemoveListener, connVars, heardVars
    <3> QED
      BY <1>3, <3>1, Parts DEF WireOK, connVars, heardVars
  <2> QED
    BY <2>1, <2>2
<1>7. Sound(t, stream')
  BY <1>2, Parts, UpdateFacts
<1>8. network' /\ targets' # {} => IsStarted(stream')
  BY <1>2, <1>3, Parts
<1>9. /\ t \in Tracker /\ network' \in BOOLEAN /\ events' \in 0..MaxEvents
      /\ miscount' \in BOOLEAN /\ rest \in SUBSET Listener
      /\ stream' \in {"Initial", "Starting", "Open", "Backoff", "Error"}
  BY <1>2, <1>7, Parts, EventFacts DEF Sound, StreamOK
<1> HIDE DEF t, syn, rest
<1> QED
  BY <1>2, <1>4, <1>5, <1>6, <1>7, <1>8, <1>9, Parts, AnnounceKeeps

\* A stream that is stopped is not started, and may be started again.
LEMMA StopFacts ==
    ASSUME StreamOK
    PROVE  StateAfterStop \in {"Initial", "Error"}
BY DEF StreamOK, StateAfterStop, IsStarted

\* The stream starts from s when there is something to listen to.
LEMMA StartsAgainKeeps ==
    ASSUME IndInv, NEW s \in {"Initial", "Starting", "Open", "Backoff", "Error"},
           NEW t \in Tracker, t.failures > 0 => t.state = "Offline",
           ~IsStarted(s) => t.timer = FALSE,
           StartsAgain(s, t), WireOK', idle' \in BOOLEAN,
           idle' => s = "Open" /\ targets = {},
           UNCHANGED <<targets, listens, miscount>>, events' \in 0..MaxEvents
    PROVE  Kept
<1> DEFINE starts == ShouldStartWatchStream(TRUE, s, targets)
           r == IF starts THEN HandleWatchStreamStart(t) ELSE UpdateState("Unknown")
<1>1. /\ network' = TRUE
      /\ stream' = IF starts THEN Started(s) ELSE s
      /\ Announce(r, listening, synced, empty)
  BY DEF StartsAgain
<1>2. starts => ~IsStarted(s) /\ targets # {} /\ stream' \in {"Starting", "Backoff"}
  BY <1>1 DEF ShouldStartWatchStream, Started
<1>3. stream' \in {"Initial", "Starting", "Open", "Backoff", "Error"}
  BY <1>1, <1>2
<1>4. Sound(r, stream')
  <2>1. CASE starts
    BY <1>2, <2>1, StartFacts DEF IsStarted
  <2>2. CASE ~starts
    BY <2>2, UpdateFacts
  <2> QED
    BY <2>1, <2>2
<1>5. targets' # {} => IsStarted(stream')
  BY <1>1, <1>2 DEF ShouldStartWatchStream, IsStarted
<1>6. idle' => stream' = "Open" /\ targets' = {}
  BY <1>1, <1>2
<1>7. r \in Tracker /\ network' \in BOOLEAN /\ listening \in SUBSET Listener
      /\ miscount' \in BOOLEAN
  BY <1>1, <1>4, Parts DEF Sound
<1> HIDE DEF r
<1> QED
  BY <1>1, <1>3, <1>4, <1>5, <1>6, <1>7, Parts, AnnounceKeeps

LEMMA DisableNetworkKeeps ==
    ASSUME IndInv, DisableNetwork
    PROVE  Kept
<1> DEFINE t == UpdateState("Offline")
<1>1. /\ Event /\ network' = FALSE /\ stream' = StateAfterStop /\ Disconnected
      /\ Announce(t, listening, synced, empty)
      /\ UNCHANGED <<targets, watches, listens, miscount>>
  BY DEF DisableNetwork
<1>2. WireOK' /\ idle' = FALSE
  BY <1>1, Parts, DisconnectedFacts
<1>3. Sound(t, stream')
  BY UpdateFacts
<1>4. stream' \in {"Initial", "Starting", "Open", "Backoff", "Error"}
  BY <1>1, Parts, StopFacts
<1>5. t \in Tracker /\ events' \in 0..MaxEvents /\ listening \in SUBSET Listener
  BY <1>1, <1>3, Parts, EventFacts DEF Sound
<1> HIDE DEF t
<1> QED
  BY <1>1, <1>2, <1>3, <1>4, <1>5, Parts, AnnounceKeeps

LEMMA EnableNetworkKeeps ==
    ASSUME IndInv, EnableNetwork
    PROVE  Kept
<1>1. /\ StartsAgain(stream, tracker)
      /\ UNCHANGED <<targets, idle, connVars, watches, listens, miscount>>
  BY DEF EnableNetwork
<1>2. events' \in 0..MaxEvents
  BY Parts, EventFacts DEF EnableNetwork
<1>3. WireOK'
  BY <1>1, Parts DEF WireOK, connVars, heardVars
<1>4. /\ tracker \in Tracker /\ (tracker.failures > 0 => tracker.state = "Offline")
      /\ (~IsStarted(stream) => tracker.timer = FALSE)
  BY Parts DEF Sound, Tracker
<1>5. stream \in {"Initial", "Starting", "Open", "Backoff", "Error"} /\ idle' \in BOOLEAN
      /\ (idle' => stream = "Open" /\ targets = {})
  BY <1>1, Parts DEF StreamOK
<1> QED
  BY <1>1, <1>2, <1>3, <1>4, <1>5, StartsAgainKeeps

LEMMA HandleCredentialChangeKeeps ==
    ASSUME IndInv, HandleCredentialChange
    PROVE  Kept
<1> DEFINE t == UpdateState("Unknown")
           s == StateAfterStop
<1>1. /\ Event /\ Disconnected /\ StartsAgain(s, t)
      /\ UNCHANGED <<targets, watches, listens, miscount>>
  BY DEF HandleCredentialChange
<1>2. WireOK' /\ idle' = FALSE
  BY <1>1, Parts, DisconnectedFacts
<1>3. t \in Tracker /\ t.timer = FALSE /\ (t.failures > 0 => t.state = "Offline")
  BY DEF UpdateState, Tracker
<1>4. s \in {"Initial", "Starting", "Open", "Backoff", "Error"}
  BY Parts, StopFacts
<1>5. events' \in 0..MaxEvents /\ idle' \in BOOLEAN
      /\ (idle' => s = "Open" /\ targets = {})
  BY <1>1, <1>2, Parts, EventFacts
<1> HIDE DEF t, s
<1> QED
  BY <1>1, <1>2, <1>3, <1>4, <1>5, StartsAgainKeeps

LEMMA OpenStreamKeeps ==
    ASSUME IndInv, OpenStream
    PROVE  Kept
<1>1. /\ stream = "Starting" /\ stream' = "Open" /\ Send(targets, <<"add">>, states)
      /\ UNCHANGED <<appVars, targets, network, idle, tracker, news, resets, down,
                     served, listens, miscount, events>>
  BY DEF OpenStream
<1>2. WireOK'
  BY <1>1, Parts, SendOne
<1>3. idle' = FALSE /\ miscount' \in BOOLEAN /\ events' \in 0..MaxEvents
  BY <1>1, Parts DEF StreamOK
<1> QED
  BY <1>1, <1>2, <1>3, QuietKeeps DEF IsStarted

LEMMA StreamFailsKeeps ==
    ASSUME IndInv, StreamFails
    PROVE  Kept
<1> DEFINE f == HandleWatchStreamFailure(tracker)
           again == ShouldStartWatchStream(network, "Error", targets)
           t == IF again THEN HandleWatchStreamStart(f) ELSE UpdateState("Unknown")
<1>1. /\ Event /\ Disconnected
      /\ stream' = IF again THEN "Backoff" ELSE "Error"
      /\ Announce(t, listening, synced, empty)
      /\ UNCHANGED <<targets, network, watches, listens, miscount>>
  BY DEF StreamFails, Started
<1>2. WireOK' /\ idle' = FALSE
  BY <1>1, Parts, DisconnectedFacts
<1>3. Sound(t, stream')
  <2>1. CASE again
    <3>1. f \in Tracker /\ f.timer = FALSE /\ (f.failures > 0 => f.state = "Offline")
      BY Parts, FailureFacts DEF Sound
    <3> QED
      BY <1>1, <2>1, <3>1, StartFacts DEF IsStarted
  <2>2. CASE ~again
    BY <2>2, UpdateFacts
  <2> QED
    BY <2>1, <2>2
<1>4. network' /\ targets' # {} => IsStarted(stream')
  BY <1>1 DEF ShouldStartWatchStream, IsStarted
<1>5. t \in Tracker /\ events' \in 0..MaxEvents /\ listening \in SUBSET Listener
      /\ network' \in BOOLEAN /\ miscount' \in BOOLEAN
  BY <1>1, <1>3, Parts, EventFacts DEF Sound, StreamOK
<1> HIDE DEF t
<1> QED
  BY <1>1, <1>2, <1>3, <1>4, <1>5, Parts, AnnounceKeeps

LEMMA BackoffElapsesKeeps ==
    ASSUME IndInv, BackoffElapses
    PROVE  Kept
<1>1. /\ stream = "Backoff" /\ stream' = "Starting"
      /\ UNCHANGED <<appVars, targets, network, idle, tracker, connVars, watches,
                     listens, miscount, events>>
  BY DEF BackoffElapses
<1>2. WireOK'
  BY <1>1, Parts DEF WireOK, connVars, heardVars
<1>3. idle' = FALSE /\ miscount' \in BOOLEAN /\ events' \in 0..MaxEvents
  BY <1>1, Parts DEF StreamOK
<1> QED
  BY <1>1, <1>2, <1>3, QuietKeeps DEF IsStarted

LEMMA IdleElapsesKeeps ==
    ASSUME IndInv, IdleElapses
    PROVE  Kept
<1> DEFINE t == UpdateState("Unknown")
<1>1. /\ idle /\ stream' = StateAfterStop /\ Disconnected
      /\ Announce(Stopped(tracker), listening, synced, empty)
      /\ UNCHANGED <<targets, network, watches, listens, miscount, events>>
  BY DEF IdleElapses
<1>2. stream = "Open" /\ targets = {}
  BY <1>1, Parts
<1>3. Stopped(tracker) = t /\ stream' = "Initial"
  BY <1>1, <1>2 DEF Stopped, StateAfterStop, IsStarted
<1>4. WireOK' /\ idle' = FALSE
  BY <1>1, Parts, DisconnectedFacts
<1>5. Sound(t, stream')
  BY UpdateFacts
<1>6. t \in Tracker /\ events' \in 0..MaxEvents /\ listening \in SUBSET Listener
      /\ network' \in BOOLEAN /\ miscount' \in BOOLEAN
  BY <1>1, <1>5, Parts DEF Sound, StreamOK
<1> HIDE DEF t
<1> QED
  BY <1>1, <1>2, <1>3, <1>4, <1>5, <1>6, Parts, AnnounceKeeps

LEMMA OnlineStateTimeoutKeeps ==
    ASSUME IndInv, OnlineStateTimeout
    PROVE  Kept
<1> DEFINE t == [tracker EXCEPT !.timer = FALSE, !.state = "Offline"]
<1>1. /\ tracker.timer /\ Announce(t, listening, synced, empty)
      /\ UNCHANGED <<targets, network, stream, idle, connVars, watches, listens,
                     miscount, events>>
  BY DEF OnlineStateTimeout
<1>2. WireOK'
  BY <1>1, Parts DEF WireOK, connVars, heardVars
<1>3. t \in Tracker /\ t.timer = FALSE /\ t.state = "Offline"
  BY Parts DEF Sound, Tracker
<1>4. Sound(t, stream')
  BY <1>3 DEF Sound
<1>5. events' \in 0..MaxEvents /\ listening \in SUBSET Listener
      /\ network' \in BOOLEAN /\ idle' \in BOOLEAN /\ miscount' \in BOOLEAN
      /\ stream' \in {"Initial", "Starting", "Open", "Backoff", "Error"}
  BY <1>1, Parts DEF StreamOK
<1> HIDE DEF t
<1> QED
  BY <1>1, <1>2, <1>3, <1>4, <1>5, Parts, AnnounceKeeps

\* A response that is taken leaves the others in their order.
LEMMA TakesFacts ==
    ASSUME WireOK, NEW q \in Queries, Handles(q)
    PROVE  /\ Head(down[q]) \in Response
           /\ [down EXCEPT ![q] = Tail(@)] \in [Queries -> Seq(Response)]
<1>1. down[q] \in Seq(Response) /\ down[q] # << >>
  BY DEF WireOK, Handles
<1>2. Head(down[q]) \in Response /\ Tail(down[q]) \in Seq(Response)
  BY <1>1
<1> QED
  BY <1>2 DEF WireOK

\* A response is handled: the client is online, the stream stays open.
LEMMA ResponseKeeps ==
    ASSUME IndInv, NEW q \in Queries, Handles(q),
           NEW syn \in Content, NEW emp \in Content, NEW ls \in SUBSET listening,
           Announce(UpdateState("Online"), ls, syn, emp),
           targets' = {l.query : l \in ls},
           \A k \in Queries : syn[k] => k \in targets',
           WireOK', miscount' \in BOOLEAN, idle' \in BOOLEAN,
           idle' => idle,
           UNCHANGED <<network, stream, listens, events>>
    PROVE  Kept
<1> DEFINE t == UpdateState("Online")
<1>1. stream' = "Open"
  BY DEF Handles
<1>2. Sound(t, stream')
  BY <1>1, UpdateFacts
<1>3. targets' \subseteq targets /\ ls \in SUBSET Listener
  BY Parts
<1>4. idle' => targets' = {}
  BY <1>3, Parts
<1>5. t \in Tracker /\ events' \in 0..MaxEvents /\ listens' \in 0..MaxListens
      /\ network' \in BOOLEAN /\ IsStarted(stream')
  BY <1>1, <1>2, Parts DEF Sound, StreamOK, IsStarted
<1> HIDE DEF t
<1> QED
  BY <1>1, <1>2, <1>3, <1>4, <1>5, AnnounceKeeps DEF t

LEMMA TargetResponseKeeps ==
    ASSUME IndInv, NEW q \in Queries, TargetResponse(q)
    PROVE  Kept
<1>1. /\ Handles(q) /\ Takes(q) /\ pending' = [pending EXCEPT ![q] = @ - 1]
      /\ \/ states' = states
         \/ states' = [states EXCEPT ![q] = [@ EXCEPT !.changed = FALSE]]
         \/ states' = [states EXCEPT ![q] = Fresh]
      /\ Announce(UpdateState("Online"), listening, synced, empty)
      /\ UNCHANGED <<targets, network, stream, idle, news, resets, up, served,
                     watches, listens, miscount, events>>
  <2>1. states' = [states EXCEPT ![q] =
               IF pending'[q] # 0 THEN @
               ELSE IF Head(down[q]).kind = "added"
                    THEN [@ EXCEPT !.changed = FALSE] ELSE Fresh]
    BY DEF TargetResponse
  <2>2. CASE pending'[q] # 0
    BY <2>1, <2>2, Parts DEF TargetResponse, WireOK
  <2>3. CASE pending'[q] = 0
    BY <2>1, <2>3, Parts DEF TargetResponse, WireOK
  <2> QED
    BY <2>2, <2>3
<1>2. WireOK'
  <2>1. states[q] \in TargetState
    BY Parts DEF WireOK
  <2>2. [states[q] EXCEPT !.changed = FALSE] \in TargetState /\ Fresh \in TargetState
    BY <2>1 DEF TargetState, Fresh
  <2>3. states' \in [Queries -> TargetState]
    BY <1>1, <2>2, Parts DEF WireOK
  <2>4. pending' \in [Queries -> Int] /\ down' \in [Queries -> Seq(Response)]
    BY <1>1, Parts, TakesFacts DEF Takes, WireOK
  <2> QED
    BY <1>1, <2>3, <2>4, Parts DEF WireOK
<1>3. idle' \in BOOLEAN /\ (idle' => idle) /\ miscount' \in BOOLEAN
  BY <1>1, Parts DEF StreamOK
<1>4. targets' = {l.query : l \in listening}
  BY <1>1, Parts
<1> QED
  BY <1>1, <1>2, <1>3, <1>4, Parts, ResponseKeeps

LEMMA ChangeKeeps ==
    ASSUME IndInv, NEW q \in Queries, Change(q)
    PROVE  Kept
<1> DEFINE m == Head(down[q])
           new == IF m.current
                  THEN [current |-> m.watch, changed |-> TRUE, kept |-> FALSE]
                  ELSE [states[q] EXCEPT !.changed = TRUE]
<1>1. /\ Handles(q) /\ Takes(q)
      /\ Announce(UpdateState("Online"), listening, synced, empty)
      /\ UNCHANGED <<targets, network, stream, idle, pending, resets, up, served,
                     watches, listens, miscount, events>>
  BY DEF Change
<1>2. m \in Response /\ down' \in [Queries -> Seq(Response)]
  BY <1>1, Parts, TakesFacts DEF Takes
<1>3. states' \in [Queries -> TargetState] /\ news' \in Content
  <2>1. CASE Active(q)
    <3>1. states' = [states EXCEPT ![q] = new] /\ news' = [news EXCEPT ![q] = m.empty]
      BY <2>1, Parts DEF Change, WireOK
    <3>2. m.watch \in Nat /\ m.empty \in BOOLEAN
      BY <1>2 DEF Response
    <3>3. states[q] \in TargetState
      BY Parts DEF WireOK
    <3>4. new \in TargetState
      BY <3>2, <3>3 DEF TargetState
    <3> HIDE DEF new, m
    <3> QED
      BY <3>1, <3>2, <3>4, Parts DEF WireOK, Content
  <2>2. CASE ~Active(q)
    BY <2>2, Parts DEF Change, WireOK
  <2> QED
    BY <2>1, <2>2
<1>4. WireOK'
  BY <1>1, <1>2, <1>3, Parts DEF WireOK
<1>5. idle' \in BOOLEAN /\ (idle' => idle) /\ miscount' \in BOOLEAN
  BY <1>1, Parts DEF StreamOK
<1>6. targets' = {l.query : l \in listening}
  BY <1>1, Parts
<1> QED
  BY <1>1, <1>4, <1>5, <1>6, Parts, ResponseKeeps

LEMMA ResetKeeps ==
    ASSUME IndInv, NEW q \in Queries, Reset(q)
    PROVE  Kept
<1>1. /\ Handles(q) /\ Takes(q)
      /\ states' = [states EXCEPT ![q] =
             IF Active(q) THEN [Fresh EXCEPT !.changed = TRUE] ELSE @]
      /\ resets' \subseteq resets \cup {q}
      /\ Announce(UpdateState("Online"), listening, synced, empty)
      /\ UNCHANGED <<targets, network, stream, idle, pending, news, up, served,
                     watches, listens, miscount, events>>
  BY DEF Reset
<1>2. [Fresh EXCEPT !.changed = TRUE] \in TargetState
  BY DEF Fresh, TargetState
<1>3. states' \in [Queries -> TargetState] /\ resets' \subseteq Queries
  BY <1>1, <1>2, Parts DEF WireOK
<1>4. WireOK'
  BY <1>1, <1>3, Parts, TakesFacts DEF Takes, WireOK
<1>5. idle' \in BOOLEAN /\ (idle' => idle) /\ miscount' \in BOOLEAN
  BY <1>1, Parts DEF StreamOK
<1>6. targets' = {l.query : l \in listening}
  BY <1>1, Parts
<1> QED
  BY <1>1, <1>4, <1>5, <1>6, Parts, ResponseKeeps

\* A target that is removed and added in one go.
LEMMA BothKinds ==
    <<"remove", "add">> \in Seq({"add", "remove"})
    /\ <<"remove", "add">> # << >>
    /\ Len(<<"remove", "add">>) = 2 /\ <<"remove", "add">>[2] = "add"
OBVIOUS

\* What a snapshot leaves of the states before it sends anything.
Rest(q) == [states EXCEPT ![q].changed = @ /\ ~(Active(q) /\ states[q].changed)]

LEMMA RestFacts ==
    ASSUME WireOK, NEW q \in Queries
    PROVE  /\ Rest(q) \in [Queries -> TargetState]
           /\ \A k \in Queries : /\ Rest(q)[k].current = states[k].current
                                /\ Rest(q)[k].kept = states[k].kept
           /\ \A k \in Queries \ {q} : Rest(q)[k] = states[k]
<1> DEFINE c == states[q].changed /\ ~(Active(q) /\ states[q].changed)
           m == [states[q] EXCEPT !.changed = c]
<1>1. \A k \in Queries : states[k] \in TargetState
  BY DEF WireOK
<1>2. c \in BOOLEAN
  OBVIOUS
<1>3. Rest(q) = [states EXCEPT ![q] = m]
  BY DEF Rest, WireOK
<1> HIDE DEF c
<1>4. m \in TargetState /\ m.current = states[q].current /\ m.kept = states[q].kept
  BY <1>1, <1>2 DEF TargetState
<1> HIDE DEF m
<1> QED
  BY <1>3, <1>4 DEF WireOK

LEMMA SnapshotKeeps ==
    ASSUME IndInv, NEW q \in Queries, Snapshot(q)
    PROVE  Kept
<1> DEFINE hits == Active(q) /\ states[q].changed
           syn == [synced EXCEPT ![q] = IF hits THEN states[q].current # 0 ELSE @]
           emp == [empty EXCEPT ![q] = news[q]]
<1>1. /\ Handles(q) /\ Takes(q) /\ resets' \subseteq resets
      /\ Announce(UpdateState("Online"), listening, syn, emp)
      /\ UNCHANGED <<targets, network, stream, news, served, listens, miscount,
                     events>>
  BY DEF Snapshot
<1>2. /\ watches' \in [Queries -> Nat] /\ pending' \in [Queries -> Int]
      /\ states' \in [Queries -> TargetState] /\ up' \in [Queries -> Seq(Ask)]
      /\ idle' \in BOOLEAN /\ (idle' => idle)
  <2>1. CASE q \in resets /\ q \in targets
    <3>1. Send({q}, <<"remove", "add">>, Rest(q)) /\ idle' = FALSE
      BY <2>1 DEF Snapshot, Rest
    <3> QED
      BY <3>1, Parts, RestFacts, BothKinds, SendFacts
  <2>2. CASE ~(q \in resets /\ q \in targets)
    <3>1. states' = Rest(q) /\ UNCHANGED <<watches, pending, up, idle>>
      BY <2>2 DEF Snapshot, Rest
    <3> QED
      BY <3>1, Parts, RestFacts DEF WireOK, StreamOK
  <2> QED
    BY <2>1, <2>2
<1>3. WireOK'
  <2>1. down' \in [Queries -> Seq(Response)]
    BY <1>1, Parts, TakesFacts DEF Takes
  <2> QED
    BY <1>1, <1>2, <2>1, Parts DEF WireOK
<1>4. emp \in Content
  BY Parts DEF Content, WireOK
<1>5. syn \in Content /\ \A k \in Queries : syn[k] => k \in targets'
  <2>1. hits => q \in targets
    BY DEF Active
  <2> QED
    BY <1>1, <2>1, Parts DEF Content
<1>6. miscount' \in BOOLEAN
  BY <1>1, Parts
<1>7. targets' = {l.query : l \in listening}
  BY <1>1, Parts
<1> HIDE DEF syn, emp
<1> QED
  BY <1>1, <1>2, <1>3, <1>4, <1>5, <1>6, <1>7, ResponseKeeps

LEMMA RefusedKeeps ==
    ASSUME IndInv, NEW q \in Queries, Refused(q)
    PROVE  Kept
<1> DEFINE syn == [synced EXCEPT ![q] = FALSE]
           ls == {l \in listening : l.query # q}
<1>1. /\ Handles(q) /\ Takes(q) /\ targets' = targets \ {q}
      /\ Announce(UpdateState("Online"), ls, syn, empty)
      /\ UNCHANGED <<network, stream, idle, news, resets, up, served, watches,
                     listens, events>>
      /\ miscount' = (miscount \/ ~Exact(q)')
  BY DEF Refused
<1>2. WireOK'
  <2>1. Fresh \in TargetState
    BY DEF Fresh, TargetState
  <2>2. pending' \in [Queries -> Int] /\ states' \in [Queries -> TargetState]
    <3>1. pending \in [Queries -> Int] /\ states \in [Queries -> TargetState]
      BY Parts DEF WireOK
    <3>2. CASE q \in targets
      <4>1. /\ pending' = [pending EXCEPT ![q] = 0]
            /\ states' = [states EXCEPT ![q] = Fresh]
        BY <3>2 DEF Refused
      <4> QED
        BY <2>1, <3>1, <4>1
    <3>3. CASE q \notin targets
      <4>1. pending' = pending /\ states' = states
        BY <3>3 DEF Refused
      <4> QED
        BY <3>1, <4>1
    <3> QED
      BY <3>2, <3>3
  <2>3. down' \in [Queries -> Seq(Response)]
    BY <1>1, Parts, TakesFacts DEF Takes
  <2> QED
    BY <1>1, <2>2, <2>3, Parts DEF WireOK
<1>3. targets' = {l.query : l \in ls}
  BY <1>1, Parts
<1>4. syn \in Content /\ \A k \in Queries : syn[k] => k \in targets'
  BY <1>1, Parts DEF Content
<1>5. idle' \in BOOLEAN /\ (idle' => idle) /\ miscount' \in BOOLEAN
  BY <1>1, Parts DEF StreamOK
<1> HIDE DEF syn
<1> QED
  BY <1>1, <1>2, <1>3, <1>4, <1>5, Parts, ResponseKeeps

\* A response that is sent joins the others.
LEMMA AppendFacts ==
    ASSUME WireOK, NEW q \in Queries, NEW r \in Response
    PROVE  [down EXCEPT ![q] = Append(@, r)] \in [Queries -> Seq(Response)]
<1>1. Append(down[q], r) \in Seq(Response)
  BY DEF WireOK
<1> QED
  BY <1>1 DEF WireOK

\* The server answers a request.
LEMMA AnswersKeeps ==
    ASSUME IndInv, NEW q \in Queries,
           NEW kind \in {"added", "removed", "refused"}, Answers(q, kind),
           served' \in [Queries -> [watch : Nat, current : BOOLEAN, due : BOOLEAN]],
           events' \in 0..MaxEvents
    PROVE  Kept
<1> DEFINE r == [kind |-> kind, watch |-> Head(up[q]).watch, empty |-> FALSE,
                 current |-> FALSE]
<1>1. /\ up[q] # << >>
      /\ up' = [up EXCEPT ![q] = Tail(@)]
      /\ down' = [down EXCEPT ![q] = Append(@, r)]
      /\ UNCHANGED <<appVars, targets, network, stream, idle, tracker, heardVars,
                     watches, listens, miscount>>
  BY DEF Answers
<1>2. up[q] \in Seq(Ask)
  BY Parts DEF WireOK
<1>3. Head(up[q]) \in Ask /\ Tail(up[q]) \in Seq(Ask)
  BY <1>1, <1>2
<1>4. r \in Response
  BY <1>3 DEF Ask, Response
<1> HIDE DEF r
<1>5. down' \in [Queries -> Seq(Response)]
  BY <1>1, <1>4, Parts, AppendFacts
<1>6. up' \in [Queries -> Seq(Ask)]
  BY <1>1, <1>3, Parts DEF WireOK
<1>7. WireOK'
  BY <1>1, <1>5, <1>6, Parts DEF WireOK, heardVars
<1>8. idle' \in BOOLEAN /\ (idle' => stream' = "Open" /\ targets' = {}) /\ miscount' \in BOOLEAN
      /\ stream' \in {"Initial", "Starting", "Open", "Backoff", "Error"}
  BY <1>1, Parts DEF StreamOK
<1> QED
  BY <1>1, <1>7, <1>8, QuietKeeps

\* The server sends a target something.
LEMMA SendsKeeps ==
    ASSUME IndInv, NEW q \in Queries,
           NEW kind \in {"change", "reset", "mismatch", "snapshot"},
           NEW e \in BOOLEAN, NEW c \in BOOLEAN, Sends(q, kind, e, c),
           served' \in [Queries -> [watch : Nat, current : BOOLEAN, due : BOOLEAN]],
           events' \in 0..MaxEvents
    PROVE  Kept
<1> DEFINE r == [kind |-> kind, watch |-> served[q].watch, empty |-> e, current |-> c]
<1>1. /\ down' = [down EXCEPT ![q] = Append(@, r)]
      /\ UNCHANGED <<appVars, targets, network, stream, idle, tracker, heardVars,
                     up, watches, listens, miscount>>
  BY DEF Sends
<1>2. r \in Response
  BY Parts DEF Response, WireOK
<1> HIDE DEF r
<1>3. down' \in [Queries -> Seq(Response)]
  BY <1>1, <1>2, Parts, AppendFacts
<1>4. WireOK'
  BY <1>1, <1>3, Parts DEF WireOK, heardVars
<1>5. idle' \in BOOLEAN /\ (idle' => stream' = "Open" /\ targets' = {}) /\ miscount' \in BOOLEAN
      /\ stream' \in {"Initial", "Starting", "Open", "Backoff", "Error"}
  BY <1>1, Parts DEF StreamOK
<1> QED
  BY <1>1, <1>4, <1>5, QuietKeeps

\* The server changes what it knows of a target.
LEMMA ServedFacts ==
    ASSUME WireOK, NEW q \in Queries, NEW w \in Nat, NEW c \in BOOLEAN, NEW d \in BOOLEAN
    PROVE  /\ [served EXCEPT ![q].watch = w, ![q].current = c]
                  \in [Queries -> [watch : Nat, current : BOOLEAN, due : BOOLEAN]]
           /\ [served EXCEPT ![q].current = c, ![q].due = d]
                  \in [Queries -> [watch : Nat, current : BOOLEAN, due : BOOLEAN]]
           /\ [served EXCEPT ![q].due = d]
                  \in [Queries -> [watch : Nat, current : BOOLEAN, due : BOOLEAN]]
BY DEF WireOK

LEMMA ServerAddsKeeps ==
    ASSUME IndInv, NEW q \in Queries, ServerAdds(q)
    PROVE  Kept
<1>1. /\ Answers(q, "added") /\ up[q] # << >>
      /\ served' = [served EXCEPT ![q].watch = Head(up[q]).watch, ![q].current = FALSE]
      /\ UNCHANGED events
  BY DEF ServerAdds, Answers
<1>2. up[q] \in Seq(Ask)
  BY Parts DEF WireOK
<1>3. Head(up[q]) \in Ask
  BY <1>1, <1>2
<1>4. Head(up[q]).watch \in Nat
  BY <1>3 DEF Ask
<1>5. served' \in [Queries -> [watch : Nat, current : BOOLEAN, due : BOOLEAN]]
  BY <1>1, <1>4, Parts, ServedFacts
<1> QED
  BY <1>1, <1>5, Parts, AnswersKeeps

LEMMA ServerRefusesKeeps ==
    ASSUME IndInv, NEW q \in Queries, ServerRefuses(q)
    PROVE  Kept
<1>1. Event /\ Answers(q, "refused") /\ served' = served
  BY DEF ServerRefuses
<1>2. events' \in 0..MaxEvents
  BY <1>1, Parts, EventFacts
<1> QED
  BY <1>1, <1>2, Parts, AnswersKeeps DEF WireOK

LEMMA ServerRemovesKeeps ==
    ASSUME IndInv, NEW q \in Queries, ServerRemoves(q)
    PROVE  Kept
<1>1. Answers(q, "removed") /\ UNCHANGED events
      /\ served' = [served EXCEPT ![q].watch = 0, ![q].current = FALSE]
  BY DEF ServerRemoves
<1>2. served' \in [Queries -> [watch : Nat, current : BOOLEAN, due : BOOLEAN]]
  BY <1>1, Parts, ServedFacts
<1> QED
  BY <1>1, <1>2, Parts, AnswersKeeps

LEMMA ServerCurrentKeeps ==
    ASSUME IndInv, NEW q \in Queries, NEW e \in BOOLEAN, ServerCurrent(q, e)
    PROVE  Kept
<1>1. Sends(q, "change", e, TRUE) /\ UNCHANGED events
      /\ served' = [served EXCEPT ![q].current = TRUE, ![q].due = TRUE]
  BY DEF ServerCurrent
<1>2. served' \in [Queries -> [watch : Nat, current : BOOLEAN, due : BOOLEAN]]
  BY <1>1, Parts, ServedFacts
<1> QED
  BY <1>1, <1>2, Parts, SendsKeeps

LEMMA ServerChangeKeeps ==
    ASSUME IndInv, NEW q \in Queries, NEW e \in BOOLEAN, ServerChange(q, e)
    PROVE  Kept
<1>1. Sends(q, "change", e, FALSE) /\ Event
      /\ served' = [served EXCEPT ![q].due = TRUE]
  BY DEF ServerChange
<1>2. served' \in [Queries -> [watch : Nat, current : BOOLEAN, due : BOOLEAN]]
  BY <1>1, Parts, ServedFacts
<1>3. events' \in 0..MaxEvents
  BY <1>1, Parts, EventFacts
<1> QED
  BY <1>1, <1>2, <1>3, SendsKeeps

LEMMA ServerResetKeeps ==
    ASSUME IndInv, NEW q \in Queries, NEW kind \in {"reset", "mismatch"},
           ServerReset(q, kind)
    PROVE  Kept
<1> DEFINE c == served[q].current /\ kind = "mismatch"
<1>1. Sends(q, kind, FALSE, FALSE) /\ Event
      /\ served' = [served EXCEPT ![q].current = c, ![q].due = TRUE]
  BY DEF ServerReset
<1>2. c \in BOOLEAN
  BY Parts DEF WireOK
<1> HIDE DEF c
<1>3. served' \in [Queries -> [watch : Nat, current : BOOLEAN, due : BOOLEAN]]
  BY <1>1, <1>2, Parts, ServedFacts
<1>4. events' \in 0..MaxEvents
  BY <1>1, Parts, EventFacts
<1> QED
  BY <1>1, <1>3, <1>4, SendsKeeps

LEMMA ServerSnapshotKeeps ==
    ASSUME IndInv, NEW q \in Queries, ServerSnapshot(q)
    PROVE  Kept
<1>1. Sends(q, "snapshot", FALSE, FALSE) /\ UNCHANGED events
      /\ served' = [served EXCEPT ![q].due = FALSE]
  BY DEF ServerSnapshot
<1>2. served' \in [Queries -> [watch : Nat, current : BOOLEAN, due : BOOLEAN]]
  BY <1>1, Parts, ServedFacts
<1> QED
  BY <1>1, <1>2, Parts, SendsKeeps

LEMMA StutterKeeps ==
    ASSUME IndInv, UNCHANGED vars
    PROVE  Kept
<1>1. WireOK'
  BY Parts DEF vars, connVars, heardVars, WireOK
<1>2. UNCHANGED <<appVars, targets, network, stream, idle, tracker, listens, miscount, events>>
  BY DEF vars
<1> QED
  BY <1>1, <1>2, Parts, QuietKeeps DEF StreamOK

\* Every step keeps the invariant and answers listeners from the right side.
LEMMA StepKeeps == IndInv /\ [Next]_vars => Kept
<1> SUFFICES ASSUME IndInv, [Next]_vars PROVE Kept
  OBVIOUS
<1>1. ASSUME NEW l \in Listener, AddListener(l) \/ RemoveListener(l) PROVE Kept
  BY <1>1, AddListenerKeeps, RemoveListenerKeeps
<1>2. CASE DisableNetwork \/ EnableNetwork \/ HandleCredentialChange
  BY <1>2, DisableNetworkKeeps, EnableNetworkKeeps, HandleCredentialChangeKeeps
<1>3. CASE StreamFails \/ IdleElapses \/ OnlineStateTimeout
  BY <1>3, StreamFailsKeeps, IdleElapsesKeeps, OnlineStateTimeoutKeeps
<1>4. CASE Client
  BY <1>4, OpenStreamKeeps, BackoffElapsesKeeps, TargetResponseKeeps, ChangeKeeps,
     ResetKeeps, SnapshotKeeps, RefusedKeeps DEF Client, Handle
<1>5. CASE Server
  BY <1>5, ServerAddsKeeps, ServerRemovesKeeps, ServerCurrentKeeps,
     ServerSnapshotKeeps DEF Server
<1>6. ASSUME NEW q \in Queries,
             \/ ServerRefuses(q)
             \/ \E e \in BOOLEAN : ServerChange(q, e)
             \/ \E kind \in {"reset", "mismatch"} : ServerReset(q, kind)
      PROVE  Kept
  BY <1>6, ServerRefusesKeeps, ServerChangeKeeps, ServerResetKeeps
<1>7. CASE UNCHANGED vars
  BY <1>7, StutterKeeps
<1> QED
  BY <1>1, <1>2, <1>3, <1>4, <1>5, <1>6, <1>7 DEF Next

-----------------------------------------------------------------------------
(* The theorems.                                                           *)

\* Every state the client can get into satisfies the invariant.
THEOREM Inductive == Spec => []IndInv
<1>1. Init => IndInv
  BY InitHolds
<1>2. IndInv /\ [Next]_vars => IndInv'
  BY StepKeeps DEF Kept
<1> QED
  BY <1>1, <1>2, PTL DEF Spec

\* The variables always have their types.
THEOREM TypeCorrect == Spec => []TypeOK
<1>1. IndInv => TypeOK
  BY DEF IndInv
<1> QED
  BY <1>1, Inductive, PTL

\* The client's assertions hold in every order of events, and no handler
\* forgets to start the stream (RemoteStore, OnlineStateTracker).
THEOREM StreamCorrect == Spec => []StreamIsRight
<1>1. IndInv => StreamIsRight
  BY DEF IndInv
<1> QED
  BY <1>1, Inductive, PTL

\* Offline everybody is answered from the cache; otherwise the cache's "no
\* documents" is never passed on, and a get() hears of the server only
\* (QueryListener::ShouldRaiseInitialEvent).
THEOREM CacheCorrect == Spec => CacheIsForOffline
<1>1. IndInv => OfflineIsAnswered
  BY DEF IndInv
<1>2. IndInv /\ [Next]_vars =>
          [\A l \in raised' \ raised :
              synced'[l.query] \/ tracker'.state = "Offline"
                  \/ (~l.waits /\ ~empty'[l.query])]_vars
  BY StepKeeps DEF Kept, Answering
<1>3. Spec => []OfflineIsAnswered
  BY <1>1, Inductive, PTL
<1>4. Spec => CacheOnlyOffline
  BY <1>2, Inductive, PTL DEF Spec, CacheOnlyOffline
<1> QED
  BY <1>3, <1>4 DEF CacheIsForOffline

-----------------------------------------------------------------------------
(* Why a view is synced only by a snapshot of its own request: the count   *)
(* of responses due is the number of them on the wire, and what is behind  *)
(* the last of them is of the latest request.                              *)

\* The places of a sequence of responses that hold one that is due.
Due(s) == {i \in 1..Len(s) : Responds(s[i])}

LEMMA DueFinite ==
    ASSUME NEW s \in Seq(Response)
    PROVE  IsFiniteSet(Due(s)) /\ Cardinality(Due(s)) \in Nat
<1>1. IsFiniteSet(1..Len(s))
  BY FS_Interval
<1>2. IsFiniteSet(Due(s))
  BY <1>1, FS_Subset DEF Due
<1> QED
  BY <1>2, FS_CardinalityType

LEMMA DueAppend ==
    ASSUME NEW s \in Seq(Response), NEW r \in Response
    PROVE  Cardinality(Due(Append(s, r))) =
               Cardinality(Due(s)) + IF Responds(r) THEN 1 ELSE 0
<1>1. CASE Responds(r)
  <2>1. Due(Append(s, r)) = Due(s) \cup {Len(s) + 1}
    BY <1>1 DEF Due
  <2>2. Len(s) + 1 \notin Due(s)
    BY DEF Due
  <2> QED
    BY <1>1, <2>1, <2>2, DueFinite, FS_AddElement
<1>2. CASE ~Responds(r)
  <2>1. Due(Append(s, r)) = Due(s)
    BY <1>2 DEF Due
  <2> QED
    BY <1>2, <2>1, DueFinite
<1> QED
  BY <1>1, <1>2

LEMMA DueTail ==
    ASSUME NEW s \in Seq(Response), s # << >>
    PROVE  Cardinality(Due(Tail(s))) =
               Cardinality(Due(s)) - IF Responds(Head(s)) THEN 1 ELSE 0
<1> DEFINE rest == Due(s) \ {1}
           f == [i \in Due(Tail(s)) |-> i + 1]
<1>1. Tail(s) \in Seq(Response) /\ Len(Tail(s)) = Len(s) - 1
      /\ \A i \in 1..(Len(s) - 1) : Tail(s)[i] = s[i + 1]
  OBVIOUS
<1>2. f \in [Due(Tail(s)) -> rest]
  BY <1>1 DEF Due
<1>3. \A a, b \in Due(Tail(s)) : f[a] = f[b] => a = b
  BY <1>1 DEF Due
<1>4. \A t \in rest : \E i \in Due(Tail(s)) : f[i] = t
  <2> SUFFICES ASSUME NEW t \in rest PROVE \E i \in Due(Tail(s)) : f[i] = t
    OBVIOUS
  <2>1. t - 1 \in Due(Tail(s))
    BY <1>1 DEF Due
  <2>2. f[t - 1] = t
    BY <2>1 DEF Due
  <2> QED
    BY <2>1, <2>2
<1>5. ExistsBijection(Due(Tail(s)), rest)
  <2> HIDE DEF rest, f
  <2>1. f \in Bijection(Due(Tail(s)), rest)
    BY <1>2, <1>3, <1>4 DEF Bijection, Injection, Surjection, IsInjective
  <2> QED
    BY <2>1 DEF ExistsBijection
<1>6. Cardinality(rest) = Cardinality(Due(Tail(s)))
  BY <1>1, <1>5, DueFinite, FS_Bijection
<1>7. Cardinality(rest) = IF 1 \in Due(s) THEN Cardinality(Due(s)) - 1
                                         ELSE Cardinality(Due(s))
  BY DueFinite, FS_RemoveElement
<1>8. 1 \in Due(s) <=> Responds(Head(s))
  BY DEF Due
<1> QED
  BY <1>6, <1>7, <1>8, DueFinite

\* Without responses due there are none on the wire, nor any request.
LEMMA NoneDue ==
    ASSUME NEW s \in Seq(Response), NEW n \in Nat, n + Cardinality(Due(s)) = 0
    PROVE  n = 0 /\ \A i \in 1..Len(s) : ~Responds(s[i])
<1>1. n = 0 /\ Cardinality(Due(s)) = 0
  BY DueFinite
<1>2. Due(s) = {}
  BY <1>1, DueFinite, FS_EmptySet
<1> QED
  BY <1>1, <1>2 DEF Due

-----------------------------------------------------------------------------
(* What is on the wire for a target that is listened to.                   *)

Requested(w) == [kind |-> "add", watch |-> w]

\* The last response due is of this kind.
LastIs(d, kind) ==
    \E j \in 1..Len(d) : /\ d[j].kind = kind
                         /\ \A k \in (j + 1)..Len(d) : ~Responds(d[k])

\* What comes after the last response due is of request w.
Clean(d, sv, w) ==
    /\ sv.watch = w
    /\ \A i \in 1..Len(d) :
           (\A k \in i..Len(d) : ~Responds(d[k])) => d[i].watch = w

(* Of the requests u, the responses d and the server's sv for one target:  *)
(* the last request is w, the latest one; when the server has dealt with   *)
(* it, it has refused it or sends what it asks for.                        *)
Owned(u, d, sv, w) ==
    IF u # << >> THEN u[Len(u)] = Requested(w)
    ELSE LastIs(d, "refused") \/ Clean(d, sv, w)

\* The last request is to remove the target, or its response is the last due.
Dropped(u, d) ==
    IF u # << >> THEN u[Len(u)].kind = "remove" ELSE LastIs(d, "removed")

\* The last response due remains the last, unless it is taken.
LEMMA LastTail ==
    ASSUME NEW d \in Seq(Response), d # << >>, NEW kind, LastIs(d, kind),
           Head(d).kind # kind \/ Due(Tail(d)) # {}
    PROVE  LastIs(Tail(d), kind)
<1>1. Tail(d) \in Seq(Response) /\ Len(Tail(d)) = Len(d) - 1
      /\ \A i \in 1..(Len(d) - 1) : Tail(d)[i] = d[i + 1]
  OBVIOUS
<1>2. PICK j \in 1..Len(d) : /\ d[j].kind = kind
                             /\ \A k \in (j + 1)..Len(d) : ~Responds(d[k])
  BY DEF LastIs
<1>3. j # 1
  <2> SUFFICES ASSUME j = 1 PROVE FALSE
    OBVIOUS
  <2>1. Head(d).kind = kind
    BY <1>2
  <2>2. \A i \in 1..Len(Tail(d)) : ~Responds(Tail(d)[i])
    BY <1>1, <1>2
  <2> QED
    BY <2>1, <2>2 DEF Due
<1>4. j - 1 \in 1..Len(Tail(d)) /\ Tail(d)[j - 1].kind = kind
  BY <1>1, <1>2, <1>3
<1>5. \A k \in ((j - 1) + 1)..Len(Tail(d)) : ~Responds(Tail(d)[k])
  BY <1>1, <1>2, <1>3
<1> QED
  BY <1>4, <1>5 DEF LastIs

\* It remains the last when something comes that is no response due.
LEMMA LastAppend ==
    ASSUME NEW d \in Seq(Response), NEW kind, LastIs(d, kind),
           NEW r \in Response, ~Responds(r)
    PROVE  LastIs(Append(d, r), kind)
<1>1. Append(d, r) \in Seq(Response) /\ Len(Append(d, r)) = Len(d) + 1
      /\ Append(d, r)[Len(d) + 1] = r
      /\ \A i \in 1..Len(d) : Append(d, r)[i] = d[i]
  OBVIOUS
<1>2. PICK j \in 1..Len(d) : /\ d[j].kind = kind
                             /\ \A k \in (j + 1)..Len(d) : ~Responds(d[k])
  BY DEF LastIs
<1>3. j \in 1..Len(Append(d, r)) /\ Append(d, r)[j].kind = kind
  BY <1>1, <1>2
<1>4. \A k \in (j + 1)..Len(Append(d, r)) : ~Responds(Append(d, r)[k])
  BY <1>1, <1>2
<1> QED
  BY <1>3, <1>4 DEF LastIs

\* A response due that comes is the last.
LEMMA LastNew ==
    ASSUME NEW d \in Seq(Response), NEW r \in Response
    PROVE  LastIs(Append(d, r), r.kind)
<1>1. Append(d, r) \in Seq(Response) /\ Len(Append(d, r)) = Len(d) + 1
      /\ Append(d, r)[Len(d) + 1] = r
  OBVIOUS
<1> QED
  BY <1>1 DEF LastIs

LEMMA OwnedTail ==
    ASSUME NEW u \in Seq(Ask), NEW d \in Seq(Response), NEW sv, NEW w,
           Owned(u, d, sv, w), d # << >>, Head(d).kind # "refused"
    PROVE  Owned(u, Tail(d), sv, w)
<1>1. CASE u # << >>
  BY <1>1 DEF Owned
<1>2. CASE u = << >>
  <2>1. Tail(d) \in Seq(Response) /\ Len(Tail(d)) = Len(d) - 1
        /\ \A i \in 1..(Len(d) - 1) : Tail(d)[i] = d[i + 1]
    OBVIOUS
  <2>2. CASE LastIs(d, "refused")
    BY <1>2, <2>2, LastTail DEF Owned
  <2>3. CASE Clean(d, sv, w)
    <3>1. ASSUME NEW i \in 1..Len(Tail(d)),
                 \A k \in i..Len(Tail(d)) : ~Responds(Tail(d)[k])
          PROVE  Tail(d)[i].watch = w
      <4>1. ASSUME NEW k \in (i + 1)..Len(d) PROVE ~Responds(d[k])
        <5>1. k - 1 \in i..Len(Tail(d)) /\ Tail(d)[k - 1] = d[k]
          BY <2>1
        <5> QED
          BY <3>1, <5>1
      <4>2. i + 1 \in 1..Len(d) /\ Tail(d)[i] = d[i + 1]
        BY <2>1
      <4> QED
        BY <2>3, <4>1, <4>2 DEF Clean
    <3> QED
      BY <1>2, <2>3, <3>1 DEF Owned, Clean
  <2> QED
    BY <1>2, <2>2, <2>3 DEF Owned
<1> QED
  BY <1>1, <1>2

\* A removal that is not answered yet remains so.
LEMMA DroppedTail ==
    ASSUME NEW u \in Seq(Ask), NEW d \in Seq(Response), d # << >>, Dropped(u, d),
           Head(d).kind # "removed" \/ Len(u) + Cardinality(Due(Tail(d))) # 0
    PROVE  Dropped(u, Tail(d))
<1>1. CASE u # << >>
  BY <1>1 DEF Dropped
<1>2. CASE u = << >>
  <2>1. LastIs(d, "removed")
    BY <1>2 DEF Dropped
  <2>2. Due(Tail(d)) = {} => Cardinality(Due(Tail(d))) = 0
    BY FS_EmptySet
  <2>3. Len(u) = 0
    BY <1>2
  <2>4. Head(d).kind # "removed" \/ Due(Tail(d)) # {}
    BY <2>2, <2>3
  <2>5. LastIs(Tail(d), "removed")
    BY <2>1, <2>4, LastTail
  <2> QED
    BY <1>2, <2>5 DEF Dropped
<1> QED
  BY <1>1, <1>2

LEMMA EmptyLen ==
    ASSUME NEW u \in Seq(Ask)
    PROVE  u = << >> <=> Len(u) = 0
OBVIOUS

\* While a removal is not answered, a response is due.
LEMMA DroppedDue ==
    ASSUME NEW u \in Seq(Ask), NEW d \in Seq(Response), Dropped(u, d)
    PROVE  Len(u) + Cardinality(Due(d)) # 0
<1>1. Len(u) \in Nat /\ Cardinality(Due(d)) \in Nat
  BY DueFinite
<1>2. CASE u # << >>
  <2>1. Len(u) # 0
    BY <1>2, EmptyLen
  <2> QED
    BY <1>1, <2>1
<1>3. CASE u = << >>
  <2>1. PICK j \in 1..Len(d) : d[j].kind = "removed"
    BY <1>3 DEF Dropped, LastIs
  <2>2. Responds(d[j])
    BY <2>1 DEF Responds
  <2> SUFFICES ASSUME Len(u) + Cardinality(Due(d)) = 0 PROVE FALSE
    OBVIOUS
  <2>3. ~Responds(d[j])
    BY <1>1, <2>1, NoneDue
  <2> QED
    BY <2>2, <2>3
<1> QED
  BY <1>2, <1>3

\* Its answer is the last one due when it comes.
LEMMA DroppedAnswer ==
    ASSUME NEW u \in Seq(Ask), NEW d \in Seq(Response), Dropped(u, d), u # << >>,
           NEW r \in Response, Head(u).kind = "remove" => r.kind = "removed"
    PROVE  Dropped(Tail(u), Append(d, r))
<1>1. u[Len(u)].kind = "remove"
  BY DEF Dropped
<1>2. Tail(u) \in Seq(Ask) /\ Len(Tail(u)) = Len(u) - 1 /\ Len(u) \in Nat \ {0}
      /\ \A i \in 1..(Len(u) - 1) : Tail(u)[i] = u[i + 1]
  OBVIOUS
<1>3. CASE Len(u) > 1
  <2>1. Tail(u)[Len(Tail(u))].kind = "remove"
    BY <1>1, <1>2, <1>3
  <2>2. Len(Tail(u)) # 0
    BY <1>2, <1>3
  <2>3. Tail(u) # << >>
    BY <1>2, <2>2, EmptyLen
  <2> QED
    BY <2>1, <2>3 DEF Dropped
<1>4. CASE Len(u) = 1
  <2>1. r.kind = "removed"
    BY <1>1, <1>4
  <2>2. Tail(u) = << >>
    <3>1. Len(Tail(u)) = 0
      BY <1>2, <1>4
    <3> QED
      BY <1>2, <3>1, EmptyLen
  <2>3. LastIs(Append(d, r), "removed")
    BY <2>1, LastNew
  <2> QED
    BY <2>2, <2>3 DEF Dropped
<1> QED
  BY <1>2, <1>3, <1>4

\* A request is answered: the last one leaves its answer behind it.
LEMMA OwnedAnswer ==
    ASSUME NEW u \in Seq(Ask), NEW d \in Seq(Response), NEW sv, NEW w, NEW sw,
           Owned(u, d, sv, w), u # << >>, NEW r \in Response,
           \/ r.kind = "added" /\ sw.watch = Head(u).watch
           \/ r.kind = "refused"
           \/ r.kind = "removed" /\ Head(u).kind = "remove"
    PROVE  Owned(Tail(u), Append(d, r), sw, w)
<1>1. u[Len(u)] = Requested(w)
  BY DEF Owned
<1>2. Tail(u) \in Seq(Ask) /\ Len(Tail(u)) = Len(u) - 1 /\ Len(u) \in Nat \ {0}
      /\ \A i \in 1..(Len(u) - 1) : Tail(u)[i] = u[i + 1]
  OBVIOUS
<1>3. CASE Len(u) > 1
  <2>1. Tail(u)[Len(Tail(u))] = Requested(w)
    BY <1>1, <1>2, <1>3
  <2>2. Len(Tail(u)) # 0
    BY <1>2, <1>3
  <2>3. Tail(u) # << >>
    BY <1>2, <2>2, EmptyLen
  <2> QED
    BY <2>1, <2>3 DEF Owned
<1>4. CASE Len(u) = 1
  <2>2. Head(u) = Requested(w)
    BY <1>1, <1>4
  <2>1. Tail(u) = << >>
    <3>1. Len(Tail(u)) = 0
      BY <1>2, <1>4
    <3> QED
      BY <1>2, <3>1, EmptyLen
  <2>3. r.kind # "removed" \/ Head(u).kind # "remove"
    BY <2>2 DEF Requested
  <2>4. Append(d, r) \in Seq(Response) /\ Len(Append(d, r)) = Len(d) + 1
        /\ Append(d, r)[Len(d) + 1] = r
    OBVIOUS
  <2>5. CASE r.kind = "refused"
    <3>1. LastIs(Append(d, r), "refused")
      BY <2>5, LastNew
    <3> QED
      BY <2>1, <3>1 DEF Owned
  <2>6. CASE r.kind = "added" /\ sw.watch = Head(u).watch
    <3>1. sw.watch = w
      BY <2>2, <2>6 DEF Requested
    <3>2. Responds(r)
      BY <2>6 DEF Responds
    <3>3. \A i \in 1..Len(Append(d, r)) : Len(d) + 1 \in i..Len(Append(d, r))
      BY <2>4
    <3>4. Clean(Append(d, r), sw, w)
      BY <2>4, <3>1, <3>2, <3>3 DEF Clean
    <3> QED
      BY <2>1, <3>4 DEF Owned
  <2> QED
    BY <2>3, <2>5, <2>6
<1> QED
  BY <1>2, <1>3, <1>4

\* The server sends a target something of its request.
LEMMA OwnedSends ==
    ASSUME NEW u \in Seq(Ask), NEW d \in Seq(Response), NEW sv, NEW w, NEW sw,
           Owned(u, d, sv, w), NEW r \in Response, ~Responds(r),
           r.watch = sv.watch, sw.watch = sv.watch
    PROVE  Owned(u, Append(d, r), sw, w)
<1>1. CASE u # << >>
  BY <1>1 DEF Owned
<1>2. CASE u = << >>
  <2>1. Append(d, r) \in Seq(Response) /\ Len(Append(d, r)) = Len(d) + 1
        /\ Append(d, r)[Len(d) + 1] = r
        /\ \A i \in 1..Len(d) : Append(d, r)[i] = d[i]
    OBVIOUS
  <2>2. CASE LastIs(d, "refused")
    BY <1>2, <2>2, LastAppend DEF Owned
  <2>3. CASE Clean(d, sv, w)
    <3>1. ASSUME NEW i \in 1..Len(Append(d, r)),
                 \A k \in i..Len(Append(d, r)) : ~Responds(Append(d, r)[k])
          PROVE  Append(d, r)[i].watch = w
      <4>1. CASE i = Len(d) + 1
        BY <2>1, <2>3, <4>1 DEF Clean
      <4>2. CASE i \in 1..Len(d)
        <5>1. \A k \in i..Len(d) : ~Responds(d[k])
          BY <2>1, <3>1, <4>2
        <5> QED
          BY <2>1, <2>3, <4>2, <5>1 DEF Clean
      <4> QED
        BY <2>1, <4>1, <4>2
    <3> QED
      BY <1>2, <2>3, <3>1 DEF Owned, Clean
  <2> QED
    BY <1>2, <2>2, <2>3 DEF Owned
<1> QED
  BY <1>1, <1>2

LEMMA DroppedSends ==
    ASSUME NEW u \in Seq(Ask), NEW d \in Seq(Response), Dropped(u, d),
           NEW r \in Response, ~Responds(r)
    PROVE  Dropped(u, Append(d, r))
BY LastAppend DEF Dropped

-----------------------------------------------------------------------------
(* The invariant of the wire.                                              *)

Own(q) == Owned(up[q], down[q], served[q], watches[q])

(* What is noted as CURRENT is so for the present request, or for one that *)
(* has been dropped and whose removal is not answered; or it was kept.     *)
Marked(q) ==
    states[q].current # 0 /\ ~states[q].kept =>
        IF q \in targets THEN states[q].current = watches[q]
                         ELSE Dropped(up[q], down[q])

\* Without an open stream there is nothing on the wire, and nothing noted.
OffLine ==
    stream # "Open" =>
        \A q \in Queries : /\ pending[q] = 0 /\ up[q] = << >> /\ down[q] = << >>
                           /\ served[q].watch = 0 /\ ~served[q].due
                           /\ states[q].current = 0

Counted ==
    ~miscount =>
        \A q \in Queries : /\ Exact(q)
                           /\ stream = "Open" /\ q \in targets => Own(q)
                           /\ Marked(q)

WireInv == OffLine /\ Counted

\* What pending counts.
LEMMA ExactDue ==
    \A q \in Queries :
        Exact(q) <=> pending[q] = Len(up[q]) + Cardinality(Due(down[q]))
BY DEF Exact, Due

LEMMA WireInit == Init => WireInv
<1> SUFFICES ASSUME Init PROVE WireInv
  OBVIOUS
<1>1. \A q \in Queries : /\ pending[q] = 0 /\ up[q] = << >> /\ down[q] = << >>
                         /\ served[q].watch = 0 /\ ~served[q].due
                         /\ states[q].current = 0
  BY DEF Init, None, Idle, Fresh
<1>2. \A q \in Queries : Exact(q)
  <2>1. Due(<< >>) = {}
    BY DEF Due
  <2>2. Cardinality(Due(<< >>)) = 0
    BY <2>1, FS_EmptySet
  <2> QED
    BY <1>1, <2>2, ExactDue
<1> QED
  BY <1>1, <1>2 DEF Init, WireInv, OffLine, Counted, Marked

\* A step that changes nothing on the wire, and no target of a stream that is
\* open.
LEMMA WireStays ==
    ASSUME WireInv, UNCHANGED <<connVars, watches, miscount>>,
           stream = "Open" => stream' = "Open",
           stream' = "Open" => stream = "Open" /\ targets' = targets
    PROVE  WireInv'
<1>1. OffLine'
  BY DEF WireInv, OffLine, connVars, heardVars
<1>2. \A q \in Queries : Exact(q)' <=> Exact(q)
  BY DEF Exact, connVars, heardVars
<1>3. \A q \in Queries : Own(q)' <=> Own(q)
  BY DEF Own, connVars
<1>4. ASSUME NEW q \in Queries, Marked(q) PROVE Marked(q)'
  <2>1. CASE stream' = "Open"
    BY <1>4, <2>1 DEF Marked, connVars, heardVars
  <2>2. CASE stream' # "Open"
    BY <1>1, <2>2 DEF OffLine, Marked
  <2> QED
    BY <2>1, <2>2
<1>5. Counted'
  BY <1>2, <1>3, <1>4 DEF WireInv, Counted
<1> QED
  BY <1>1, <1>5 DEF WireInv

\* A step that ends the connection.
LEMMA WireEnds ==
    ASSUME Disconnected, stream' # "Open"
    PROVE  WireInv'
<1>1. \A q \in Queries : /\ pending'[q] = 0 /\ up'[q] = << >> /\ down'[q] = << >>
                         /\ served'[q].watch = 0 /\ ~served'[q].due
                         /\ states'[q].current = 0
  BY DEF Disconnected, None, Idle, Fresh
<1>2. \A q \in Queries : Exact(q)'
  <2>1. Due(<< >>) = {}
    BY DEF Due
  <2>2. Cardinality(Due(<< >>)) = 0
    BY <2>1, FS_EmptySet
  <2>3. \A q \in Queries :
            Exact(q)' <=> pending'[q] = Len(up'[q]) + Cardinality(Due(down'[q]))
    BY DEF Exact, Due
  <2> QED
    BY <1>1, <2>2, <2>3
<1> QED
  BY <1>1, <1>2 DEF WireInv, OffLine, Counted, Marked

\* What the wire is for q before a step, and what Exact says after it.
LEMMA WireParts ==
    ASSUME IndInv, WireInv, NEW q \in Queries
    PROVE  /\ pending[q] \in Int /\ up[q] \in Seq(Ask) /\ down[q] \in Seq(Response)
           /\ served[q].watch \in Nat /\ watches[q] \in Nat
           /\ states[q] \in TargetState
           /\ ~miscount => pending[q] = Len(up[q]) + Cardinality(Due(down[q]))
           /\ ~miscount /\ stream = "Open" /\ q \in targets => Own(q)
           /\ ~miscount => Marked(q)
           /\ Exact(q)' <=> pending'[q] = Len(up'[q]) + Cardinality(Due(down'[q]))
<1>1. WireOK
  BY Parts
<1>2. Exact(q)' <=> pending'[q] = Len(up'[q]) + Cardinality(Due(down'[q]))
  BY DEF Exact, Due
<1> QED
  BY <1>1, <1>2, ExactDue DEF WireOK, WireInv, Counted

\* Of a target that nothing is due for and nobody listens to, nothing current
\* is noted that has not been kept.
LEMMA GoneIsForgotten ==
    ASSUME IndInv, WireInv, ~miscount, NEW q \in Queries, pending[q] = 0,
           q \notin targets \/ stream # "Open"
    PROVE  states[q].current = 0 \/ states[q].kept
<1>1. CASE stream # "Open"
  BY <1>1 DEF WireInv, OffLine
<1>2. CASE q \notin targets
  <2> SUFFICES ASSUME Dropped(up[q], down[q]) PROVE FALSE
    BY <1>2, WireParts DEF Marked
  <2>1. Len(up[q]) + Cardinality(Due(down[q])) # 0
    BY WireParts, DroppedDue
  <2> QED
    BY <2>1, WireParts
<1> QED
  BY <1>1, <1>2

\* A step that sends requests: those who are added own what follows, and what
\* is current when they are is kept.
LEMMA WireSends ==
    ASSUME IndInv, WireInv, NEW qs \in SUBSET Queries,
           NEW kind \in {"add", "remove"}, Send(qs, <<kind>>, states),
           stream' = "Open", UNCHANGED <<miscount, down, served>>,
           \A q \in targets' :
               \/ q \in qs /\ kind = "add"
               \/ q \notin qs /\ q \in targets /\ stream = "Open",
           \A q \in Queries \ qs : q \in targets <=> q \in targets',
           kind = "add" => \A q \in qs : /\ q \in targets'
                                         /\ q \notin targets \/ stream # "Open"
    PROVE  WireInv'
<1> DEFINE kinds == <<kind>>
<1>1. OffLine'
  BY DEF OffLine
<1>2. ASSUME ~miscount', NEW q \in Queries
      PROVE  Exact(q)' /\ (q \in targets' => Own(q)') /\ Marked(q)'
  <2>1. /\ pending[q] = Len(up[q]) + Cardinality(Due(down[q]))
        /\ (stream = "Open" /\ q \in targets => Own(q)) /\ Marked(q)
        /\ pending[q] \in Int /\ up[q] \in Seq(Ask) /\ down[q] \in Seq(Response)
        /\ Exact(q)' <=> pending'[q] = Len(up'[q]) + Cardinality(Due(down'[q]))
    BY <1>2, WireParts
  <2>2. CASE q \in qs
    <3>1. kinds \in Seq({"add", "remove"}) /\ kinds # << >> /\ Len(kinds) = 1
          /\ kinds[1] = kind
      OBVIOUS
    <3>2. WireOK /\ states \in [Queries -> TargetState]
      BY Parts DEF WireOK
    <3> HIDE DEF kinds
    <3>3. Send(qs, kinds, states)
      BY DEF kinds
    <3>9. /\ \A k \in qs :
                 /\ pending'[k] = pending[k] + Len(kinds)
                 /\ Len(up'[k]) = Len(up[k]) + Len(kinds) /\ up'[k] # << >>
                 /\ up'[k][Len(up'[k])] =
                        [kind |-> kinds[Len(kinds)], watch |-> watches'[k]]
                 /\ kinds[Len(kinds)] = "add" /\ pending'[k] # 1
                        /\ states[k].current # 0 => states'[k].kept
          /\ \A k \in Queries : /\ states'[k].current = states[k].current
                                /\ states[k].kept => states'[k].kept
      BY <3>1, <3>2, <3>3, SendFacts
    <3>4. /\ pending'[q] = pending[q] + 1
          /\ Len(up'[q]) = Len(up[q]) + 1 /\ up'[q] # << >>
          /\ up'[q][Len(up'[q])] = [kind |-> kind, watch |-> watches'[q]]
          /\ kind = "add" /\ pending'[q] # 1 /\ states[q].current # 0
                 => states'[q].kept
          /\ states'[q].current = states[q].current
          /\ states[q].kept => states'[q].kept
      BY <2>2, <3>1, <3>9
    <3>5. Exact(q)'
      <4>1. Cardinality(Due(down[q])) \in Nat /\ Len(up[q]) \in Nat
        BY <2>1, DueFinite
      <4>2. down'[q] = down[q]
        OBVIOUS
      <4>3. pending'[q] = Len(up'[q]) + Cardinality(Due(down'[q]))
        BY <2>1, <3>4, <4>1, <4>2
      <4> QED
        BY <2>1, <4>3
    <3>6. kind = "add" => Own(q)'
      BY <3>4 DEF Own, Owned, Requested
    <3>7. CASE kind = "add"
      <4>1. states[q].current = 0 \/ states[q].kept \/ pending[q] # 0
        BY <1>2, <2>2, <3>7, GoneIsForgotten
      <4>2. Marked(q)'
        BY <2>1, <3>4, <3>7, <4>1 DEF Marked
      <4> QED
        BY <3>5, <3>6, <3>7, <4>2
    <3>8. CASE kind = "remove"
      <4>1. q \notin targets'
        BY <2>2, <3>8
      <4>2. Dropped(up[q], down[q])'
        BY <3>4, <3>8 DEF Dropped
      <4> QED
        BY <3>5, <4>1, <4>2 DEF Marked
    <3> QED
      BY <3>7, <3>8
  <2>3. CASE q \notin qs
    <3>1. kinds \in Seq({"add", "remove"}) /\ kinds # << >>
      OBVIOUS
    <3>2. WireOK /\ states \in [Queries -> TargetState]
      BY Parts DEF WireOK
    <3> HIDE DEF kinds
    <3>3. Send(qs, kinds, states)
      BY DEF kinds
    <3>7. /\ pending'[q] = pending[q] /\ up'[q] = up[q]
          /\ watches'[q] = watches[q] /\ states'[q] = states[q]
      BY <2>3, <3>2, <3>3, SendOthers
    <3>4. /\ pending'[q] = pending[q] /\ up'[q] = up[q] /\ watches'[q] = watches[q]
          /\ states'[q] = states[q] /\ down'[q] = down[q] /\ served'[q] = served[q]
      BY <2>3, <3>7
    <3>5. q \in targets' <=> q \in targets
      BY <2>3
    <3>6. q \in targets' => stream = "Open"
      BY <2>3
    <3> QED
      BY <2>1, <3>4, <3>5, <3>6 DEF Own, Marked
  <2> QED
    BY <2>2, <2>3
<1> QED
  BY <1>1, <1>2 DEF WireInv, Counted

\* Of the queries other than q nothing is changed.
Others(q) ==
    \A k \in Queries \ {q} :
        /\ pending'[k] = pending[k] /\ up'[k] = up[k] /\ down'[k] = down[k]
        /\ served'[k] = served[k] /\ watches'[k] = watches[k]
        /\ states'[k] = states[k] /\ (k \in targets' <=> k \in targets)

\* A step that concerns one target of an open stream.
LEMMA WireOfOne ==
    ASSUME WireInv, NEW q \in Queries, Others(q), stream' = "Open", stream = "Open",
           ~miscount' => ~miscount,
           ~miscount' => Exact(q)' /\ (q \in targets' => Own(q)') /\ Marked(q)'
    PROVE  WireInv'
<1>1. OffLine'
  BY DEF OffLine
<1>2. ASSUME ~miscount', NEW k \in Queries
      PROVE  Exact(k)' /\ (k \in targets' => Own(k)') /\ Marked(k)'
  <2>1. CASE k = q
    BY <1>2, <2>1
  <2>2. CASE k # q
    <3>1. Exact(k) /\ (k \in targets => Own(k)) /\ Marked(k)
      BY <1>2 DEF WireInv, Counted
    <3>2. /\ pending'[k] = pending[k] /\ up'[k] = up[k] /\ down'[k] = down[k]
          /\ served'[k] = served[k] /\ watches'[k] = watches[k]
          /\ states'[k] = states[k] /\ (k \in targets' <=> k \in targets)
      BY <2>2 DEF Others
    <3> QED
      BY <3>1, <3>2 DEF Exact, Own, Marked
  <2> QED
    BY <2>1, <2>2
<1> QED
  BY <1>1, <1>2 DEF WireInv, Counted

\* A response that is no refusal is taken, and counted if it was due.
LEMMA WireTakes ==
    ASSUME IndInv, WireInv, NEW q \in Queries, Handles(q), Takes(q),
           Head(down[q]).kind # "refused",
           pending' = [pending EXCEPT ![q] =
                          @ - IF Responds(Head(down[q])) THEN 1 ELSE 0],
           \A k \in Queries \ {q} : states'[k] = states[k],
           UNCHANGED <<targets, stream, up, served, watches, miscount>>,
           ~miscount /\ Exact(q)' => Marked(q)'
    PROVE  WireInv'
<1>1. down'[q] = Tail(down[q]) /\ down[q] # << >>
  BY Parts DEF Takes, Handles, WireOK
<1>2. Others(q)
  BY Parts DEF Takes, Others, WireOK
<1>3. stream = "Open" /\ stream' = "Open"
  BY DEF Handles
<1>4. pending'[q] = pending[q] - IF Responds(Head(down[q])) THEN 1 ELSE 0
  BY Parts DEF WireOK
<1>5. ~miscount => Exact(q)'
  <2>1. Cardinality(Due(Tail(down[q]))) =
            Cardinality(Due(down[q])) - IF Responds(Head(down[q])) THEN 1 ELSE 0
    BY <1>1, WireParts, DueTail
  <2>2. Cardinality(Due(down[q])) \in Nat
    BY WireParts, DueFinite
  <2> QED
    BY <1>1, <1>4, <2>1, <2>2, WireParts
<1>6. ~miscount /\ q \in targets => Own(q)'
  BY <1>1, <1>3, WireParts, OwnedTail DEF Own
<1> QED
  BY <1>2, <1>3, <1>5, <1>6, WireOfOne

\* A mark that is left as it is, or taken away, is right when a response is
\* taken that is not the answer to the removal.
LEMMA MarkStays ==
    ASSUME IndInv, WireInv, ~miscount, NEW q \in Queries, Handles(q), Takes(q),
           UNCHANGED <<targets, up, watches>>,
           \/ states'[q].current = 0
           \/ states'[q].current = states[q].current /\ states'[q].kept = states[q].kept,
           \/ states'[q].current = 0 \/ q \in targets
           \/ Head(down[q]).kind # "removed"
           \/ Len(up[q]) + Cardinality(Due(Tail(down[q]))) # 0
    PROVE  Marked(q)'
<1>1. down'[q] = Tail(down[q]) /\ down[q] # << >>
  BY Parts DEF Takes, Handles, WireOK
<1>2. Marked(q)
  BY WireParts
<1>3. CASE states'[q].current = 0
  BY <1>3 DEF Marked
<1>4. CASE states'[q].current # 0 /\ q \in targets
  BY <1>2, <1>4 DEF Marked
<1>5. CASE states'[q].current # 0 /\ q \notin targets
  <2>1. states'[q].current = states[q].current /\ states'[q].kept = states[q].kept
    BY <1>5
  <2> SUFFICES ASSUME ~states[q].kept PROVE Marked(q)'
    BY <2>1 DEF Marked
  <2>2. Dropped(up[q], down[q])
    BY <1>2, <1>5, <2>1 DEF Marked
  <2>3. Dropped(up[q], Tail(down[q]))
    BY <1>1, <1>5, <2>2, WireParts, DroppedTail
  <2>4. Dropped(up[q], down[q])'
    BY <1>1, <2>3
  <2> QED
    BY <1>5, <2>4 DEF Marked
<1> QED
  BY <1>3, <1>4, <1>5

\* What an active target is sent is of the present request.
LEMMA HeadIsOwn ==
    ASSUME IndInv, WireInv, ~miscount, NEW q \in Queries, Handles(q), Active(q)
    PROVE  Head(down[q]).watch = watches[q]
<1>1. stream = "Open" /\ down[q] # << >> /\ q \in targets /\ pending[q] = 0
  BY DEF Handles, Active
<1>2. Len(up[q]) = 0 /\ \A i \in 1..Len(down[q]) : ~Responds(down[q][i])
  <2>1. Len(up[q]) + Cardinality(Due(down[q])) = 0 /\ Len(up[q]) \in Nat
    BY <1>1, WireParts
  <2> QED
    BY <2>1, WireParts, NoneDue
<1>3. up[q] = << >>
  BY <1>2, WireParts, EmptyLen
<1>4. ~LastIs(down[q], "refused")
  BY <1>2 DEF LastIs, Responds
<1>5. Clean(down[q], served[q], watches[q])
  BY <1>1, <1>3, <1>4, WireParts DEF Own, Owned
<1>6. down[q][1].watch = watches[q]
  <2>1. 1 \in 1..Len(down[q])
    BY <1>1, WireParts
  <2> QED
    BY <1>2, <1>5, <2>1 DEF Clean
<1> QED
  BY <1>1, <1>6, WireParts

LEMMA TargetResponseWire ==
    ASSUME IndInv, WireInv, NEW q \in Queries, TargetResponse(q)
    PROVE  WireInv'
<1>1. /\ Handles(q) /\ Takes(q) /\ Head(down[q]).kind \in {"added", "removed"}
      /\ pending' = [pending EXCEPT ![q] = @ - 1]
      /\ UNCHANGED <<targets, stream, up, served, watches, miscount>>
  BY DEF TargetResponse
<1>2. Responds(Head(down[q])) /\ Head(down[q]).kind # "refused"
  BY <1>1 DEF Responds
<1>3. pending' = [pending EXCEPT ![q] =
                     @ - IF Responds(Head(down[q])) THEN 1 ELSE 0]
  BY <1>1, <1>2
<1>4. states' = [states EXCEPT ![q] =
             IF pending'[q] # 0 THEN @
             ELSE IF Head(down[q]).kind = "added"
                  THEN [@ EXCEPT !.changed = FALSE] ELSE Fresh]
  BY DEF TargetResponse
<1>5. \A k \in Queries \ {q} : states'[k] = states[k]
  BY <1>4, Parts DEF WireOK
<1>6. /\ pending'[q] # 0 => states'[q] = states[q]
      /\ pending'[q] = 0 /\ Head(down[q]).kind = "added" =>
             states'[q] = [states[q] EXCEPT !.changed = FALSE]
      /\ pending'[q] = 0 /\ Head(down[q]).kind = "removed" => states'[q] = Fresh
  BY <1>4, Parts DEF WireOK
<1>7. ASSUME ~miscount, Exact(q)' PROVE Marked(q)'
  <2>1. pending'[q] = Len(up[q]) + Cardinality(Due(Tail(down[q])))
    <3>1. down'[q] = Tail(down[q]) /\ up'[q] = up[q]
      BY <1>1, Parts DEF Takes, WireOK
    <3>2. pending'[q] = Len(up'[q]) + Cardinality(Due(down'[q]))
      BY <1>7, WireParts
    <3> QED
      BY <3>1, <3>2
  <2>2. CASE pending'[q] = 0 /\ Head(down[q]).kind = "removed"
    <3>1. states'[q].current = 0
      BY <1>6, <2>2 DEF Fresh
    <3> QED
      BY <3>1 DEF Marked
  <2>3. CASE pending'[q] # 0
    BY <1>1, <1>6, <1>7, <2>1, <2>3, MarkStays
  <2>4. CASE pending'[q] = 0 /\ Head(down[q]).kind = "added"
    <3>1. states'[q].current = states[q].current /\ states'[q].kept = states[q].kept
      <4>1. states[q] \in TargetState
        BY WireParts
      <4> QED
        BY <1>6, <2>4, <4>1 DEF TargetState
    <3> QED
      BY <1>1, <1>7, <2>4, <3>1, MarkStays
  <2> QED
    BY <1>1, <2>2, <2>3, <2>4
<1> QED
  BY <1>1, <1>2, <1>3, <1>5, <1>7, WireTakes

\* A change, a reset or a snapshot is taken: nothing was due for it.
LEMMA NewsWire ==
    ASSUME IndInv, WireInv, NEW q \in Queries, Handles(q), Takes(q),
           Head(down[q]).kind \in {"change", "reset", "snapshot", "mismatch"},
           \A k \in Queries \ {q} : states'[k] = states[k],
           UNCHANGED <<targets, stream, pending, up, served, watches, miscount>>,
           \/ states'[q].current = 0
           \/ states'[q].current = states[q].current /\ states'[q].kept = states[q].kept
           \/ Active(q) /\ states'[q].current = Head(down[q]).watch
    PROVE  WireInv'
<1>1. ~Responds(Head(down[q])) /\ Head(down[q]).kind \notin {"refused", "removed"}
  BY DEF Responds
<1>2. pending' = [pending EXCEPT ![q] =
                     @ - IF Responds(Head(down[q])) THEN 1 ELSE 0]
  BY <1>1, Parts DEF WireOK
<1>3. ASSUME ~miscount PROVE Marked(q)'
  <2>1. CASE \/ states'[q].current = 0
             \/ states'[q].current = states[q].current /\ states'[q].kept = states[q].kept
    BY <1>1, <1>3, <2>1, MarkStays
  <2>2. CASE Active(q) /\ states'[q].current = Head(down[q]).watch
    <3>1. q \in targets /\ Head(down[q]).watch = watches[q]
      BY <1>3, <2>2, HeadIsOwn DEF Active
    <3> QED
      BY <2>2, <3>1 DEF Marked
  <2> QED
    BY <2>1, <2>2
<1> QED
  BY <1>1, <1>2, <1>3, WireTakes

LEMMA ChangeWire ==
    ASSUME IndInv, WireInv, NEW q \in Queries, Change(q)
    PROVE  WireInv'
<1> DEFINE m == Head(down[q])
<1>1. /\ Handles(q) /\ Takes(q) /\ m.kind = "change"
      /\ UNCHANGED <<targets, stream, pending, up, served, watches, miscount>>
  BY DEF Change
<1>2. CASE Active(q)
  <2>1. states' = [states EXCEPT ![q] =
                      IF m.current
                      THEN [current |-> m.watch, changed |-> TRUE, kept |-> FALSE]
                      ELSE [@ EXCEPT !.changed = TRUE]]
    BY <1>2 DEF Change
  <2>2. \A k \in Queries \ {q} : states'[k] = states[k]
    BY <2>1, Parts DEF WireOK
  <2>3. m.current => states'[q].current = m.watch
    BY <2>1, Parts DEF WireOK
  <2>4. ~m.current => /\ states'[q].current = states[q].current
                      /\ states'[q].kept = states[q].kept
    <3>1. states[q] \in TargetState
      BY WireParts
    <3>2. ~m.current => states'[q] = [states[q] EXCEPT !.changed = TRUE]
      BY <2>1, Parts DEF WireOK
    <3> QED
      BY <3>1, <3>2 DEF TargetState
  <2> HIDE DEF m
  <2> QED
    BY <1>1, <1>2, <2>2, <2>3, <2>4, NewsWire DEF m
<1>3. CASE ~Active(q)
  <2>1. states' = states
    BY <1>3 DEF Change
  <2> QED
    BY <1>1, <2>1, NewsWire
<1> QED
  BY <1>2, <1>3

LEMMA ResetWire ==
    ASSUME IndInv, WireInv, NEW q \in Queries, Reset(q)
    PROVE  WireInv'
<1>1. /\ Handles(q) /\ Takes(q) /\ Head(down[q]).kind \in {"reset", "mismatch"}
      /\ states' = [states EXCEPT ![q] =
             IF Active(q) THEN [Fresh EXCEPT !.changed = TRUE] ELSE @]
      /\ UNCHANGED <<targets, stream, pending, up, served, watches, miscount>>
  BY DEF Reset
<1>2. \A k \in Queries \ {q} : states'[k] = states[k]
  BY <1>1, Parts DEF WireOK
<1>3. states'[q].current = 0 \/ states'[q] = states[q]
  BY <1>1, Parts DEF Fresh, WireOK
<1> QED
  BY <1>1, <1>2, <1>3, NewsWire

LEMMA SnapshotWire ==
    ASSUME IndInv, WireInv, NEW q \in Queries, Snapshot(q)
    PROVE  WireInv'
<1>1. /\ Handles(q) /\ Takes(q) /\ Head(down[q]).kind = "snapshot"
      /\ UNCHANGED <<targets, stream, served, miscount>>
  BY DEF Snapshot
<1>2. /\ \A k \in Queries \ {q} : Rest(q)[k] = states[k]
      /\ Rest(q) \in [Queries -> TargetState]
      /\ Rest(q)[q].current = states[q].current /\ Rest(q)[q].kept = states[q].kept
  BY Parts, RestFacts
<1>3. CASE q \in resets /\ q \in targets
  <2> DEFINE kinds == <<"remove", "add">>
  <2>1. Send({q}, kinds, Rest(q))
    BY <1>3 DEF Snapshot, Rest
  <2>2. kinds \in Seq({"add", "remove"}) /\ kinds # << >> /\ Len(kinds) = 2
        /\ kinds[2] = "add"
    BY BothKinds
  <2> HIDE DEF kinds
  <2>3. /\ pending'[q] = pending[q] + 2
        /\ Len(up'[q]) = Len(up[q]) + 2 /\ up'[q] # << >>
        /\ up'[q][Len(up'[q])] = [kind |-> "add", watch |-> watches'[q]]
        /\ pending'[q] # 1 /\ states'[q].current # 0 => states'[q].kept
        /\ \A k \in Queries \ {q} :
               /\ pending'[k] = pending[k] /\ up'[k] = up[k]
               /\ watches'[k] = watches[k] /\ states'[k] = states[k]
    <3>1. WireOK
      BY Parts
    <3>2. {q} \in SUBSET Queries
      OBVIOUS
    <3>3. /\ pending'[q] = pending[q] + Len(kinds)
          /\ Len(up'[q]) = Len(up[q]) + Len(kinds) /\ up'[q] # << >>
          /\ up'[q][Len(up'[q])] =
                 [kind |-> kinds[Len(kinds)], watch |-> watches'[q]]
          /\ kinds[Len(kinds)] = "add" /\ pending'[q] # 1
                 /\ Rest(q)[q].current # 0 => states'[q].kept
      BY <1>2, <2>1, <2>2, <3>1, <3>2, SendTo
    <3>4. /\ Len(kinds) = 2 /\ kinds[Len(kinds)] = "add"
          /\ Rest(q)[q].current = states[q].current
      BY <1>2, <2>2
    <3>5. states'[q].current = Rest(q)[q].current
      BY <1>2, <2>1, <2>2, <3>1, <3>2, SendFacts
    <3>6. ASSUME NEW k \in Queries \ {q}
          PROVE  /\ pending'[k] = pending[k] /\ up'[k] = up[k]
                 /\ watches'[k] = watches[k] /\ states'[k] = states[k]
      <4>1. /\ pending'[k] = pending[k] /\ up'[k] = up[k]
            /\ watches'[k] = watches[k] /\ states'[k] = Rest(q)[k]
        BY <1>2, <2>1, <3>1, SendOthers
      <4> QED
        BY <1>2, <4>1
    <3> QED
      BY <3>3, <3>4, <3>5, <3>6
  <2>4. Others(q)
    BY <1>1, <2>3, Parts DEF Takes, Others, WireOK
  <2>5. ~miscount => Exact(q)' /\ Own(q)' /\ Marked(q)'
    <3> SUFFICES ASSUME ~miscount PROVE Exact(q)' /\ Own(q)' /\ Marked(q)'
      OBVIOUS
    <3>1. down'[q] = Tail(down[q]) /\ down[q] # << >> /\ ~Responds(Head(down[q]))
      BY <1>1, Parts DEF Takes, Handles, Responds, WireOK
    <3>2. Cardinality(Due(Tail(down[q]))) = Cardinality(Due(down[q])) - 0
      BY <3>1, WireParts, DueTail
    <3>3. Cardinality(Due(down[q])) \in Nat /\ Len(up[q]) \in Nat
      BY WireParts, DueFinite
    <3>4. pending[q] = Len(up[q]) + Cardinality(Due(down[q]))
      BY WireParts
    <3>5. pending'[q] = Len(up'[q]) + Cardinality(Due(down'[q])) /\ pending'[q] # 1
      <4>1. Cardinality(Due(Tail(down[q]))) = Cardinality(Due(down[q]))
        BY <3>2, <3>3
      <4>2. pending'[q] = pending[q] + 2 /\ Len(up'[q]) = Len(up[q]) + 2
        BY <2>3
      <4> QED
        BY <3>1, <3>3, <3>4, <4>1, <4>2
    <3>6. Exact(q)'
      BY <3>5, WireParts
    <3>7. Own(q)'
      BY <2>3 DEF Own, Owned, Requested
    <3>8. Marked(q)'
      BY <2>3, <3>5 DEF Marked
    <3> QED
      BY <3>6, <3>7, <3>8
  <2> QED
    BY <1>1, <2>4, <2>5, WireOfOne DEF Handles
<1>4. CASE ~(q \in resets /\ q \in targets)
  <2>1. states' = Rest(q) /\ UNCHANGED <<watches, pending, up>>
    BY <1>4 DEF Snapshot, Rest
  <2> QED
    BY <1>1, <1>2, <2>1, NewsWire
<1> QED
  BY <1>3, <1>4

LEMMA RefusedWire ==
    ASSUME IndInv, WireInv, NEW q \in Queries, Refused(q)
    PROVE  WireInv'
<1>1. /\ Handles(q) /\ Takes(q) /\ targets' = targets \ {q}
      /\ Head(down[q]).kind = "refused"
      /\ UNCHANGED <<stream, up, served, watches>>
      /\ miscount' = (miscount \/ ~Exact(q)')
  BY DEF Refused
<1>2. Others(q)
  BY <1>1, Parts DEF Refused, Takes, Others, WireOK
<1>3. ASSUME ~miscount PROVE Marked(q)'
  <2>1. CASE q \in targets
    <3>1. states'[q].current = 0
      BY <2>1, Parts DEF Refused, Fresh, WireOK
    <3> QED
      BY <3>1 DEF Marked
  <2>2. CASE q \notin targets
    <3>1. states' = states /\ targets' = targets
      BY <1>1, <2>2 DEF Refused
    <3> QED
      BY <1>1, <1>3, <3>1, MarkStays
  <2> QED
    BY <2>1, <2>2
<1> QED
  BY <1>1, <1>2, <1>3, WireOfOne DEF Handles

LEMMA AnswersWire ==
    ASSUME IndInv, WireInv, NEW q \in Queries,
           NEW kind \in {"added", "removed", "refused"}, Answers(q, kind),
           \A k \in Queries \ {q} : served'[k] = served[k],
           \/ kind = "added" /\ served'[q].watch = Head(up[q]).watch
           \/ kind = "refused"
           \/ kind = "removed" /\ Head(up[q]).kind = "remove",
           Head(up[q]).kind = "remove" => kind = "removed"
    PROVE  WireInv'
<1> DEFINE r == [kind |-> kind, watch |-> Head(up[q]).watch, empty |-> FALSE,
                 current |-> FALSE]
<1>1. /\ up[q] # << >>
      /\ up' = [up EXCEPT ![q] = Tail(@)]
      /\ down' = [down EXCEPT ![q] = Append(@, r)]
      /\ UNCHANGED <<targets, stream, pending, states, watches, miscount>>
  BY DEF Answers, heardVars
<1>2. up'[q] = Tail(up[q]) /\ down'[q] = Append(down[q], r) /\ Others(q)
  BY <1>1, Parts DEF Others, WireOK
<1>3. Head(up[q]) \in Ask /\ Tail(up[q]) \in Seq(Ask) /\ Len(Tail(up[q])) = Len(up[q]) - 1
  BY <1>1, WireParts
<1>4. r \in Response /\ Responds(r) /\ r.kind = kind
  BY <1>3 DEF Ask, Response, Responds
<1> HIDE DEF r
<1>5. stream = "Open"
  BY <1>1 DEF WireInv, OffLine
<1>6. ~miscount => Exact(q)'
  <2> SUFFICES ASSUME ~miscount PROVE Exact(q)'
    OBVIOUS
  <2>1. Cardinality(Due(down'[q])) = Cardinality(Due(down[q])) + 1
    BY <1>2, <1>4, WireParts, DueAppend
  <2>2. Cardinality(Due(down[q])) \in Nat /\ Len(up[q]) \in Nat
    BY WireParts, DueFinite
  <2>3. pending[q] = Len(up[q]) + Cardinality(Due(down[q]))
    BY WireParts
  <2>5. pending'[q] = pending[q] /\ Len(up'[q]) = Len(up[q]) - 1
    BY <1>1, <1>2, <1>3
  <2>4. pending'[q] = Len(up'[q]) + Cardinality(Due(down'[q]))
    BY <2>1, <2>2, <2>3, <2>5
  <2> QED
    BY <2>4, WireParts
<1>7. ~miscount /\ q \in targets => Own(q)'
  <2> SUFFICES ASSUME ~miscount, q \in targets PROVE Own(q)'
    OBVIOUS
  <2>1. Owned(up[q], down[q], served[q], watches[q])
    BY <1>5, WireParts DEF Own
  <2>2. \/ r.kind = "added" /\ served'[q].watch = Head(up[q]).watch
        \/ r.kind = "refused"
        \/ r.kind = "removed" /\ Head(up[q]).kind = "remove"
    BY <1>4
  <2>3. Owned(Tail(up[q]), Append(down[q], r), served'[q], watches[q])
    BY <1>1, <1>4, <2>1, <2>2, WireParts, OwnedAnswer
  <2> QED
    BY <1>1, <1>2, <2>3 DEF Own
<1>8. ~miscount => Marked(q)'
  <2>1. Dropped(up[q], down[q]) => Dropped(Tail(up[q]), Append(down[q], r))
    BY <1>1, <1>4, WireParts, DroppedAnswer
  <2>2. Dropped(up[q], down[q]) => Dropped(up[q], down[q])'
    BY <1>2, <2>1
  <2> QED
    BY <1>1, <2>2, WireParts DEF Marked
<1> QED
  BY <1>1, <1>2, <1>5, <1>6, <1>7, <1>8, WireOfOne

LEMMA SendsWire ==
    ASSUME IndInv, WireInv, NEW q \in Queries,
           NEW kind \in {"change", "reset", "mismatch", "snapshot"},
           NEW e \in BOOLEAN, NEW c \in BOOLEAN, Sends(q, kind, e, c),
           served[q].watch # 0 \/ served[q].due,
           \A k \in Queries \ {q} : served'[k] = served[k],
           served'[q].watch = served[q].watch
    PROVE  WireInv'
<1> DEFINE r == [kind |-> kind, watch |-> served[q].watch, empty |-> e, current |-> c]
<1>1. /\ down' = [down EXCEPT ![q] = Append(@, r)]
      /\ UNCHANGED <<targets, stream, pending, states, up, watches, miscount>>
  BY DEF Sends, heardVars
<1>2. down'[q] = Append(down[q], r) /\ Others(q)
  BY <1>1, Parts DEF Others, WireOK
<1>3. r \in Response /\ ~Responds(r) /\ r.watch = served[q].watch
  BY WireParts DEF Response, Responds
<1> HIDE DEF r
<1>4. ~miscount => Exact(q)'
  <2>1. Cardinality(Due(down'[q])) = Cardinality(Due(down[q])) + 0
    BY <1>2, <1>3, WireParts, DueAppend
  <2>2. Cardinality(Due(down[q])) \in Nat
    BY WireParts, DueFinite
  <2> QED
    BY <1>1, <2>1, <2>2, WireParts
<1>5. stream = "Open"
  BY DEF WireInv, OffLine
<1>6. ~miscount /\ q \in targets => Own(q)'
  <2> SUFFICES ASSUME ~miscount, q \in targets PROVE Own(q)'
    OBVIOUS
  <2>1. Owned(up[q], down[q], served[q], watches[q])
    BY <1>5, WireParts DEF Own
  <2>2. Owned(up[q], Append(down[q], r), served'[q], watches[q])
    BY <1>3, <2>1, WireParts, OwnedSends
  <2> QED
    BY <1>1, <1>2, <2>2 DEF Own
<1>7. ~miscount => Marked(q)'
  <2>1. Dropped(up[q], down[q]) => Dropped(up[q], Append(down[q], r))
    BY <1>3, WireParts, DroppedSends
  <2>2. Dropped(up[q], down[q]) => Dropped(up[q], down[q])'
    BY <1>1, <1>2, <2>1
  <2> QED
    BY <1>1, <2>2, WireParts DEF Marked
<1> QED
  BY <1>1, <1>2, <1>4, <1>5, <1>6, <1>7, WireOfOne

\* The server changes what it knows of one target.
LEMMA ServedOne ==
    ASSUME WireOK, NEW q \in Queries, NEW w, NEW c, NEW d,
           \/ served' = [served EXCEPT ![q].watch = w, ![q].current = c]
           \/ served' = [served EXCEPT ![q].current = c, ![q].due = d]
           \/ served' = [served EXCEPT ![q].due = d]
    PROVE  /\ \A k \in Queries \ {q} : served'[k] = served[k]
           /\ served' = [served EXCEPT ![q].watch = w, ![q].current = c]
                  => served'[q].watch = w
           /\ (\/ served' = [served EXCEPT ![q].current = c, ![q].due = d]
               \/ served' = [served EXCEPT ![q].due = d])
                 => served'[q].watch = served[q].watch
BY DEF WireOK

\* Every step keeps the invariant of the wire.
LEMMA WireStep == IndInv /\ WireInv /\ [Next]_vars => WireInv'
<1> SUFFICES ASSUME IndInv, WireInv, [Next]_vars PROVE WireInv'
  OBVIOUS
<1>1. ASSUME NEW l \in Listener, AddListener(l) PROVE WireInv'
  <2>1. l.query \in Queries
    BY DEF Listener
  <2>2. targets' = targets \cup {l.query} /\ UNCHANGED miscount
    BY <1>1 DEF AddListener
  <2>3. stream = "Open" => stream' = "Open"
    BY <1>1 DEF AddListener, ShouldStartWatchStream, IsStarted
  <2>4. stream' = "Open" => stream = "Open"
    BY <1>1 DEF AddListener, Started
  <2>5. CASE l.query \notin targets /\ stream = "Open"
    <3>1. Send({l.query}, <<"add">>, states) /\ UNCHANGED <<down, served>>
      BY <1>1, <2>5 DEF AddListener
    <3>3. {l.query} \in SUBSET Queries /\ stream' = "Open"
      BY <2>1, <2>3, <2>5
    <3>4. /\ \A k \in targets' :
                 \/ k \in {l.query} /\ "add" = "add"
                 \/ k \notin {l.query} /\ k \in targets /\ stream = "Open"
          /\ \A k \in Queries \ {l.query} : k \in targets <=> k \in targets'
          /\ \A k \in {l.query} : k \in targets' /\ (k \notin targets \/ stream # "Open")
      BY <2>2, <2>5
    <3> QED
      BY <2>2, <3>1, <3>3, <3>4, WireSends
  <2>6. CASE ~(l.query \notin targets /\ stream = "Open")
    <3>1. UNCHANGED <<connVars, watches>>
      BY <1>1, <2>6 DEF AddListener, connVars, heardVars
    <3>2. stream' = "Open" => targets' = targets
      BY <2>2, <2>4, <2>6
    <3> QED
      BY <2>2, <2>3, <2>4, <3>1, <3>2, WireStays
  <2> QED
    BY <2>5, <2>6
<1>2. ASSUME NEW l \in Listener, RemoveListener(l) PROVE WireInv'
  <2> DEFINE ends == \A k \in listening \ {l} : k.query # l.query
  <2>1. l.query \in Queries
    BY DEF Listener
  <2>2. targets' = (IF ends THEN targets \ {l.query} ELSE targets)
        /\ UNCHANGED <<stream, miscount>>
    BY <1>2 DEF RemoveListener
  <2>3. CASE ends /\ stream = "Open"
    <3>1. Send({l.query}, <<"remove">>, states) /\ UNCHANGED <<down, served>>
      BY <1>2, <2>3 DEF RemoveListener
    <3>2. /\ {l.query} \in SUBSET Queries /\ stream' = "Open" /\ UNCHANGED miscount
          /\ \A k \in targets' : k \notin {l.query} /\ k \in targets /\ stream = "Open"
          /\ \A k \in Queries \ {l.query} : k \in targets <=> k \in targets'
          /\ "remove" # "add"
      BY <2>1, <2>2, <2>3
    <3> HIDE DEF ends
    <3> QED
      BY <3>1, <3>2, WireSends
  <2>4. CASE ~(ends /\ stream = "Open")
    <3>1. UNCHANGED <<connVars, watches>>
      BY <1>2, <2>4 DEF RemoveListener, connVars, heardVars
    <3>2. stream = "Open" => targets' = targets
      BY <2>2, <2>4
    <3> QED
      BY <2>2, <3>1, <3>2, WireStays
  <2> QED
    BY <2>3, <2>4
<1>3. CASE DisableNetwork
  BY <1>3, Parts, StopFacts, WireEnds DEF DisableNetwork
<1>4. CASE EnableNetwork
  <2>1. UNCHANGED <<targets, connVars, watches, miscount>> /\ StartsAgain(stream, tracker)
    BY <1>4 DEF EnableNetwork
  <2>2. stream' = IF ShouldStartWatchStream(TRUE, stream, targets)
                  THEN Started(stream) ELSE stream
    BY <2>1 DEF StartsAgain
  <2>3. stream = "Open" <=> stream' = "Open"
    BY <2>2 DEF ShouldStartWatchStream, IsStarted, Started
  <2> QED
    BY <2>1, <2>3, WireStays
<1>5. CASE HandleCredentialChange
  <2>1. Disconnected /\ stream' \in {StateAfterStop, Started(StateAfterStop)}
    BY <1>5 DEF HandleCredentialChange, StartsAgain
  <2> QED
    BY <2>1, Parts, StopFacts, WireEnds DEF Started
<1>6. CASE StreamFails
  BY <1>6, WireEnds DEF StreamFails, Started
<1>7. CASE IdleElapses
  BY <1>7, Parts, StopFacts, WireEnds DEF IdleElapses
<1>8. CASE OnlineStateTimeout
  BY <1>8, WireStays DEF OnlineStateTimeout
<1>9. CASE OpenStream
  <2>1. /\ Send(targets, <<"add">>, states) /\ stream = "Starting" /\ stream' = "Open"
        /\ UNCHANGED <<targets, miscount, down, served>>
    BY <1>9 DEF OpenStream
  <2>2. targets \in SUBSET Queries /\ \A k \in targets' : k \in targets
    BY <2>1, Parts
  <2>3. /\ \A k \in Queries \ targets : k \in targets <=> k \in targets'
        /\ \A k \in targets : k \in targets' /\ (k \notin targets \/ stream # "Open")
    BY <2>1
  <2> QED
    BY <2>1, <2>2, <2>3, WireSends
<1>10. CASE BackoffElapses
  BY <1>10, WireStays DEF BackoffElapses
<1>11. ASSUME NEW q \in Queries, TargetResponse(q) \/ Change(q) \/ Reset(q) PROVE WireInv'
  BY <1>11, TargetResponseWire, ChangeWire, ResetWire
<1>12. ASSUME NEW q \in Queries, Snapshot(q) \/ Refused(q) PROVE WireInv'
  BY <1>12, SnapshotWire, RefusedWire
<1>13. WireOK
  BY Parts
<1>14. ASSUME NEW q \in Queries, ServerAdds(q) PROVE WireInv'
  <2>1. Answers(q, "added") /\ Head(up[q]).kind = "add"
        /\ served' = [served EXCEPT ![q].watch = Head(up[q]).watch, ![q].current = FALSE]
    BY <1>14 DEF ServerAdds
  <2>2. /\ served'[q].watch = Head(up[q]).watch
        /\ \A k \in Queries \ {q} : served'[k] = served[k]
    BY <1>13, <2>1, ServedOne
  <2> QED
    BY <2>1, <2>2, AnswersWire
<1>15. ASSUME NEW q \in Queries, ServerRefuses(q) PROVE WireInv'
  <2>1. Answers(q, "refused") /\ Head(up[q]).kind = "add" /\ served' = served
    BY <1>15 DEF ServerRefuses
  <2> QED
    BY <2>1, AnswersWire
<1>16. ASSUME NEW q \in Queries, ServerRemoves(q) PROVE WireInv'
  <2>1. /\ Answers(q, "removed") /\ Head(up[q]).kind = "remove"
        /\ served' = [served EXCEPT ![q].watch = 0, ![q].current = FALSE]
    BY <1>16 DEF ServerRemoves
  <2>2. \A k \in Queries \ {q} : served'[k] = served[k]
    BY <1>13, <2>1, ServedOne
  <2> QED
    BY <2>1, <2>2, AnswersWire
<1>17. ASSUME NEW q \in Queries,
              \/ \E e \in BOOLEAN : ServerCurrent(q, e) \/ ServerChange(q, e)
              \/ \E kind \in {"reset", "mismatch"} : ServerReset(q, kind)
              \/ ServerSnapshot(q)
       PROVE  WireInv'
  <2>1. PICK kind \in {"change", "reset", "mismatch", "snapshot"},
             e \in BOOLEAN, c \in BOOLEAN : Sends(q, kind, e, c)
    BY <1>17 DEF ServerCurrent, ServerChange, ServerReset, ServerSnapshot
  <2>2. served[q].watch # 0 \/ served[q].due
    BY <1>17 DEF ServerCurrent, ServerChange, ServerReset, ServerSnapshot
  <2>3. \E k, d \in BOOLEAN :
           \/ served' = [served EXCEPT ![q].current = k, ![q].due = d]
           \/ served' = [served EXCEPT ![q].due = d]
    <3>1. served[q].current \in BOOLEAN
      BY <1>13 DEF WireOK
    <3> QED
      BY <1>17, <3>1 DEF ServerCurrent, ServerChange, ServerReset, ServerSnapshot
  <2>4. /\ \A k \in Queries \ {q} : served'[k] = served[k]
        /\ served'[q].watch = served[q].watch
    BY <1>13, <2>3, ServedOne
  <2> QED
    BY <2>1, <2>2, <2>4, SendsWire
<1>18. CASE UNCHANGED vars
  BY <1>18, WireStays DEF vars
<1> QED
  BY <1>1, <1>2, <1>3, <1>4, <1>5, <1>6, <1>7, <1>8, <1>9, <1>10, <1>11, <1>12,
     <1>14, <1>15, <1>16, <1>17, <1>18 DEF Next, Client, Handle, Server

-----------------------------------------------------------------------------
(* The theorem.                                                            *)

\* What a step may not do: sync a view by another request's snapshot or CURRENT.
OwnSync ==
    \A q \in Queries :
        ~miscount /\ ~synced[q] /\ synced'[q] =>
            /\ Head(down[q]).watch = watches[q]
            /\ states[q].current = watches[q] \/ states[q].kept

\* Only a snapshot for an active target that is current makes a view synced.
LEMMA OnlySnapshotSyncs ==
    ASSUME IndInv, [Next]_vars, NEW q \in Queries, ~synced[q], synced'[q]
    PROVE  Snapshot(q) /\ Active(q) /\ states[q].current # 0
<1>1. /\ synced \in Content /\ empty \in Content /\ listening \in SUBSET Listener
      /\ tracker \in Tracker
  BY Parts DEF Sound
<1>2. ASSUME NEW t, NEW ls, NEW emp, Announce(t, ls, synced, emp)
      PROVE  FALSE
  BY <1>1, <1>2 DEF Announce, Content
<1>3. ASSUME NEW l \in Listener, AddListener(l) PROVE FALSE
  BY <1>2, <1>3 DEF AddListener
<1>4. ASSUME NEW l \in Listener, RemoveListener(l) PROVE FALSE
  <2> DEFINE ends == \A k \in listening \ {l} : k.query # l.query
             syn == IF ends THEN [synced EXCEPT ![l.query] = FALSE] ELSE synced
  <2>1. PICK t : Announce(t, listening \ {l}, syn, empty)
    BY <1>4 DEF RemoveListener
  <2>2. ~syn[q]
    BY <1>1 DEF Content
  <2> HIDE DEF syn
  <2> QED
    BY <2>1, <2>2 DEF Announce
<1>5. CASE DisableNetwork \/ EnableNetwork \/ HandleCredentialChange
  BY <1>2, <1>5 DEF DisableNetwork, EnableNetwork, HandleCredentialChange, StartsAgain
<1>6. CASE StreamFails \/ IdleElapses \/ OnlineStateTimeout
  BY <1>2, <1>6 DEF StreamFails, IdleElapses, OnlineStateTimeout
<1>7. CASE OpenStream \/ BackoffElapses \/ UNCHANGED vars
  BY <1>7 DEF OpenStream, BackoffElapses, vars, appVars
<1>8. ASSUME NEW k \in Queries, TargetResponse(k) \/ Change(k) \/ Reset(k) PROVE FALSE
  BY <1>2, <1>8 DEF TargetResponse, Change, Reset
<1>9. ASSUME NEW k \in Queries, Snapshot(k)
      PROVE  Snapshot(q) /\ Active(q) /\ states[q].current # 0
  <2> DEFINE hits == Active(k) /\ states[k].changed
             syn == [synced EXCEPT ![k] = IF hits THEN states[k].current # 0 ELSE @]
  <2>1. PICK emp : Announce(UpdateState("Online"), listening, syn, emp)
    BY <1>9 DEF Snapshot
  <2>2. syn[q]
    <3> HIDE DEF syn
    <3> QED
      BY <2>1 DEF Announce
  <2>3. k = q /\ Active(k) /\ states[k].current # 0
    BY <1>1, <2>2 DEF Content
  <2> QED
    BY <1>9, <2>3
<1>11. ASSUME NEW k \in Queries, Refused(k) PROVE FALSE
  <2> DEFINE syn == [synced EXCEPT ![k] = FALSE]
  <2>1. PICK ls : Announce(UpdateState("Online"), ls, syn, empty)
    BY <1>11 DEF Refused
  <2>2. ~syn[q]
    BY <1>1 DEF Content
  <2> HIDE DEF syn
  <2> QED
    BY <2>1, <2>2 DEF Announce
<1>12. ASSUME NEW k \in Queries, ServerAdds(k) \/ ServerRemoves(k) \/ ServerRefuses(k)
       PROVE  FALSE
  BY <1>12 DEF ServerAdds, ServerRemoves, ServerRefuses, Answers, appVars
<1>13. ASSUME NEW k \in Queries,
              \/ \E e \in BOOLEAN : ServerCurrent(k, e) \/ ServerChange(k, e)
              \/ \E kind \in {"reset", "mismatch"} : ServerReset(k, kind)
              \/ ServerSnapshot(k)
       PROVE  FALSE
  BY <1>13 DEF ServerCurrent, ServerChange, ServerReset, ServerSnapshot, Sends, appVars
<1> QED
  BY <1>3, <1>4, <1>5, <1>6, <1>7, <1>8, <1>9, <1>11, <1>12, <1>13
     DEF Next, Client, Handle, Server

LEMMA SyncStep == IndInv /\ WireInv /\ [Next]_vars => OwnSync
<1> SUFFICES ASSUME IndInv, WireInv, [Next]_vars, NEW q \in Queries,
                    ~miscount, ~synced[q], synced'[q]
             PROVE  /\ Head(down[q]).watch = watches[q]
                    /\ states[q].current = watches[q] \/ states[q].kept
  BY DEF OwnSync
<1>1. Snapshot(q) /\ Active(q) /\ states[q].current # 0
  BY OnlySnapshotSyncs
<1>2. Handles(q) /\ q \in targets
  BY <1>1 DEF Snapshot, Active
<1>3. Head(down[q]).watch = watches[q]
  BY <1>1, <1>2, HeadIsOwn
<1>4. Marked(q)
  BY WireParts
<1> QED
  BY <1>1, <1>2, <1>3, <1>4 DEF Marked

\* A view becomes synced only by a snapshot and a CURRENT of the present request
\* (TargetState in WatchChangeAggregator), however often its query was dropped
\* and taken up again; but for a target that was requested again before its
\* removal was answered, which keeps the CURRENT it had.
THEOREM SyncCorrect == Spec => SyncedByItsOwn
<1>1. Init => WireInv
  BY WireInit
<1>2. IndInv /\ WireInv /\ [Next]_vars => WireInv'
  BY WireStep
<1>3. Spec => [](IndInv /\ WireInv)
  BY <1>1, <1>2, Inductive, PTL DEF Spec
<1>4. IndInv /\ WireInv /\ [Next]_vars => [OwnSync]_vars
  BY SyncStep
<1>5. Spec => [][OwnSync]_vars
  BY <1>3, <1>4, PTL DEF Spec
<1> QED
  BY <1>5 DEF OwnSync, SyncedByItsOwn
=============================================================================
