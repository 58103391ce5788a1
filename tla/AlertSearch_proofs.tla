------------------------- MODULE AlertSearch_proofs -------------------------
(***************************************************************************)
(* What AlertSearch guarantees for any number of searches, any outcomes of *)
(* the requests and any interleaving of jobs, screens, rotations, the      *)
(* background and the end of the process.                                  *)
(***************************************************************************)
EXTENDS AlertSearch, TLAPS

\* The data are numbers, and None is one of them.
LEMMA DataFacts == None \in Data /\ Request \subseteq Data /\ None \notin Request
BY AlertAssumption DEF None, Data, Request

\* toggleLoading(false) shows the list and ends the loading; a list that is
\* hidden without any loading stays hidden.
LEMMA ToggleOff ==
    ASSUME NEW v \in UI
    PROVE  /\ toggleLoading(v, FALSE) \in UI
           /\ toggleLoading(v, FALSE).shown = v.shown
           /\ toggleLoading(v, FALSE).searchLoading = FALSE
           /\ toggleLoading(v, FALSE).bar = FALSE
           /\ v.searchLoading \/ v.list => toggleLoading(v, FALSE).list = TRUE
<1>1. CASE v.searchLoading
  BY <1>1 DEF toggleLoading, UI
<1>2. CASE ~v.searchLoading
  BY <1>2 DEF toggleLoading, UI
<1> QED
  BY <1>1, <1>2

\* toggleLoading(true) shows the bar in place of the list, if there is loading.
LEMMA ToggleOn ==
    ASSUME NEW v \in UI
    PROVE  /\ toggleLoading(v, TRUE) \in UI
           /\ toggleLoading(v, TRUE).shown = v.shown
           /\ toggleLoading(v, TRUE).searchLoading = v.searchLoading
           /\ toggleLoading(v, TRUE).bar = v.searchLoading
           /\ v.searchLoading => toggleLoading(v, TRUE).list = FALSE
           /\ ~v.searchLoading => toggleLoading(v, TRUE).list = v.list
<1>1. CASE v.searchLoading
  BY <1>1 DEF toggleLoading, UI
<1>2. CASE ~v.searchLoading
  BY <1>2 DEF toggleLoading, UI
<1> QED
  BY <1>1, <1>2

\* The observer: the value is shown and nothing is loading any more.
LEMMA ObserverFacts ==
    ASSUME NEW v \in UI, NEW data \in Data, v.searchLoading \/ v.list
    PROVE  /\ observer(v, data) \in UI
           /\ observer(v, data).shown = data
           /\ observer(v, data).list = TRUE
           /\ observer(v, data).bar = FALSE
           /\ observer(v, data).searchLoading = FALSE
<1> DEFINE w == [v EXCEPT !.shown = data]
<1>1. w \in UI /\ w.shown = data /\ (w.searchLoading \/ w.list)
  BY DEF UI
<1>2. observer(v, data) = toggleLoading(w, FALSE)
  BY DEF observer
<1> HIDE DEF w
<1> QED
  BY <1>1, <1>2, ToggleOff

\* A view that resumes with nothing missed shows the bar if it loads, and the
\* list if it does not.
LEMMA ResumeFacts ==
    ASSUME NEW v \in UI, alertData \in Data,
           v.shown = alertData,
           v.searchLoading <=> alertData = None,
           v.searchLoading \/ v.list
    PROVE  /\ onResume(v) \in UI
           /\ onResume(v).shown = alertData
           /\ onResume(v).list = ~onResume(v).bar
           /\ onResume(v).bar = onResume(v).searchLoading
           /\ onResume(v).bar <=> alertData = None
<1> DEFINE w == toggleLoading(v, TRUE)
<1>1. onResume(v) = w
  BY DEF onResume
<1>2. /\ w \in UI /\ w.shown = v.shown
      /\ w.searchLoading = v.searchLoading /\ w.bar = v.searchLoading
      /\ v.searchLoading => w.list = FALSE
      /\ ~v.searchLoading => w.list = v.list
  BY ToggleOn
<1> HIDE DEF w
<1>3. CASE v.searchLoading
  <2>1. w.bar = TRUE /\ w.list = FALSE /\ w.searchLoading = TRUE
    BY <1>2, <1>3 DEF UI
  <2> QED
    BY <1>1, <1>2, <1>3, <2>1
<1>4. CASE ~v.searchLoading
  <2>1. w.bar = FALSE /\ w.list = TRUE /\ w.searchLoading = FALSE
    BY <1>2, <1>4 DEF UI
  <2> QED
    BY <1>1, <1>2, <1>4, <2>1
<1> QED
  BY <1>3, <1>4

\* A view that starts is given the value it has missed.
LEMMA StartFacts ==
    ASSUME NEW v \in UI, alertData \in Data,
           alertData = None => v.searchLoading,
           v.shown # None => ~v.searchLoading /\ alertData # None,
           v.searchLoading \/ v.list
    PROVE  /\ onStart(v) \in UI
           /\ onStart(v).shown = alertData
           /\ onStart(v).searchLoading <=> alertData = None
           /\ onStart(v).searchLoading \/ onStart(v).list
<1>1. CASE alertData \in {None, v.shown}
  BY <1>1 DEF onStart
<1>2. CASE alertData \notin {None, v.shown}
  BY <1>2, ObserverFacts DEF onStart
<1> QED
  BY <1>1, <1>2

\* A new view starts empty with everything visible; the loading flag is that of
\* the view model.
LEMMA OpenedFacts ==
    ASSUME NEW v \in UI, alertData \in Data, alertData = None => v.searchLoading
    PROVE  /\ Opened(v) \in UI
           /\ Opened(v).shown = alertData
           /\ Opened(v).list = ~Opened(v).bar
           /\ Opened(v).bar = Opened(v).searchLoading
           /\ Opened(v).bar <=> alertData = None
<1> DEFINE w == onCreateView(v)
<1>1. /\ w \in UI
      /\ w.shown = None /\ w.list = TRUE /\ w.searchLoading = v.searchLoading
  BY DataFacts DEF onCreateView, UI
<1>2. Opened(v) = onResume(onStart(w))
  BY DEF Opened
<1> HIDE DEF w
<1> QED
  BY <1>1, <1>2, StartFacts, ResumeFacts

-----------------------------------------------------------------------------
(* The invariant.                                                          *)

\* What the lemmas on the view need to know of it.
LEMMA InvFacts ==
    ASSUME IndInv
    PROVE  /\ ui \in UI /\ alertData \in Data /\ pending \in Data
           /\ alertData = None => ui.searchLoading
           /\ Opened(ui) \in UI
           /\ Opened(ui).shown = alertData
           /\ Opened(ui).list = ~Opened(ui).bar
           /\ Opened(ui).bar = Opened(ui).searchLoading
           /\ Opened(ui).bar <=> alertData = None
BY OpenedFacts DEF IndInv, TypeOK

LEMMA NoViewFacts ==
    ASSUME NEW b \in BOOLEAN
    PROVE  /\ NoView(b) \in UI
           /\ NoView(b).searchLoading = b
           /\ NoView(b).shown = None
BY DataFacts DEF NoView, UI

\* A new results view is as the invariant wants it, in the foreground and on.
LEMMA OpenedPreserves ==
    ASSUME IndInv, ui' = Opened(ui), screen' = "results", running',
           foreground' \in BOOLEAN, running' \in BOOLEAN,
           UNCHANGED <<searches, jobs, pending, alertData, mishaps>>
    PROVE  IndInv'
BY InvFacts, DataFacts
   DEF IndInv, TypeOK, ListMirrorsData, AnswerOrBar, LastArrives, resumed, UI

\* So is the absence of a view when another screen is up.
LEMMA NoViewPreserves ==
    ASSUME IndInv, ui' = NoView(ui.searchLoading), running,
           screen' \in {"search", "details"},
           UNCHANGED <<running, foreground, searches, jobs, pending, alertData, mishaps>>
    PROVE  IndInv'
BY InvFacts, NoViewFacts, DataFacts
   DEF IndInv, TypeOK, ListMirrorsData, AnswerOrBar, LastArrives, resumed, UI

\* The end of the process leaves nothing but the screen to restore.
LEMMA ExitPreserves ==
    ASSUME NEW s \in {"search", "results", "details"}, Exit(s)
    PROVE  IndInv'
<1>1. ui' \in UI /\ ui'.searchLoading = TRUE /\ ui'.shown = None
  BY NoViewFacts DEF Exit
<1>2. searches' \in 0..MaxSearches /\ jobs' \subseteq Request /\ mishaps' \subseteq Mishap
  BY AlertAssumption DEF Exit
<1>3. TypeOK'
  BY <1>1, <1>2, DataFacts DEF Exit, TypeOK
<1>4. LastArrives'
  BY DEF Exit, LastArrives, None
<1> QED
  BY <1>1, <1>3, <1>4 DEF Exit, IndInv, ListMirrorsData, AnswerOrBar, resumed

LEMMA InitIndInv == Init => IndInv
<1> SUFFICES ASSUME Init PROVE IndInv
  OBVIOUS
<1>1. ui \in UI /\ ui.searchLoading = TRUE /\ ui.shown = None
  BY NoViewFacts DEF Init
<1>2. searches \in 0..MaxSearches /\ jobs \subseteq Request /\ mishaps \subseteq Mishap
  BY AlertAssumption DEF Init
<1>3. TypeOK
  BY <1>1, <1>2, DataFacts DEF Init, TypeOK
<1>4. LastArrives
  BY DEF Init, LastArrives, None
<1> QED
  BY <1>1, <1>3, <1>4 DEF Init, IndInv, ListMirrorsData, AnswerOrBar, resumed

LEMMA NextIndInv == IndInv /\ [Next]_vars => IndInv'
<1> SUFFICES ASSUME IndInv, [Next]_vars PROVE IndInv'
  OBVIOUS
<1> USE DataFacts
<1>1. CASE Launch
  <2>1. CASE screen = "results"
    BY <1>1, <2>1, OpenedPreserves DEF Launch
  <2>2. CASE screen # "results"
    BY <1>1, <2>2 DEF Launch, IndInv, TypeOK, ListMirrorsData, AnswerOrBar, LastArrives, resumed
  <2> QED
    BY <2>1, <2>2
<1>2. CASE Kill \/ Reclaim \/ searchAlertsTwice
  BY <1>2, ExitPreserves DEF Kill, Reclaim, searchAlertsTwice, IndInv, TypeOK
<1>3. CASE Background
  BY <1>3 DEF Background, IndInv, TypeOK, ListMirrorsData, AnswerOrBar, LastArrives, resumed
<1>4. CASE Foreground
  <2>1. CASE screen = "results"
    <3>1. /\ ui' \in UI
          /\ ui'.shown = alertData
          /\ ui'.list = ~ui'.bar
          /\ ui'.bar = ui'.searchLoading
          /\ ui'.bar <=> alertData = None
      BY <1>4, <2>1, StartFacts, ResumeFacts, InvFacts DEF Foreground, IndInv
    <3> QED
      BY <1>4, <2>1, <3>1
         DEF Foreground, IndInv, TypeOK, ListMirrorsData, AnswerOrBar, LastArrives, resumed, UI
  <2>2. CASE screen # "results"
    BY <1>4, <2>2
       DEF Foreground, IndInv, TypeOK, ListMirrorsData, AnswerOrBar, LastArrives, resumed
  <2> QED
    BY <2>1, <2>2
<1>5. CASE Recreate
  BY <1>5, OpenedPreserves DEF Recreate, resumed, IndInv, TypeOK
<1>6. CASE searchAlerts
  <2>1. searches' \in 0..MaxSearches /\ jobs' \subseteq Request
    BY <1>6, AlertAssumption DEF searchAlerts, IndInv, TypeOK, Request
  <2>2. ui' \in UI /\ ui'.searchLoading /\ ui'.shown = ui.shown
    BY <1>6, InvFacts DEF searchAlerts, UI
  <2>3. mishaps' \subseteq Mishap
    BY <1>6 DEF searchAlerts, Mishap
  <2>4. LastArrives'
    <3>1. CASE jobs = {} /\ pending = None
      BY <1>6, <3>1 DEF searchAlerts, LastArrives
    <3>2. CASE ~(jobs = {} /\ pending = None)
      BY <1>6, <3>2 DEF searchAlerts, LastArrives
    <3> QED
      BY <3>1, <3>2
  <2> QED
    BY <1>6, <2>1, <2>2, <2>3, <2>4
       DEF searchAlerts, IndInv, TypeOK, ListMirrorsData, AnswerOrBar, resumed
<1>7. CASE openResults
  BY <1>7, OpenedPreserves DEF openResults, IndInv, TypeOK
<1>8. CASE onAlertItemClick
  BY <1>8, NoViewPreserves DEF onAlertItemClick, resumed, IndInv
<1>9. CASE BackToResults
  BY <1>9, OpenedPreserves DEF BackToResults, IndInv, TypeOK
<1>10. CASE BackToSearch
  BY <1>10, NoViewPreserves DEF BackToSearch, resumed, IndInv
<1>11. ASSUME NEW r \in Request, getAlertData(r)
       PROVE  IndInv'
  <2>1. CASE Answered(r)
    BY <2>1 DEF Answered, IndInv, TypeOK, ListMirrorsData, AnswerOrBar, LastArrives, resumed
  <2>2. CASE Unanswered(r)
    <3>1. mishaps' \subseteq Mishap
      BY <2>2 DEF Unanswered, IndInv, TypeOK, Mishap
    <3>2. LastArrives'
      <4>1. CASE r = searches
        BY <2>2, <4>1 DEF Unanswered, IndInv, LastArrives
      <4>2. CASE r # searches
        BY <2>2, <4>2 DEF Unanswered, IndInv, LastArrives
      <4> QED
        BY <4>1, <4>2
    <3> QED
      BY <2>2, <3>1, <3>2
         DEF Unanswered, IndInv, TypeOK, ListMirrorsData, AnswerOrBar, resumed
  <2>3. CASE Throws(r)
    BY <2>3, ExitPreserves DEF Throws
  <2> QED
    BY <1>11, <2>1, <2>2, <2>3 DEF getAlertData
<1>12. CASE setValue
  <2>1. CASE resumed
    <3>1. /\ ui' \in UI
          /\ ui'.shown = pending
          /\ ui'.list = TRUE /\ ui'.bar = FALSE /\ ui'.searchLoading = FALSE
      <4>1. ui.searchLoading \/ ui.list
        BY <2>1 DEF IndInv, resumed
      <4>2. ui' = observer(ui, pending)
        BY <1>12, <2>1 DEF setValue
      <4> QED
        BY <4>1, <4>2, InvFacts, ObserverFacts
    <3> QED
      BY <1>12, <2>1, <3>1, InvFacts
         DEF setValue, IndInv, TypeOK, ListMirrorsData, AnswerOrBar, LastArrives, resumed, UI
  <2>2. CASE ~resumed
    BY <1>12, <2>2
       DEF setValue, IndInv, TypeOK, ListMirrorsData, AnswerOrBar, LastArrives, resumed
  <2> QED
    BY <2>1, <2>2
<1>13. CASE UNCHANGED vars
  <2> USE <1>13 DEF vars
  <2> QED
    BY DEF IndInv, TypeOK, ListMirrorsData, AnswerOrBar, LastArrives, resumed
<1> QED
  BY <1>1, <1>2, <1>3, <1>4, <1>5, <1>6, <1>7, <1>8, <1>9, <1>10, <1>11, <1>12, <1>13
     DEF Next

LEMMA Invariance == Spec => []IndInv
<1>1. Init => IndInv
  BY InitIndInv
<1>2. IndInv /\ [Next]_vars => IndInv'
  BY NextIndInv
<1> QED
  BY <1>1, <1>2, PTL DEF Spec

\* Every variable keeps its type.
THEOREM TypeCorrect == Spec => []TypeOK
<1>1. IndInv => TypeOK
  BY DEF IndInv
<1> QED
  BY <1>1, Invariance, PTL

\* The results screen in the foreground shows the value of alertData.
THEOREM MirrorCorrect == Spec => []ListMirrorsData
<1>1. IndInv => ListMirrorsData
  BY DEF IndInv
<1> QED
  BY <1>1, Invariance, PTL

\* It shows the list or the bar, the list as soon as there is an answer, and
\* the bar for a search before that.
THEOREM BarCorrect == Spec => []AnswerOrBar
<1>1. IndInv => AnswerOrBar
  BY DEF IndInv
<1> QED
  BY <1>1, Invariance, PTL

\* Once all is answered, it shows the answer to the last search, if that was
\* made while no other was on its way.
THEOREM LastIsShown == Spec => []SettledShowsLast
<1>1. IndInv => SettledShowsLast
  BY DEF IndInv, ListMirrorsData, LastArrives, SettledShowsLast
<1> QED
  BY <1>1, Invariance, PTL
=============================================================================
