---------------------------- MODULE AlertSearch ----------------------------
(***************************************************************************)
(* The search of labs/lab8 (and of labs/lab6, whose repository and search  *)
(* screen are the same): every search starts a coroutine on the IO         *)
(* dispatcher that is never cancelled, the answers reach the main thread   *)
(* through one LiveData, and the results screen observes it for as long as *)
(* its view lives.  The view model outlives views and rotations, not the   *)
(* process; Android restores the screen, not the view model, after it has  *)
(* reclaimed the process of an app in the background.                      *)
(* An answer is identified by the number of the search it answers.         *)
(***************************************************************************)
EXTENDS Naturals

CONSTANTS
    Outcomes,       \* how a job may end, see Outcome
    Reclaims,       \* may Android reclaim the process in the background?
    MaxSearches     \* bound on the searches of one view model

(* "answer"  a body that decodes                                           *)
(* "noBody"  a response without one: an error status                       *)
(* "offline" no network when the job starts: it does nothing               *)
(* "throws"  execute() throws (connection lost, time-out, malformed body), *)
(*           which no handler catches                                      *)
Outcome == {"answer", "noBody", "offline", "throws"}

ASSUME AlertAssumption ==
    /\ Outcomes \subseteq Outcome
    /\ Reclaims \in BOOLEAN
    /\ MaxSearches \in Nat

VARIABLES
    running,        \* is the process alive?
    foreground,     \* is the activity resumed?
    screen,         \* "search", "opening", "results" or "details"
    searches,       \* searches made through this view model
    jobs,           \* its coroutines that have not ended
    pending,        \* the value posted to alertData and not yet set, or None
    alertData,      \* the value of the LiveData, or None
    ui,             \* searchLoading of the view model and the results view
    mishaps         \* history: what keeps the latest search from being shown

vars == <<running, foreground, screen, searches, jobs, pending, alertData, ui,
          mishaps>>

(* "overlap"     it was made while another was on its way                 *)
(* "unanswered"  its job has ended without an answer                      *)
Mishap == {"overlap", "unanswered"}

None == 0
Request == 1..MaxSearches
Data == Request \cup {None}

UI == [searchLoading : BOOLEAN, shown : Data, list : BOOLEAN, bar : BOOLEAN]

\* The view when there is none: no adapter, nothing visible.
NoView(loading) == [searchLoading |-> loading, shown |-> None, list |-> FALSE, bar |-> FALSE]

-----------------------------------------------------------------------------
(* The results view: its adapter (shown) and the visibility of the list    *)
(* and of the loading bar.                                                 *)

\* Mutants: searchLoading is not reset; the bar stays.
toggleLoadingMutant(v, loading) ==
    IF ~v.searchLoading THEN [v EXCEPT !.bar = FALSE]
    ELSE [v EXCEPT !.list = ~loading, !.bar = loading]
toggleLoadingMutant2(v, loading) ==
    IF ~v.searchLoading THEN v
    ELSE [v EXCEPT !.list = ~loading, !.searchLoading = loading]

toggleLoading(v, loading) ==
    IF ~v.searchLoading THEN [v EXCEPT !.bar = FALSE]
    ELSE [v EXCEPT !.list = ~loading, !.bar = loading, !.searchLoading = loading]

\* The observer of alertData.
observer(v, data) == toggleLoading([v EXCEPT !.shown = data], FALSE)

\* Mutant: an observer that starts waits for the next value.
onStartMutant(v) == v

\* An observer that becomes active is given the value it has not yet seen.
onStart(v) == IF alertData \in {None, v.shown} THEN v ELSE observer(v, alertData)

onResume(v) == toggleLoading(v, TRUE)

\* A new view up to its resumption, which runs in one go on the main thread.
onCreateView(v) == [v EXCEPT !.shown = None, !.list = TRUE, !.bar = TRUE]
Opened(v) == onResume(onStart(onCreateView(v)))

resumed == foreground /\ screen = "results"

Init ==
    /\ running = FALSE
    /\ foreground = FALSE
    /\ screen = "search"
    /\ searches = 0
    /\ jobs = {}
    /\ pending = None
    /\ alertData = None
    /\ ui = NoView(TRUE)
    /\ mishaps = {}

-----------------------------------------------------------------------------
(* Process and activity life cycle.                                        *)

\* A new process and view model, on the start screen or on the restored one.
Launch ==
    /\ ~running
    /\ running' = TRUE
    /\ foreground' = TRUE
    /\ ui' = IF screen = "results" THEN Opened(ui) ELSE ui
    /\ UNCHANGED <<screen, searches, jobs, pending, alertData, mishaps>>

\* The end of the process; s is the screen the next one starts with.
Exit(s) ==
    /\ running' = FALSE
    /\ foreground' = FALSE
    /\ screen' = s
    /\ searches' = 0
    /\ jobs' = {}
    /\ pending' = None
    /\ alertData' = None
    /\ ui' = NoView(TRUE)
    /\ mishaps' = {}

\* Swiped away, crashed, or left with Back from the search screen: the view
\* model is cleared, and what its jobs post reaches no view.
Kill == running /\ Exit("search")

Reclaim ==
    /\ Reclaims
    /\ running /\ ~foreground
    /\ Exit(screen)

Background ==
    /\ foreground /\ screen # "opening"
    /\ foreground' = FALSE
    /\ UNCHANGED <<running, screen, searches, jobs, pending, alertData, ui, mishaps>>

Foreground ==
    /\ running /\ ~foreground
    /\ foreground' = TRUE
    /\ ui' = IF screen = "results" THEN onResume(onStart(ui)) ELSE ui
    /\ UNCHANGED <<running, screen, searches, jobs, pending, alertData, mishaps>>

\* A rotation: a new activity and view, the same view model.
Recreate ==
    /\ resumed
    /\ ui' = Opened(ui)
    /\ UNCHANGED <<running, foreground, screen, searches, jobs, pending, alertData,
                   mishaps>>

-----------------------------------------------------------------------------
(* The screens.                                                            *)

\* searchAlerts with a term: setting searchUserInput runs searchTermEntered,
\* which launches the job; the navigation commits a fragment transaction.
searchAlerts ==
    /\ foreground /\ screen = "search"
    /\ searches < MaxSearches
    /\ searches' = searches + 1
    /\ jobs' = jobs \cup {searches + 1}
    /\ ui' = [ui EXCEPT !.searchLoading = TRUE]
    /\ mishaps' = IF jobs = {} /\ pending = None THEN {} ELSE {"overlap"}
    /\ screen' = "opening"
    /\ UNCHANGED <<running, foreground, pending, alertData>>

\* A second tap on the button that is handled before the transaction: the
\* action is unknown at the new destination and navigate throws.
searchAlertsTwice ==
    /\ screen = "opening"
    /\ Exit("search")

\* The transaction.
openResults ==
    /\ screen = "opening"
    /\ screen' = "results"
    /\ ui' = Opened(ui)
    /\ UNCHANGED <<running, foreground, searches, jobs, pending, alertData, mishaps>>

\* The view of the results is destroyed, the fragment is kept.
onAlertItemClick ==
    /\ resumed /\ ui.list /\ ui.shown # None
    /\ screen' = "details"
    /\ ui' = NoView(ui.searchLoading)
    /\ UNCHANGED <<running, foreground, searches, jobs, pending, alertData, mishaps>>

BackToResults ==
    /\ foreground /\ screen = "details"
    /\ screen' = "results"
    /\ ui' = Opened(ui)
    /\ UNCHANGED <<running, foreground, searches, jobs, pending, alertData, mishaps>>

BackToSearch ==
    /\ resumed
    /\ screen' = "search"
    /\ ui' = NoView(ui.searchLoading)
    /\ UNCHANGED <<running, foreground, searches, jobs, pending, alertData, mishaps>>

-----------------------------------------------------------------------------
(* The jobs, on the IO dispatcher, and the main thread.                    *)

\* postValue replaces a value that still waits for the main thread.
Answered(r) ==
    /\ "answer" \in Outcomes
    /\ r \in jobs
    /\ jobs' = jobs \ {r}
    /\ pending' = r
    /\ UNCHANGED <<running, foreground, screen, searches, alertData, ui, mishaps>>

\* Mutant: an error is posted too, under a number of its own.
UnansweredMutant(r) ==
    /\ Outcomes \cap {"noBody", "offline"} # {}
    /\ r \in jobs
    /\ jobs' = jobs \ {r}
    /\ pending' = MaxSearches + 1
    /\ UNCHANGED <<running, foreground, screen, searches, alertData, ui, mishaps>>

\* No network, or a response without a body: an entry in the log at most.
Unanswered(r) ==
    /\ Outcomes \cap {"noBody", "offline"} # {}
    /\ r \in jobs
    /\ jobs' = jobs \ {r}
    /\ mishaps' = IF r = searches THEN mishaps \cup {"unanswered"} ELSE mishaps
    /\ UNCHANGED <<running, foreground, screen, searches, pending, alertData, ui>>

Throws(r) ==
    /\ "throws" \in Outcomes
    /\ r \in jobs
    /\ Exit("search")

getAlertData(r) == Answered(r) \/ Unanswered(r) \/ Throws(r)

\* Mutant: a value that nobody observes is dropped.
setValueMutant ==
    /\ pending # None
    /\ alertData' = IF resumed THEN pending ELSE alertData
    /\ pending' = None
    /\ ui' = IF resumed THEN observer(ui, pending) ELSE ui
    /\ UNCHANGED <<running, foreground, screen, searches, jobs, mishaps>>

\* The runnable of postValue; the observer runs if its view is active.
setValue ==
    /\ pending # None
    /\ alertData' = pending
    /\ pending' = None
    /\ ui' = IF resumed THEN observer(ui, pending) ELSE ui
    /\ UNCHANGED <<running, foreground, screen, searches, jobs, mishaps>>

Next ==
    \/ Launch \/ Kill \/ Reclaim
    \/ Background \/ Foreground \/ Recreate
    \/ searchAlerts \/ searchAlertsTwice \/ openResults
    \/ onAlertItemClick \/ BackToResults \/ BackToSearch
    \/ \E r \in Request : getAlertData(r)
    \/ setValue

\* A job ends, at the latest with a time-out of the HTTP client; the main
\* thread runs what is posted to it.
Fairness ==
    /\ WF_vars(\E r \in Request : getAlertData(r))
    /\ WF_vars(setValue)
    /\ WF_vars(openResults)

Spec == Init /\ [][Next]_vars /\ Fairness

-----------------------------------------------------------------------------
(* Properties.                                                             *)

\* Every variable has its type.
TypeOK ==
    /\ running \in BOOLEAN
    /\ foreground \in BOOLEAN
    /\ screen \in {"search", "opening", "results", "details"}
    /\ searches \in 0..MaxSearches
    /\ jobs \subseteq Request
    /\ pending \in Data
    /\ alertData \in Data
    /\ ui \in UI
    /\ mishaps \subseteq Mishap

\* A results screen in the foreground shows the value of alertData, wherever
\* that value was when the view was created, stopped, resumed or rotated: no
\* answer is lost because it came while nobody observed.
ListMirrorsData == resumed => ui.shown = alertData

\* Between a search and an answer nothing is both shown and hidden, whatever
\* stops, resumes or replaces the view: the list and the bar are never both
\* visible nor both hidden, the bar never covers an answer that is there, and a
\* search without any answer yet shows the bar.  Left out by name are a later
\* search, which the kept answer deprives of its bar (NewSearchShowsBar), and a
\* screen restored in a new process, with searches = 0: it shows the bar, against
\* the comment that NewSearchShowsBar quotes, and nothing ends it.
AnswerOrBar ==
    resumed => /\ ui.list = ~ui.bar
               /\ ui.bar => alertData = None
               /\ searches # 0 /\ alertData = None => ui.bar

\* Once everything asked has been answered, a results screen in the foreground
\* shows the answer to the last search, wherever the views were when it came,
\* unless that search was made while another was on its way.
SettledShowsLast ==
    resumed /\ jobs = {} /\ pending = None /\ mishaps = {} => ui.shown = searches

\* A search that was made in quiet is the only one on its way until its answer
\* is the value of alertData.
LastArrives ==
    /\ "overlap" \notin mishaps =>
           /\ jobs \subseteq {searches}
           /\ pending # None => jobs = {} /\ pending = searches
    /\ mishaps = {} /\ jobs = {} /\ pending = None => alertData = searches

\* What they rest on: besides, the loading flag says what the bar shows, also
\* in the background, and it is up while there has been no answer.
IndInv ==
    /\ TypeOK
    /\ ListMirrorsData
    /\ AnswerOrBar
    /\ LastArrives
    /\ screen = "results" /\ running =>
           ui.list = ~ui.bar /\ ui.bar = ui.searchLoading
    /\ screen # "results" => ui.shown = None
    /\ ui.shown # None => ~ui.searchLoading /\ alertData # None
    /\ alertData = None => ui.searchLoading
    /\ screen = "opening" => foreground
    /\ ~running => /\ ~foreground
                   /\ jobs = {} /\ pending = None /\ alertData = None
                   /\ searches = 0 /\ mishaps = {} /\ ui = NoView(TRUE)

\* The loading bar does not stay, unless the last search ends without an answer
\* or there was none: a screen that was restored shows it for good.
LoadingEnds ==
    resumed /\ ui.bar ~> ~(resumed /\ ui.bar) \/ "unanswered" \in mishaps \/ searches = 0

\* The comment of toggleLoading, "we don't want to show the loading indicator
\* unless we perform a new search": a new search does show it until answered.
NewSearchShowsBar == resumed /\ searches \in jobs => ui.bar
=============================================================================
