--------------------------- MODULE CampsiteSearch ---------------------------
(***************************************************************************)
(* The search of inclass/campsites and, with alerts for campsites, of      *)
(* labs/lab4: a picker of states, a request on a background queue, a modal *)
(* alert while it is on its way, parsing on the main queue, and a results  *)
(* screen.  A list of campsites is identified by the search it answers.    *)
(***************************************************************************)
EXTENDS Naturals, Sequences

CONSTANTS
    States,         \* stateOptions
    First,          \* stateOptions[0]
    Outcomes,       \* how a request may end, see Outcome
    WheelSpins,     \* may a flicked picker still be turning when Search is hit?
    MaxSearches     \* bound on the searches of one process

(* "ok"          status 200 and a body that decodes                        *)
(* "undecodable" status 200 and a body that does not                       *)
(* "cut"         status 200, but the connection is lost before the body:   *)
(*               the completion handler gets no data                       *)
(* "status"      any other status                                          *)
(* "offline"     no response at all                                        *)
Outcome == {"ok", "undecodable", "cut", "status", "offline"}

ASSUME CampsiteAssumption ==
    /\ First \in States
    /\ Outcomes \subseteq Outcome
    /\ WheelSpins \in BOOLEAN
    /\ MaxSearches \in Nat

VARIABLES
    running,        \* is the process alive?
    wheel,          \* the row the picker shows or turns to
    selectedState,  \* set by didSelectRow, when the picker has come to rest
    searches,       \* searches so far
    inFlight,       \* data tasks that have not completed
    mainQueue,      \* blocks dispatched to the main queue by the data tasks
    alert,          \* is the modal alert on screen?
    current,        \* currentCampsites of the data controller
    screen,         \* "search", "results" or "detail"
    title,          \* title of the results screen
    results,        \* its list
    mishaps         \* history: what has gone wrong with the latest search

vars == <<running, wheel, selectedState, searches, inFlight, mainQueue, alert,
          current, screen, title, results, mishaps>>

Mishap  == {"undecodable", "status", "spun"}
Search  == [state : States, n : 1..MaxSearches]
NoSites == [state |-> First, n |-> 0]       \* the empty list of the start
Answer  == [search : Search, kind : {"ok", "undecodable", "cut"}]

Init ==
    /\ running = TRUE
    /\ wheel = First
    /\ selectedState = First
    /\ searches = 0
    /\ inFlight = {}
    /\ mainQueue = << >>
    /\ alert = FALSE
    /\ current = NoSites
    /\ screen = "search"
    /\ title = First
    /\ results = NoSites
    /\ mishaps = {}

\* The end of the process: nothing is persisted.
Exit ==
    /\ running' = FALSE
    /\ wheel' = First
    /\ selectedState' = First
    /\ searches' = 0
    /\ inFlight' = {}
    /\ mainQueue' = << >>
    /\ alert' = FALSE
    /\ current' = NoSites
    /\ screen' = "search"
    /\ title' = First
    /\ results' = NoSites
    /\ mishaps' = {}

\* The user or the system ends the app.
Kill == running /\ Exit

\* ViewController.viewDidLoad of a new process.
Relaunch ==
    /\ ~running
    /\ running' = TRUE
    /\ UNCHANGED <<wheel, selectedState, searches, inFlight, mainQueue, alert,
                   current, screen, title, results, mishaps>>

-----------------------------------------------------------------------------
(* The search screen.                                                      *)

\* Mutant: the alert does not cover the search screen.
touchableMutant == running /\ screen = "search"

\* The modal alert lets no touch through to the picker and the button.
touchable == running /\ screen = "search" /\ ~alert

FlickPicker(s) ==
    /\ touchable
    /\ wheel' = s
    /\ selectedState' = IF WheelSpins THEN selectedState ELSE s
    /\ UNCHANGED <<running, searches, inFlight, mainQueue, alert, current,
                   screen, title, results, mishaps>>

\* pickerView(_:didSelectRow:inComponent:), once the wheel has come to rest,
\* whatever is on screen by then.
didSelectRow ==
    /\ running /\ wheel # selectedState
    /\ selectedState' = wheel
    /\ mishaps' = IF alert THEN mishaps \cup {"spun"} ELSE mishaps
    /\ UNCHANGED <<running, wheel, searches, inFlight, mainQueue, alert,
                   current, screen, title, results>>

\* searchCampsites starts the request and presents the alert.
searchCampsites ==
    /\ touchable
    /\ searches < MaxSearches
    /\ searches' = searches + 1
    /\ inFlight' = inFlight \cup {[state |-> selectedState, n |-> searches + 1]}
    /\ alert' = TRUE
    /\ mishaps' = {}
    /\ UNCHANGED <<running, wheel, selectedState, mainQueue, current, screen,
                   title, results>>

-----------------------------------------------------------------------------
(* The completion handler, on a queue of the URL session.                  *)

\* Without a response the forced cast to HTTPURLResponse fails.
CompleteOffline(r) ==
    /\ "offline" \in Outcomes
    /\ r \in inFlight
    /\ Exit

\* The guard on the status returns, telling nobody.
CompleteStatus(r) ==
    /\ "status" \in Outcomes
    /\ r \in inFlight
    /\ inFlight' = inFlight \ {r}
    /\ mishaps' = mishaps \cup {"status"}
    /\ UNCHANGED <<running, wheel, selectedState, searches, mainQueue, alert,
                   current, screen, title, results>>

\* Mutant: the answer is parsed only if it arrives first.
CompleteDownloadMutant(r, kind) ==
    /\ kind \in Outcomes
    /\ r \in inFlight
    /\ inFlight' = inFlight \ {r}
    /\ mainQueue' = IF r.n = 1 THEN Append(mainQueue, [search |-> r, kind |-> kind])
                               ELSE mainQueue
    /\ UNCHANGED <<running, wheel, selectedState, searches, alert, current,
                   screen, title, results, mishaps>>

CompleteDownload(r, kind) ==
    /\ kind \in Outcomes
    /\ r \in inFlight
    /\ inFlight' = inFlight \ {r}
    /\ mainQueue' = Append(mainQueue, [search |-> r, kind |-> kind])
    /\ UNCHANGED <<running, wheel, selectedState, searches, alert, current,
                   screen, title, results, mishaps>>

Complete(r) ==
    \/ CompleteOffline(r)
    \/ CompleteStatus(r)
    \/ \E kind \in {"ok", "undecodable", "cut"} : CompleteDownload(r, kind)

-----------------------------------------------------------------------------
(* The main queue.                                                         *)

\* Mutants: an error has cleared the old list; the first list is never replaced;
\* the raw answer is stored.
decodedMutant(answer)  == IF answer.kind = "ok" THEN answer.search ELSE NoSites
decodedMutant2(answer) == IF current = NoSites THEN answer.search ELSE current
decodedMutant3(answer) == answer

\* What parseJson leaves in currentCampsites: the error is only printed.
decoded(answer) == IF answer.kind = "ok" THEN answer.search ELSE current

\* Mutant: the list is handed on before it is replaced.
parseJsonMutant ==
    /\ mainQueue # << >> /\ Head(mainQueue).kind # "cut"
    /\ current' = decoded(Head(mainQueue))
    /\ mainQueue' = Tail(mainQueue)
    /\ alert' = FALSE
    /\ screen' = "results"
    /\ title' = selectedState
    /\ results' = current
    /\ mishaps' = mishaps \cup ({Head(mainQueue).kind} \ {"ok"})
    /\ UNCHANGED <<running, wheel, selectedState, searches, inFlight>>

\* parseJson and what it calls: onDataUpdate is searchDone, which dismisses
\* the alert and performs the segue, whose prepare(for:) fills the results.
parseJson ==
    /\ mainQueue # << >> /\ Head(mainQueue).kind # "cut"
    /\ current' = decoded(Head(mainQueue))
    /\ mainQueue' = Tail(mainQueue)
    /\ alert' = FALSE
    /\ screen' = "results"
    /\ title' = selectedState
    /\ results' = current'
    /\ mishaps' = mishaps \cup ({Head(mainQueue).kind} \ {"ok"})
    /\ UNCHANGED <<running, wheel, selectedState, searches, inFlight>>

\* The forced unwrap of the missing data, in the dispatched block.
unwrapMissingData ==
    /\ mainQueue # << >> /\ Head(mainQueue).kind = "cut"
    /\ Exit

mainBlock == parseJson \/ unwrapMissingData

-----------------------------------------------------------------------------
(* Results and detail; the detail screen copies the fields of one row.     *)

ShowDetail ==
    /\ screen = "results" /\ results # NoSites
    /\ screen' = "detail"
    /\ UNCHANGED <<running, wheel, selectedState, searches, inFlight, mainQueue,
                   alert, current, title, results, mishaps>>

Back ==
    /\ screen # "search"
    /\ screen' = IF screen = "detail" THEN "results" ELSE "search"
    /\ UNCHANGED <<running, wheel, selectedState, searches, inFlight, mainQueue,
                   alert, current, title, results, mishaps>>

Next ==
    \/ Kill \/ Relaunch
    \/ \E s \in States : FlickPicker(s)
    \/ didSelectRow
    \/ searchCampsites
    \/ \E r \in inFlight : Complete(r)
    \/ mainBlock
    \/ ShowDetail \/ Back

\* A data task completes, at the latest when it times out; the main queue runs
\* its blocks.  The user need not do anything.
Fairness ==
    /\ WF_vars(\E r \in inFlight : Complete(r))
    /\ WF_vars(mainBlock)

Spec == Init /\ [][Next]_vars /\ Fairness

-----------------------------------------------------------------------------
(* Properties.                                                             *)

\* Every variable has its type.
TypeOK ==
    /\ running \in BOOLEAN
    /\ wheel \in States
    /\ selectedState \in States
    /\ searches \in 0..MaxSearches
    /\ inFlight \subseteq Search
    /\ mainQueue \in Seq(Answer)
    /\ alert \in BOOLEAN
    /\ current \in Search \cup {NoSites}
    /\ screen \in {"search", "results", "detail"}
    /\ title \in States
    /\ results \in Search \cup {NoSites}
    /\ mishaps \subseteq Mishap

\* At most one search is between the button and the results screen, over both
\* queues, and the alert covers it all the way: nothing in the code cancels or
\* orders requests, only the alert keeps a second one from being made.
AtMostOneFetch ==
    /\ \A r, s \in inFlight : r = s
    /\ Len(mainQueue) <= 1
    /\ mainQueue # << >> => inFlight = {}
    /\ inFlight # {} \/ mainQueue # << >> => alert

\* A results screen that opens shows the answer to the search that opened it,
\* not that of an earlier one, unless the answer did not decode.
ResultsAreFresh ==
    screen # "search" /\ "undecodable" \notin mishaps => results.n = searches

\* The state in its title is the state that was searched, unless the answer did
\* not decode or the picker came to rest during the fetch; a picker that comes
\* to rest later changes nothing.
TitleMatchesResults ==
    screen # "search" /\ mishaps = {} => title = results.state

\* The invariant behind them.
IndInv ==
    /\ TypeOK
    /\ AtMostOneFetch
    /\ alert => screen = "search"
    /\ results = current /\ current.n <= searches
    /\ \A r \in inFlight :
           r.n = searches /\ ("spun" \notin mishaps => r.state = selectedState)
    /\ mainQueue # << >> =>
           /\ Head(mainQueue).search.n = searches
           /\ "spun" \notin mishaps => Head(mainQueue).search.state = selectedState
    /\ ResultsAreFresh
    /\ TitleMatchesResults

\* Whatever answers fail to arrive or to decode, a results screen never shows
\* an older list than the results screen before it.
NeverOlder == [][screen = "search" /\ screen' = "results" => results'.n >= results.n]_vars

\* A search ends with a results screen or the end of the process, unless the
\* server answered with a status other than 200.
SearchEnds == alert ~> ~alert \/ "status" \in mishaps
=============================================================================
