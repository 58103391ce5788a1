----------------------- MODULE CampsiteSearch_proofs -----------------------
(***************************************************************************)
(* The safety of the search for every set of states and every way an       *)
(* answer may fail.                                                        *)
(***************************************************************************)
EXTENDS CampsiteSearch, TLAPS

\* An end of the process establishes the initial invariant.
LEMMA ExitIndInv == Exit => IndInv'
<1> SUFFICES ASSUME Exit PROVE IndInv'
  OBVIOUS
<1> USE CampsiteAssumption DEF Exit
<1>1. << >> \in Seq(Answer) /\ Len(<< >>) = 0
  OBVIOUS
<1>2. TypeOK'
  <2>1. mainQueue' \in Seq(Answer)
    BY <1>1
  <2>2. First \in States /\ 0 \in 0..MaxSearches
        /\ {} \subseteq Search /\ {} \subseteq Mishap
    OBVIOUS
  <2>3. QED  BY <2>1, <2>2, Zenon DEF TypeOK
<1>3. NoSites.n = 0
  BY DEF NoSites
<1>4. QED
  BY <1>1, <1>2, <1>3
  DEF IndInv, AtMostOneFetch, ResultsAreFresh, TitleMatchesResults

LEMMA InitIndInv == Init => IndInv
<1> SUFFICES ASSUME Init PROVE IndInv
  OBVIOUS
<1> USE CampsiteAssumption DEF Init
<1>1. << >> \in Seq(Answer) /\ Len(<< >>) = 0
  OBVIOUS
<1>2. TypeOK
  <2>1. mainQueue \in Seq(Answer)
    BY <1>1
  <2>2. First \in States /\ 0 \in 0..MaxSearches
        /\ {} \subseteq Search /\ {} \subseteq Mishap
    OBVIOUS
  <2>3. QED  BY <2>1, <2>2, Zenon DEF TypeOK
<1>3. NoSites.n = 0
  BY DEF NoSites
<1>4. QED
  BY <1>1, <1>2, <1>3
  DEF IndInv, AtMostOneFetch, ResultsAreFresh, TitleMatchesResults

\* With at most one block, running it empties the queue.
LEMMA OneBlock ==
    ASSUME mainQueue \in Seq(Answer), Len(mainQueue) <= 1, mainQueue # << >>
    PROVE  Tail(mainQueue) = << >> /\ Head(mainQueue) \in Answer
OBVIOUS

LEMMA NextIndInv == IndInv /\ [Next]_vars => IndInv'
<1> SUFFICES ASSUME IndInv, [Next]_vars PROVE IndInv'
  OBVIOUS
<1> USE CampsiteAssumption
    DEF IndInv, AtMostOneFetch, ResultsAreFresh, TitleMatchesResults
<1>1. CASE Kill \/ unwrapMissingData
  BY <1>1, ExitIndInv DEF Kill, unwrapMissingData
<1>2. CASE Relaunch
  BY <1>2 DEF Relaunch, TypeOK
<1>3. ASSUME NEW s \in States, FlickPicker(s) PROVE IndInv'
  BY <1>3 DEF FlickPicker, touchable, TypeOK
<1>4. CASE didSelectRow
  BY <1>4 DEF didSelectRow, TypeOK, Mishap
<1>5. CASE searchCampsites
  <2>1. inFlight = {} /\ mainQueue = << >>
    BY <1>5 DEF searchCampsites, touchable
  <2>2. [state |-> selectedState, n |-> searches + 1] \in Search
    BY <1>5 DEF searchCampsites, TypeOK, Search
  <2>3. TypeOK'
    BY <1>5, <2>2 DEF searchCampsites, TypeOK
  <2>4. current.n <= searches + 1
    BY DEF TypeOK, Search, NoSites
  <2>5. QED  BY <1>5, <2>1, <2>3, <2>4 DEF searchCampsites, touchable
<1>6. ASSUME NEW r \in inFlight, CompleteOffline(r) PROVE IndInv'
  BY <1>6, ExitIndInv DEF CompleteOffline
<1>7. ASSUME NEW r \in inFlight, CompleteStatus(r) PROVE IndInv'
  BY <1>7 DEF CompleteStatus, TypeOK, Mishap
<1>8. ASSUME NEW r \in inFlight, NEW kind \in {"ok", "undecodable", "cut"},
             CompleteDownload(r, kind)
      PROVE  IndInv'
  <2> DEFINE a == [search |-> r, kind |-> kind]
  <2>1. mainQueue = << >> /\ inFlight' = {} /\ alert
    BY <1>8 DEF CompleteDownload
  <2>2. a \in Answer
    BY DEF TypeOK, Answer
  <2>3. mainQueue' = <<a>>
    BY <1>8, <2>1 DEF CompleteDownload
  <2>4. /\ mainQueue' \in Seq(Answer) /\ Len(mainQueue') = 1
        /\ Head(mainQueue') = a /\ mainQueue' # << >>
    BY <2>2, <2>3
  <2>5. TypeOK'
    BY <1>8, <2>1, <2>4 DEF CompleteDownload, TypeOK
  <2>6. a.search = r
    OBVIOUS
  <2>7. QED  BY <1>8, <2>1, <2>4, <2>5, <2>6 DEF CompleteDownload
<1>9. CASE parseJson
  <2> DEFINE a == Head(mainQueue)
  <2>1. mainQueue # << >> /\ mainQueue' = << >> /\ a \in Answer /\ inFlight = {}
    BY <1>9, OneBlock DEF parseJson, TypeOK
  <2>2. a.search \in Search /\ a.kind \in {"ok", "undecodable"}
    BY <1>9, <2>1 DEF parseJson, Answer
  <2>3. a.search.n = searches
    BY <2>1
  <2>4. current' = IF a.kind = "ok" THEN a.search ELSE current
    BY <1>9 DEF parseJson, decoded
  <2>5. mishaps' = mishaps \cup ({a.kind} \ {"ok"})
    BY <1>9 DEF parseJson
  <2>6. TypeOK'
    <3>1. << >> \in Seq(Answer)
      OBVIOUS
    <3>2. current' \in Search \cup {NoSites}
      BY <2>2, <2>4 DEF TypeOK
    <3>3. mishaps' \subseteq Mishap
      BY <2>2, <2>5 DEF TypeOK, Mishap
    <3>4. QED  BY <1>9, <2>1, <3>1, <3>2, <3>3 DEF parseJson, TypeOK
  <2>7. current'.n <= searches
    BY <2>3, <2>4, <2>6 DEF TypeOK
  <2>8. "undecodable" \notin mishaps' => current' = a.search
    BY <2>2, <2>4, <2>5
  <2>9. "spun" \notin mishaps' => a.search.state = selectedState
    BY <2>1, <2>5
  <2>10. QED  BY <1>9, <2>1, <2>3, <2>6, <2>7, <2>8, <2>9 DEF parseJson
<1>10. CASE ShowDetail
  BY <1>10 DEF ShowDetail, TypeOK
<1>11. CASE Back
  BY <1>11 DEF Back, TypeOK
<1>12. CASE UNCHANGED vars
  BY <1>12 DEF vars, TypeOK
<1>13. QED
  BY <1>1, <1>2, <1>3, <1>4, <1>5, <1>6, <1>7, <1>8, <1>9, <1>10, <1>11, <1>12
  DEF Next, Complete, mainBlock

LEMMA Invariance == Spec => []IndInv
BY InitIndInv, NextIndInv, PTL DEF Spec

\* Every variable keeps its type.
THEOREM TypeCorrect == Spec => []TypeOK
BY Invariance, PTL DEF IndInv

\* The alert alone keeps a second request from being made.
THEOREM AtMostOneFetchHolds == Spec => []AtMostOneFetch
BY Invariance, PTL DEF IndInv

\* Unless its answer did not decode, a search is shown by the results screen
\* that it opens.
THEOREM Freshness == Spec => []ResultsAreFresh
BY Invariance, PTL DEF IndInv

\* If moreover the picker was at rest during the fetch, the title is right.
THEOREM TitleCorrect == Spec => []TitleMatchesResults
BY Invariance, PTL DEF IndInv

\* However answers fail, a results screen is never older than the one before.
THEOREM NeverOlderHolds == Spec => NeverOlder
<1>1. ASSUME IndInv, [Next]_vars
      PROVE  [screen = "search" /\ screen' = "results" => results'.n >= results.n]_vars
  <2> SUFFICES ASSUME Next, screen = "search", screen' = "results"
               PROVE  results'.n >= results.n
    BY <1>1
  <2>1. parseJson
    BY DEF Next, Kill, Exit, Relaunch, FlickPicker, didSelectRow, searchCampsites,
           Complete, CompleteOffline, CompleteStatus, CompleteDownload, mainBlock,
           unwrapMissingData, ShowDetail, Back
  <2>2. Head(mainQueue).search.n = searches
    BY <1>1, <2>1 DEF IndInv, parseJson
  <2>3. results' = Head(mainQueue).search \/ results' = results
    BY <1>1, <2>1 DEF IndInv, parseJson, decoded
  <2>4. results.n <= searches /\ results.n \in Nat /\ searches \in Nat
    BY <1>1 DEF IndInv, TypeOK, Search, NoSites
  <2>5. QED  BY <2>2, <2>3, <2>4
<1>2. QED  BY <1>1, Invariance, PTL DEF Spec, NeverOlder

=============================================================================
