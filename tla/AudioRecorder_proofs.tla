----------------------- MODULE AudioRecorder_proofs -----------------------
(***************************************************************************)
(* What AudioRecorder guarantees for any number of recordings and of       *)
(* delegate calls that taps overtake, with or without interruptions and    *)
(* failing calls.                                                          *)
(***************************************************************************)
EXTENDS AudioRecorder, TLAPS

\* A tap is on a button that is enabled, with few delegate calls due.
LEMMA TapFacts ==
    ASSUME NEW b \in Button, Tap(b)
    PROVE  running /\ b \in buttons /\ finished <= MaxLate
BY DEF Tap

\* The session takes a category or keeps its own.
LEMMA CategoryFacts ==
    ASSUME NEW c \in {"playAndRecord", "playback"}, setCategory(c)
    PROVE  \/ category' = c /\ failed' = FALSE
           \/ category' = category /\ failed' = TRUE
BY DEF setCategory

\* A file just made holds no recording.
LEMMA EmptyFacts ==
    Empty \in [take : 0..MaxTakes, complete : BOOLEAN] /\ Empty.take = 0
BY AudioAssumption DEF Empty

\* The initial states.
LEMMA InitIndInv == Init => IndInv
<1> SUFFICES ASSUME Init PROVE IndInv
  OBVIOUS
<1>1. /\ file \in [take : 0..MaxTakes, complete : BOOLEAN] /\ takes \in 0..MaxTakes
      /\ finished \in 0..(MaxLate + 1)
  BY AudioAssumption, EmptyFacts DEF Init
<1>2. TypeOK
  BY <1>1 DEF Init, TypeOK
<1> QED
  BY <1>2 DEF Init, IndInv, NeverBoth, RunningCanBeStopped, ReadyToRecord,
              ReadyToPlay, Busy

\* Every step.
LEMMA NextIndInv == IndInv /\ [Next]_vars => IndInv'
<1> SUFFICES ASSUME IndInv, [Next]_vars PROVE IndInv'
  OBVIOUS
<1> USE AudioAssumption
        DEF IndInv, TypeOK, NeverBoth, RunningCanBeStopped, ReadyToRecord,
            ReadyToPlay, Busy
<1>1. CASE Launch
  <2>1. file' \in [take : 0..MaxTakes, complete : BOOLEAN]
        /\ (recorder' # "none" => file'.take <= takes')
    <3>1. takes' = takes /\ takes >= 0 /\ file \in [take : 0..MaxTakes, complete : BOOLEAN]
      BY <1>1 DEF Launch
    <3>2. CASE recorder' = "prepared" /\ file' = Empty
      BY <3>1, <3>2, EmptyFacts
    <3>3. CASE recorder' = "none" /\ file' = file
      BY <3>1, <3>3
    <3> QED
      BY <1>1, <3>2, <3>3 DEF Launch
  <2>2. recorder' \in {"none", "prepared"}
    BY <1>1 DEF Launch
  <2>3. \/ category' = "playAndRecord" /\ failed' = FALSE
        \/ category' = category /\ failed' = TRUE
    BY <1>1, CategoryFacts DEF Launch
  <2>4. /\ running' = TRUE /\ player' = "idle" /\ finished' = finished
        /\ late' = late /\ buttons' = buttons /\ takes' = 0 /\ takes = 0
    BY <1>1 DEF Launch
  <2>5. TypeOK'
    BY <2>1, <2>2, <2>3, <2>4
  <2> QED
    BY <2>2, <2>3, <2>4, <2>5
<1>2. CASE Kill
  <2>1. file' = file /\ takes' = 0 /\ recorder' = "none" /\ player' = "idle"
        /\ finished' = 0 /\ late' = FALSE /\ running' = FALSE /\ buttons' = Button
        /\ category' = "other" /\ failed' = FALSE
    BY <1>2 DEF Kill
  <2>2. file' \in [take : 0..MaxTakes, complete : BOOLEAN] /\ takes' \in 0..MaxTakes
        /\ buttons' \subseteq Button /\ finished' \in 0..(MaxLate + 1)
    BY <2>1
  <2>3. running' \in BOOLEAN /\ late' \in BOOLEAN /\ failed' \in BOOLEAN
    BY <2>1
  <2>4. /\ recorder' \in {"none", "prepared", "recording", "paused", "closed"}
        /\ player' \in {"idle", "playing", "paused"}
        /\ category' \in {"other", "playAndRecord", "playback"}
    BY <2>1
  <2>5. TypeOK'
    BY <2>1, <2>2, <2>3, <2>4
  <2> QED
    BY <2>1, <2>5
<1>3. CASE recordAudio
  <2>1. running /\ "record" \in buttons
    BY <1>3, TapFacts DEF recordAudio, Button
  <2>2. takes + 1 \in 0..MaxTakes /\ takes + 1 >= takes
    BY <1>3 DEF recordAudio, session
  <2>3. /\ takes' \in 0..MaxTakes
        /\ file' \in [take : 0..MaxTakes, complete : BOOLEAN]
        /\ file'.take <= takes'
    <3>1. CASE UNCHANGED <<takes, file>>
      BY <1>3, <3>1 DEF recordAudio, session
    <3>2. CASE takes' = takes + 1 /\ file' = [take |-> takes + 1, complete |-> FALSE]
      BY <2>2, <3>2
    <3> QED
      BY <1>3, <3>1, <3>2 DEF recordAudio, record
  <2>4. \/ recorder' = recorder /\ takes' = takes /\ file' = file
        \/ recorder' = "recording" /\ category = "playAndRecord"
    BY <1>3 DEF recordAudio, record
  <2>5. /\ UNCHANGED <<running, player, finished, category, failed>>
        /\ late' = (late /\ Busy')
        /\ buttons' = (buttons \ {"play"}) \cup {"stop"} /\ recorder \notin {"none", "recording"}
    BY <1>3 DEF recordAudio, session, Stays
  <2>6. TypeOK'
    BY <2>3, <2>4, <2>5 DEF Button
  <2> QED
    BY <2>1, <2>4, <2>5, <2>6
<1>4. CASE playAudio
  <2>1. running /\ "play" \in buttons /\ finished <= MaxLate
    BY <1>4, TapFacts DEF playAudio, session, Button
  <2> QED
    BY <1>4, <2>1, CategoryFacts DEF playAudio, session, Button, Stays
<1>5. CASE stopAudio
  <2>1. running /\ "stop" \in buttons
    BY <1>5, TapFacts DEF stopAudio, session, Button
  <2> QED
    BY <1>5, <2>1, CategoryFacts DEF stopAudio, session, Button, Stays
<1>6. CASE PlaybackEnds
  BY <1>6 DEF PlaybackEnds, session, Stays
<1>7. CASE audioPlayerDidFinishPlaying
  <2>1. /\ finished > 0 /\ finished' = finished - 1 /\ late' = Busy
        /\ buttons' = (buttons \cup {"record"}) \ {"stop"}
        /\ UNCHANGED <<running, recorder, player, takes, file>>
    BY <1>7 DEF audioPlayerDidFinishPlaying
  <2>2. \/ category' = "playAndRecord" /\ failed' = FALSE
        \/ category' = category /\ failed' = TRUE
    BY <1>7, CategoryFacts DEF audioPlayerDidFinishPlaying
  <2>3. finished' \in 0..(MaxLate + 1) /\ (finished <= MaxLate => finished' <= MaxLate)
    BY <2>1
  <2>4. TypeOK'
    BY <2>1, <2>2, <2>3 DEF Button
  <2>5. Busy' => late'
    BY <2>1
  <2> QED
    BY <2>1, <2>2, <2>3, <2>4, <2>5
<1>8. CASE Interrupt
  BY <1>8 DEF Interrupt, session, Stays
<1>9. CASE UNCHANGED vars
  BY <1>9 DEF vars
<1> QED
  BY <1>1, <1>2, <1>3, <1>4, <1>5, <1>6, <1>7, <1>8, <1>9 DEF Next

\* IndInv is an invariant.
LEMMA Invariance == Spec => []IndInv
<1>1. Init => IndInv
  BY InitIndInv
<1>2. IndInv /\ [Next]_vars => IndInv'
  BY NextIndInv
<1> QED
  BY <1>1, <1>2, PTL DEF Spec

\* Every variable keeps its type.
THEOREM TypeCorrect == Spec => []TypeOK
<1>1. IndInv => TypeOK
  BY DEF IndInv
<1> QED
  BY <1>1, Invariance, PTL

\* The screen never records what it plays, unless a delegate call has come too
\* late for what is going on.
THEOREM NeverBothHolds == Spec => []NeverBoth
<1>1. IndInv => NeverBoth
  BY DEF IndInv
<1> QED
  BY <1>1, Invariance, PTL

\* What is going on can be stopped, with the same exception.
THEOREM CanBeStopped == Spec => []RunningCanBeStopped
<1>1. IndInv => RunningCanBeStopped
  BY DEF IndInv
<1> QED
  BY <1>1, Invariance, PTL

\* With a recorder, an enabled Record button finds a category that records,
\* unless the session refused the last one it was asked for.
THEOREM RecordIsReady == Spec => []ReadyToRecord
<1>1. IndInv => ReadyToRecord
  BY DEF IndInv
<1> QED
  BY <1>1, Invariance, PTL

\* An enabled Play button plays a whole recording, or one left open by an
\* interruption is still there to go on with.
THEOREM PlayIsReady == Spec => []ReadyToPlay
<1>1. IndInv => ReadyToPlay
  BY DEF IndInv
<1> QED
  BY <1>1, Invariance, PTL

\* With a recorder, an enabled button finds what it needs, with the exceptions
\* of the two.
THEOREM ButtonsCorrect == Spec => []ButtonsAreRight
BY RecordIsReady, PlayIsReady, PTL DEF ButtonsAreRight
=============================================================================
