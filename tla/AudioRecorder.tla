--------------------------- MODULE AudioRecorder ---------------------------
(***************************************************************************)
(* The recorder screen of inclass/music and labs/lab1: one recorder and    *)
(* one player on one file, the category of the shared audio session, and   *)
(* three buttons that the handlers enable and disable.  Handlers and the   *)
(* player's delegate run on the main thread; recorder and player go on     *)
(* without it, and the system may pause either (a call, Siri, another app).*)
(***************************************************************************)
EXTENDS Naturals

CONSTANTS
    Interrupts,     \* may the system interrupt the session?
    Failures,       \* may the calls that can throw do so?
    MaxLate,        \* bound on the delegate calls that taps may overtake
    MaxTakes        \* bound on the recordings of one process

ASSUME AudioAssumption ==
    /\ Interrupts \in BOOLEAN
    /\ Failures \in BOOLEAN
    /\ MaxLate \in Nat
    /\ MaxTakes \in Nat

VARIABLES
    running,    \* is the process alive?
    recorder,   \* "none", "prepared", "recording", "paused" or "closed"
    player,     \* "idle", "playing" or "paused"
    finished,   \* calls of audioPlayerDidFinishPlaying that are due
    category,   \* of the audio session
    failed,     \* history: did the last setCategory throw?
    late,       \* history: was a delegate call handled while what was started
                \* after the end it tells of was going on, and still is?
    buttons,    \* which of the three are enabled
    takes,      \* recordings begun by this process
    file        \* audio.m4a: the recording in it, and whether it is complete

vars == <<running, recorder, player, finished, late, category, failed,
          buttons, takes, file>>

Button == {"record", "play", "stop"}
Empty  == [take |-> 0, complete |-> FALSE]

\* The session takes the category c, or the call throws and it keeps the old one.
setCategory(c) ==
    \/ category' = c /\ failed' = FALSE
    \/ Failures /\ failed' = TRUE /\ UNCHANGED category
session == <<category, failed>>

Busy  == recorder = "recording" \/ player = "playing"
Stays == late' = (late /\ Busy')

Init ==
    /\ running = FALSE
    /\ recorder = "none"
    /\ player = "idle"
    /\ finished = 0
    /\ late = FALSE
    /\ category = "other"
    /\ failed = FALSE
    /\ buttons = Button
    /\ takes = 0
    /\ file = Empty

\* Mutant: the file of the last process is kept.
LaunchMutant ==
    /\ ~running
    /\ running' = TRUE
    /\ setCategory("playAndRecord")
    /\ \/ recorder' = "prepared"
       \/ Failures /\ recorder' = "none"
    /\ UNCHANGED <<player, finished, late, buttons, takes, file>>

\* viewDidLoad: prepareToRecord creates the file anew, if there is a recorder.
Launch ==
    /\ ~running
    /\ running' = TRUE
    /\ setCategory("playAndRecord")
    /\ \/ recorder' = "prepared" /\ file' = Empty
       \/ Failures /\ recorder' = "none" /\ UNCHANGED file
    /\ UNCHANGED <<player, finished, late, buttons, takes>>

\* The end of the process; the file stays.
Kill ==
    /\ running
    /\ running' = FALSE
    /\ recorder' = "none"
    /\ player' = "idle"
    /\ finished' = 0
    /\ late' = FALSE
    /\ category' = "other"
    /\ failed' = FALSE
    /\ buttons' = Button
    /\ takes' = 0
    /\ UNCHANGED file

-----------------------------------------------------------------------------
(* The three buttons.                                                      *)

Tap(b) == running /\ b \in buttons /\ finished <= MaxLate

\* record(), whose result nobody looks at: a paused recording goes on, else a
\* new one begins; the session must be of a category that records.
record ==
    IF category # "playAndRecord" THEN UNCHANGED <<recorder, takes, file>>
    ELSE /\ recorder' = "recording"
         /\ IF recorder = "paused" THEN UNCHANGED <<takes, file>>
            ELSE /\ takes' = takes + 1
                 /\ file' = [take |-> takes + 1, complete |-> FALSE]

\* Mutant: Stop stays disabled.
recordAudioMutant ==
    /\ Tap("record")
    /\ recorder \notin {"none", "recording"}
    /\ takes < MaxTakes
    /\ buttons' = buttons \ {"play"}
    /\ record
    /\ UNCHANGED <<running, player, finished, session>>
    /\ Stays

\* Without a recorder, or while it records, the handler does nothing.
recordAudio ==
    /\ Tap("record")
    /\ recorder \notin {"none", "recording"}
    /\ takes < MaxTakes
    /\ buttons' = (buttons \ {"play"}) \cup {"stop"}
    /\ record
    /\ UNCHANGED <<running, player, finished, session>>
    /\ Stays

\* The player is made from the file, which must be complete; the session
\* changes its category; the player starts.  What throws leaves out the rest.
playAudio ==
    /\ Tap("play")
    /\ recorder \notin {"none", "recording"}
    /\ buttons' = (buttons \ {"record"}) \cup {"stop"}
    /\ IF file.complete
       THEN /\ setCategory("playback")
            /\ player' = IF failed' THEN "idle" ELSE "playing"
       ELSE UNCHANGED <<player, session>>
    /\ UNCHANGED <<running, recorder, finished, takes, file>>
    /\ Stays

\* Mutant: the player is not told to stop.
stopAudioMutant ==
    /\ Tap("stop")
    /\ buttons' = {"record", "play"}
    /\ IF recorder = "recording"
       THEN /\ recorder' = "closed"
            /\ file' = [file EXCEPT !.complete = TRUE]
            /\ UNCHANGED session
       ELSE /\ setCategory("playAndRecord")
            /\ UNCHANGED <<recorder, file>>
    /\ UNCHANGED <<running, player, finished, takes>>
    /\ Stays

\* A recorder that is recording is stopped, which completes the file; in any
\* other case it is the player, and the session returns to recording.
stopAudio ==
    /\ Tap("stop")
    /\ buttons' = {"record", "play"}
    /\ IF recorder = "recording"
       THEN /\ recorder' = "closed"
            /\ file' = [file EXCEPT !.complete = TRUE]
            /\ UNCHANGED <<player, session>>
       ELSE /\ player' = "idle"
            /\ setCategory("playAndRecord")
            /\ UNCHANGED <<recorder, file>>
    /\ UNCHANGED <<running, finished, takes>>
    /\ Stays

-----------------------------------------------------------------------------
(* What comes from outside.                                                *)

\* The player reaches the end; its delegate is called on the main thread.
PlaybackEnds ==
    /\ player = "playing"
    /\ player' = "idle"
    /\ finished' = finished + 1
    /\ UNCHANGED <<running, recorder, session, buttons, takes, file>>
    /\ Stays

\* Mutants: the category stays; Record stays disabled.
audioPlayerDidFinishPlayingMutant ==
    /\ finished > 0
    /\ finished' = finished - 1
    /\ late' = Busy
    /\ buttons' = (buttons \cup {"record"}) \ {"stop"}
    /\ UNCHANGED <<running, recorder, player, session, takes, file>>
audioPlayerDidFinishPlayingMutant2 ==
    /\ finished > 0
    /\ finished' = finished - 1
    /\ late' = Busy
    /\ buttons' = buttons \ {"stop"}
    /\ setCategory("playAndRecord")
    /\ UNCHANGED <<running, recorder, player, takes, file>>

audioPlayerDidFinishPlaying ==
    /\ finished > 0
    /\ finished' = finished - 1
    /\ late' = Busy
    /\ buttons' = (buttons \cup {"record"}) \ {"stop"}
    /\ setCategory("playAndRecord")
    /\ UNCHANGED <<running, recorder, player, takes, file>>

\* The session is interrupted; nothing in the code listens to that.
Interrupt ==
    /\ Interrupts
    /\ Busy
    /\ recorder' = IF recorder = "recording" THEN "paused" ELSE recorder
    /\ player' = IF player = "playing" THEN "paused" ELSE player
    /\ UNCHANGED <<running, finished, session, buttons, takes, file>>
    /\ Stays

Next ==
    \/ Launch \/ Kill
    \/ recordAudio \/ playAudio \/ stopAudio
    \/ PlaybackEnds \/ audioPlayerDidFinishPlaying
    \/ Interrupt

\* A recording that plays has an end, and the main thread serves its callers.
Fairness ==
    /\ WF_vars(PlaybackEnds)
    /\ WF_vars(audioPlayerDidFinishPlaying)

Spec == Init /\ [][Next]_vars /\ Fairness

-----------------------------------------------------------------------------
(* Properties.                                                             *)

\* Every variable has its type; with a recorder, the file holds at most one of
\* the recordings of this process.
TypeOK ==
    /\ running \in BOOLEAN
    /\ recorder \in {"none", "prepared", "recording", "paused", "closed"}
    /\ player \in {"idle", "playing", "paused"}
    /\ finished \in 0..(MaxLate + 1)
    /\ late \in BOOLEAN
    /\ category \in {"other", "playAndRecord", "playback"}
    /\ failed \in BOOLEAN
    /\ buttons \subseteq Button
    /\ takes \in 0..MaxTakes
    /\ file \in [take : 0..MaxTakes, complete : BOOLEAN]
    /\ recorder # "none" => file.take <= takes

(* A delegate call is about the player that has ended, but the handler     *)
(* takes it to be about what is going on.  When taps have overtaken the    *)
(* call, and something else was begun, nothing is promised of that (late). *)

\* The screen never records what it plays, whatever is tapped, interrupted or
\* refused: recorder and player share one file.
NeverBoth == recorder = "recording" /\ player = "playing" => late

\* What is going on can be stopped: the buttons follow the two devices through
\* taps, delegate calls, interruptions and errors.
RunningCanBeStopped == Busy => "stop" \in buttons \/ late

\* An enabled Record button records, if there is a recorder: by whatever way
\* playing has ended, the session is back in a category that records, unless
\* it refused the last one it was asked for.
ReadyToRecord ==
    recorder # "none" /\ "record" \in buttons => category = "playAndRecord" \/ failed

\* An enabled Play button plays the whole of the last recording, if there has
\* been one, unless an interruption has left it open.
ReadyToPlay ==
    "play" \in buttons /\ takes > 0 => file.complete \/ recorder = "paused"

\* With a recorder, an enabled button finds what it needs to do what it says.
\* Left out by name is the screen whose recorder could not be made (the init
\* of AVAudioRecorder threw): Record and Play are enabled there too, Record
\* only prints "No recorder!" and Play does nothing.  So is Play before the
\* first recording, which finds an empty file.
ButtonsAreRight == ReadyToRecord /\ ReadyToPlay

\* The invariant behind them.
IndInv ==
    /\ TypeOK
    /\ NeverBoth /\ RunningCanBeStopped /\ ReadyToRecord /\ ReadyToPlay
    /\ ~running => recorder = "none" /\ player = "idle" /\ finished = 0 /\ takes = 0
    /\ takes > 0 => file.complete \/ recorder \in {"recording", "paused"}
    /\ recorder = "recording" => "play" \notin buttons /\ category = "playAndRecord"
    /\ player = "playing" =>
        /\ finished <= MaxLate
        /\ ~late => category = "playback" /\ "record" \notin buttons

\* After playing, Record comes back without a tap, unless the system pauses the
\* player or refuses a second Play.
RecordComesBack ==
    player = "playing" ~> "record" \in buttons \/ player = "paused" \/ failed

\* The comment of stopAudio, "stop recording or playing based on what's
\* happening": once Stop has been used, no recording is left open.
StoppedMeansClosed == recorder \in {"recording", "paused"} => "stop" \in buttons
=============================================================================
