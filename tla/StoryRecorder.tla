---------------------------- MODULE StoryRecorder ----------------------------
(***************************************************************************)
(* The recording screen: CreateAudioVC and the handlers of its extension.  *)
(* A long press starts a take, lifting the finger or the 21st tick of a    *)
(* one-second timer ends it, the finished take can be played back and      *)
(* sent.  Everything runs on the main thread, so one handler is one step;  *)
(* what interleaves is the order in which UIKit, the run loop's timer and  *)
(* AVFoundation call the handlers.                                         *)
(*                                                                         *)
(* A take is a number, in the order the takes are named; 0 stands for nil. *)
(* `_fileName' and `_filePath' are assigned together and cleared together  *)
(* and are the one variable take.                                          *)
(***************************************************************************)
EXTENDS Naturals, FiniteSets

CONSTANTS
    MaxTake   \* bound on the takes named while the screen lives

ASSUME RecorderAssumption == MaxTake \in Nat \ {0}

VARIABLES
    recorder,   \* _audioRecorder: the take it records, 0 when nil
    take,       \* _fileName and _filePath: the current take, 0 when nil
    named,      \* how many takes getFileURL has named so far
    timer,      \* _timer: the timer it refers to, named after its take
    live,       \* the timers scheduled on the run loop
    counter,    \* _counter
    enabled,    \* playStopBtn and doneBtn, enabled and disabled together
    player,     \* _audioPlayer: the take it holds, 0 when nil
    playing,    \* _audioPlaying
    sounding,   \* whether the player is producing sound
    finger,     \* on recordBtn: "up", "down", or "held" (gesture recognized)
    screen,     \* "open", "prompt" (the description alert), "error", "left"
    fromHome,   \* sentFromHomePage: a new story, or a reply to one
    sent,       \* the takes given to sendStoryToDatabase
    ended,      \* the takes stopAnimationAndRecording has ended
    closed      \* the takes whose recorder was told to stop()

recVars  == <<recorder, take, named, ended, closed>>
timeVars == <<timer, live, counter>>
playVars == <<player, playing, sounding>>
uiVars   == <<enabled, finger, screen, fromHome, sent>>
vars     == <<recVars, timeVars, playVars, uiVars>>

Takes     == 1..MaxTake
TimeLimit == 21

Init ==
    /\ recorder = 0 /\ take = 0 /\ named = 0 /\ ended = {} /\ closed = {}
    /\ timer = 0 /\ live = {} /\ counter = 0
    /\ player = 0 /\ playing = FALSE /\ sounding = FALSE
    /\ enabled = FALSE /\ finger = "up" /\ screen = "open" /\ sent = {}
    /\ fromHome \in BOOLEAN

-----------------------------------------------------------------------------
(* Seeded faults, each a slip in the operator it is named for: the timer is *)
(* not invalidated, the buttons are left enabled, the timer of a cancelled   *)
(* gesture is stopped without its recorder.                                  *)

StopAnimationAndRecording_KeepsTimer ==
    /\ closed' = IF player # 0 THEN closed \cup {recorder} ELSE closed
    /\ ended' = ended \cup {recorder}
    /\ recorder' = 0
    /\ counter' = 0
    /\ enabled' = TRUE
    /\ UNCHANGED <<take, named, timer, live>>

SetupFails_KeepsButtons ==
    /\ finger = "down" /\ recorder = 0
    /\ finger' = "up"
    /\ take' = 0
    /\ screen' = IF screen = "open" THEN "error" ELSE screen
    /\ UNCHANGED <<recorder, named, ended, closed, timeVars, playVars, enabled, fromHome, sent>>

LongPressCancelled_StopsTimer ==
    /\ finger = "held"
    /\ finger' = "up"
    /\ live' = live \ {timer}
    /\ UNCHANGED <<recVars, timer, counter, playVars, enabled, screen, fromHome, sent>>

-----------------------------------------------------------------------------
(* Recording *)

\* stopAnimationAndRecording: the recorder is told to stop only when a
\* player exists (the code tests _audioPlayer, not _audioRecorder), and is
\* dropped in any case.
StopAnimationAndRecording ==
    /\ closed' = IF player # 0 THEN closed \cup {recorder} ELSE closed
    /\ ended' = ended \cup {recorder}
    /\ recorder' = 0
    /\ live' = live \ {timer}
    /\ counter' = 0
    /\ enabled' = TRUE
    /\ UNCHANGED <<take, named, timer>>

\* A finger goes down on recordBtn; half a second later it is a long press.
\* An alert shown in between does not take the touch away from the button.
FingerDown ==
    /\ finger = "up" /\ screen = "open"
    /\ finger' = "down"
    /\ UNCHANGED <<recVars, timeVars, playVars, enabled, screen, fromHome, sent>>

FingerTap ==
    /\ finger = "down"
    /\ finger' = "up"
    /\ UNCHANGED <<recVars, timeVars, playVars, enabled, screen, fromHome, sent>>

\* press.state == .began with no recorder, setupRecorder() returned true
SetupSucceeds ==
    /\ finger = "down" /\ recorder = 0
    /\ named < MaxTake
    /\ finger' = "held"
    /\ named' = named + 1
    /\ take' = named + 1
    /\ recorder' = named + 1
    /\ timer' = named + 1
    /\ live' = live \cup {named + 1}
    /\ enabled' = FALSE
    /\ UNCHANGED <<ended, closed, counter, playVars, screen, fromHome, sent>>

\* ... setupRecorder() threw: the gesture is cancelled, the take forgotten,
\* and the error alert shown unless another alert is already up.
SetupFails ==
    /\ finger = "down" /\ recorder = 0
    /\ finger' = "up"
    /\ take' = 0
    /\ enabled' = FALSE
    /\ screen' = IF screen = "open" THEN "error" ELSE screen
    /\ UNCHANGED <<recorder, named, ended, closed, timeVars, playVars, fromHome, sent>>

\* ... or a recorder is still there, left by a cancelled gesture.
CannotRecord ==
    /\ finger = "down" /\ recorder # 0
    /\ finger' = "held"
    /\ enabled' = FALSE
    /\ UNCHANGED <<recVars, timeVars, playVars, screen, fromHome, sent>>

LongPressBegan == SetupSucceeds \/ SetupFails \/ CannotRecord

LongPressEnded ==
    /\ finger = "held"
    /\ finger' = "up"
    /\ \/ /\ recorder # 0
          /\ StopAnimationAndRecording
       \/ /\ recorder = 0
          /\ UNCHANGED <<recVars, timeVars, enabled>>
    /\ UNCHANGED <<playVars, screen, fromHome, sent>>

\* press.state == .cancelled (a call, a swipe, the screen being popped):
\* longPressedRecord has no branch for it.
LongPressCancelled ==
    /\ finger = "held"
    /\ finger' = "up"
    /\ UNCHANGED <<recVars, timeVars, playVars, enabled, screen, fromHome, sent>>

\* Seeded fault: the limit is tested before the tick is counted.
TimerHandler_TestsBeforeCounting(t) ==
    /\ t \in live
    /\ \/ /\ counter = TimeLimit
          /\ StopAnimationAndRecording
       \/ /\ counter # TimeLimit
          /\ counter' = counter + 1
          /\ UNCHANGED <<recVars, timer, live, enabled>>
    /\ UNCHANGED <<playVars, finger, screen, fromHome, sent>>

TimerHandler(t) ==
    /\ t \in live
    /\ \/ /\ counter + 1 = TimeLimit
          /\ StopAnimationAndRecording
       \/ /\ counter + 1 # TimeLimit
          /\ counter' = counter + 1
          /\ UNCHANGED <<recVars, timer, live, enabled>>
    /\ UNCHANGED <<playVars, finger, screen, fromHome, sent>>

-----------------------------------------------------------------------------
(* Playing back, sending, leaving *)

\* Seeded fault: the player is dropped when it is stopped.
StopPlayback_DropsPlayer ==
    /\ playing /\ player # 0
    /\ playing' = FALSE
    /\ sounding' = FALSE
    /\ player' = 0

StopPlayback ==
    /\ playing /\ player # 0
    /\ playing' = FALSE
    /\ sounding' = FALSE
    /\ UNCHANGED player

\* preparePlayer makes a player of the current take, or throws and leaves
\* the one there was; play() may also fail, which nobody looks at.
StartPlayback ==
    /\ ~playing
    /\ player' \in {take, player} \ {0}
    /\ playing' = TRUE
    /\ sounding' \in BOOLEAN

PlaybackUnavailable ==
    /\ ~playing /\ player = 0
    /\ UNCHANGED playVars

PlayAudioBtnPressed ==
    /\ enabled /\ screen = "open"
    /\ StopPlayback \/ StartPlayback \/ PlaybackUnavailable
    /\ UNCHANGED <<recVars, timeVars, uiVars>>

\* The end of the file: no delegate method is implemented, so the flag and
\* the button keep saying that it plays.
PlaybackFinishes ==
    /\ sounding
    /\ sounding' = FALSE
    /\ UNCHANGED <<recVars, timeVars, player, playing, uiVars>>

Leave ==
    /\ screen' = "left"
    /\ finger' = "up"

SendAndLeave ==
    /\ sent' = sent \cup {take}
    /\ Leave

DoneBtnPressed ==
    /\ enabled /\ screen = "open"
    /\ \/ /\ take # 0 /\ ~fromHome
          /\ SendAndLeave
       \/ /\ take = 0 \/ fromHome
          /\ screen' = IF take = 0 THEN "error" ELSE "prompt"
          /\ UNCHANGED <<finger, sent>>
    /\ UNCHANGED <<recVars, timeVars, playVars, enabled, fromHome>>

\* The description alert: OK with a text, OK with none, Cancel.  OK reads
\* the take at that moment, without the test doneBtnPressed made.
PromptAnswered ==
    /\ screen = "prompt"
    /\ \/ SendAndLeave
       \/ screen' = "error" /\ UNCHANGED <<finger, sent>>
       \/ screen' = "open" /\ UNCHANGED <<finger, sent>>
    /\ UNCHANGED <<recVars, timeVars, playVars, enabled, fromHome>>

ErrorDismissed ==
    /\ screen = "error"
    /\ screen' = "open"
    /\ UNCHANGED <<recVars, timeVars, playVars, enabled, finger, fromHome, sent>>

\* The navigation bar's back button.  A running timer keeps the controller,
\* and its recorder, alive.
BackPressed ==
    /\ screen = "open"
    /\ Leave
    /\ UNCHANGED <<recVars, timeVars, playVars, enabled, fromHome, sent>>

Next ==
    \/ FingerDown
    \/ FingerTap
    \/ LongPressBegan
    \/ LongPressEnded
    \/ LongPressCancelled
    \/ \E t \in Takes : TimerHandler(t)
    \/ PlayAudioBtnPressed
    \/ PlaybackFinishes
    \/ DoneBtnPressed
    \/ PromptAnswered
    \/ ErrorDismissed
    \/ BackPressed

\* The run loop fires a scheduled timer.  Nothing else is fair: no one has
\* to lift a finger or to press a button.
Spec == Init /\ [][Next]_vars /\ WF_vars(\E t \in Takes : TimerHandler(t))

-----------------------------------------------------------------------------
TakesOK ==
    /\ recorder \in 0..MaxTake
    /\ take \in 0..MaxTake
    /\ named \in 0..MaxTake
    /\ ended \subseteq 0..MaxTake
    /\ closed \subseteq 0..MaxTake
    /\ timer \in 0..MaxTake
    /\ live \subseteq Takes
    /\ counter \in 0..(TimeLimit - 1)
    /\ player \in 0..MaxTake
    /\ sent \subseteq 0..MaxTake

ScreenOK ==
    /\ playing \in BOOLEAN
    /\ sounding \in BOOLEAN
    /\ enabled \in BOOLEAN
    /\ fromHome \in BOOLEAN
    /\ finger \in {"up", "down", "held"}
    /\ screen \in {"open", "prompt", "error", "left"}

(* Every variable has its type; _counter is below the limit between ticks. *)
TypeOK == TakesOK /\ ScreenOK

(* Exactly the recording take has a timer: no timer outlives its recorder  *)
(* (its 21st tick would stop() a nil _audioRecorder, line 175) and no      *)
(* recorder is left without the timer that ends it, whatever the order of  *)
(* ticks, lifted fingers and cancelled gestures.                           *)
TimerTracksRecorder ==
    live = IF recorder = 0 THEN {} ELSE {recorder}

(* When the play and done buttons accept a press there is a take, it is    *)
(* not being recorded, and stopAnimationAndRecording has ended it: the     *)
(* test for nil in doneBtnPressed is never the one that saves the user.    *)
ButtonsNeedFinishedTake ==
    enabled => recorder = 0 /\ take # 0 /\ take \in ended

(* A fresh recording starts its clock at zero: _counter is reset whenever  *)
(* nothing records, so no take is cut short by the ticks of another.       *)
ClockRestarts ==
    recorder = 0 => counter = 0

(* Whatever becomes of the gesture and of the screen, a recording ends:    *)
(* the microphone is not left open.                                        *)
EveryRecordingEnds ==
    (recorder # 0) ~> (recorder = 0)

(* stop() is missed for takes that end before anything was played back     *)
(* (line 174 tests the player), and for no others: once a recorder was     *)
(* told to stop, those of all later takes are.                             *)
MissedStopsComeFirst ==
    \A t \in ended \ closed, u \in closed : t < u

=============================================================================
