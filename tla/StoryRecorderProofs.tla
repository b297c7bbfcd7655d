------------------------ MODULE StoryRecorderProofs -------------------------
(***************************************************************************)
(* Theorems about StoryRecorder, for any number of takes.                  *)
(*                                                                         *)
(* What the code keeps true of the timer and of the buttons is not         *)
(* inductive alone: stopAnimationAndRecording invalidates the timer that   *)
(* _timer refers to and enables the buttons without looking at the take.   *)
(* It is right because, as long as something records, _timer is that       *)
(* recording's timer and the current take is the one being recorded.       *)
(***************************************************************************)
EXTENDS StoryRecorder, TLAPS

(* While something records, _timer and the file name are its own. *)
RecordingIsCurrent ==
    recorder # 0 => timer = recorder /\ take = recorder

IInv ==
    /\ TypeOK
    /\ TimerTracksRecorder
    /\ RecordingIsCurrent
    /\ ButtonsNeedFinishedTake
    /\ ClockRestarts

(* Takes are named in order and only the last one is recorded; before the  *)
(* first playback no recorder was told to stop, after it all are.          *)
MissedInv ==
    /\ ended \subseteq 0..named
    /\ recorder \in {0, named}
    /\ closed # {} => player # 0
    /\ MissedStopsComeFirst

(* What the invariant says of the recording, apart from the types of the   *)
(* flags; the flags are proved separately.                                 *)
RecInv ==
    /\ TakesOK
    /\ TimerTracksRecorder
    /\ RecordingIsCurrent
    /\ ClockRestarts

LEMMA InitIInv == Init => IInv
<1> SUFFICES ASSUME Init PROVE IInv
  OBVIOUS
<1>1. RecInv
  BY RecorderAssumption
     DEF RecorderAssumption, Init, RecInv, TakesOK, Takes, TimeLimit,
         TimerTracksRecorder, RecordingIsCurrent, ClockRestarts
<1>2. ScreenOK
  BY DEF Init, ScreenOK
<1>3. ButtonsNeedFinishedTake
  BY DEF Init, ButtonsNeedFinishedTake
<1> QED
  BY <1>1, <1>2, <1>3 DEF IInv, RecInv, TypeOK

(* stopAnimationAndRecording, called while something records, restores     *)
(* what is said of the recording; both its callers, the lifted finger and  *)
(* the 21st tick, do call it in such a state.                              *)
LEMMA StopKeepsRecInv ==
    ASSUME RecInv, recorder # 0, StopAnimationAndRecording,
           UNCHANGED <<player, sent>>
    PROVE  RecInv'
BY RecorderAssumption
   DEF RecorderAssumption, RecInv, StopAnimationAndRecording, TakesOK, Takes,
       TimeLimit, TimerTracksRecorder, RecordingIsCurrent, ClockRestarts

LEMMA StopKeepsButtons ==
    ASSUME RecInv, recorder # 0, StopAnimationAndRecording
    PROVE  ButtonsNeedFinishedTake'
BY DEF RecInv, StopAnimationAndRecording, RecordingIsCurrent,
       ButtonsNeedFinishedTake

(* The recording itself, one step per action that touches it. *)
LEMMA NextRecInv == RecInv /\ [Next]_vars => RecInv'
<1> SUFFICES ASSUME RecInv, [Next]_vars PROVE RecInv'
  OBVIOUS
<1> USE RecorderAssumption
    DEF RecorderAssumption, RecInv, TakesOK, TimerTracksRecorder,
        RecordingIsCurrent, ClockRestarts, recVars, timeVars, playVars, Takes,
        TimeLimit
<1>1. CASE UNCHANGED <<recVars, timeVars, player, sent>>
  BY <1>1
<1>2. CASE SetupSucceeds
  BY <1>2 DEF SetupSucceeds
<1>3. CASE SetupFails
  BY <1>3 DEF SetupFails
<1>4. CASE LongPressEnded
  <2>1. CASE recorder # 0
    <3>1. StopAnimationAndRecording /\ UNCHANGED <<player, sent>>
      BY <1>4, <2>1 DEF LongPressEnded
    <3> QED
      BY <2>1, <3>1, StopKeepsRecInv
  <2>2. CASE recorder = 0
    BY <1>1, <1>4, <2>2 DEF LongPressEnded
  <2> QED
    BY <2>1, <2>2
<1>5. ASSUME NEW t \in Takes, TimerHandler(t)
      PROVE  RecInv'
  <2>1. recorder # 0
    BY <1>5 DEF TimerHandler
  <2>2. CASE counter + 1 = TimeLimit
    <3>1. StopAnimationAndRecording /\ UNCHANGED <<player, sent>>
      BY <1>5, <2>2 DEF TimerHandler
    <3> QED
      BY <2>1, <3>1, StopKeepsRecInv
  <2>3. CASE counter + 1 # TimeLimit
    <3>1. counter' = counter + 1 /\ UNCHANGED <<recVars, timer, live, player, sent>>
      BY <1>5, <2>3 DEF TimerHandler
    <3>2. counter' \in 0..(TimeLimit - 1)
      BY <2>3, <3>1
    <3> QED
      BY <2>1, <3>1, <3>2
  <2> QED
    BY <2>2, <2>3
<1>6. CASE PlayAudioBtnPressed
  <2>1. player' \in 0..MaxTake /\ UNCHANGED <<recVars, timeVars, sent>>
    BY <1>6 DEF PlayAudioBtnPressed, StopPlayback, StartPlayback,
       PlaybackUnavailable, uiVars
  <2> QED
    BY <2>1
<1>7. CASE DoneBtnPressed \/ PromptAnswered
  <2>1. sent' \subseteq 0..MaxTake /\ UNCHANGED <<recVars, timeVars, player>>
    BY <1>7 DEF DoneBtnPressed, PromptAnswered, SendAndLeave
  <2> QED
    BY <2>1
<1>8. CASE FingerDown \/ FingerTap \/ LongPressCancelled \/ CannotRecord
  BY <1>1, <1>8 DEF FingerDown, FingerTap, LongPressCancelled, CannotRecord
<1>9. CASE PlaybackFinishes \/ ErrorDismissed \/ BackPressed
  BY <1>1, <1>9 DEF PlaybackFinishes, ErrorDismissed, BackPressed, uiVars
<1>10. CASE UNCHANGED vars
  BY <1>1, <1>10 DEF vars, uiVars
<1> QED
  BY <1>2, <1>3, <1>4, <1>5, <1>6, <1>7, <1>8, <1>9, <1>10
  DEF Next, LongPressBegan

(* The buttons: enabled by stopAnimationAndRecording only, disabled by     *)
(* whatever changes the take.                                              *)
LEMMA NextButtons ==
    RecInv /\ ButtonsNeedFinishedTake /\ [Next]_vars => ButtonsNeedFinishedTake'
<1> SUFFICES ASSUME RecInv, ButtonsNeedFinishedTake, [Next]_vars
             PROVE  ButtonsNeedFinishedTake'
  OBVIOUS
<1>1. CASE UNCHANGED <<enabled, recVars>>
  BY <1>1 DEF ButtonsNeedFinishedTake, recVars
<1>2. CASE LongPressBegan
  BY <1>2 DEF LongPressBegan, SetupSucceeds, SetupFails, CannotRecord,
     ButtonsNeedFinishedTake
<1>3. CASE LongPressEnded
  <2>1. CASE recorder # 0
    BY <1>3, <2>1, StopKeepsButtons DEF LongPressEnded
  <2>2. CASE recorder = 0
    BY <1>1, <1>3, <2>2 DEF LongPressEnded
  <2> QED
    BY <2>1, <2>2
<1>4. ASSUME NEW t \in Takes, TimerHandler(t)
      PROVE  ButtonsNeedFinishedTake'
  <2>1. recorder # 0
    BY <1>4 DEF TimerHandler, RecInv, TimerTracksRecorder
  <2>2. CASE StopAnimationAndRecording
    BY <2>1, <2>2, StopKeepsButtons
  <2>3. CASE UNCHANGED <<recVars, enabled>>
    BY <1>1, <2>3
  <2> QED
    BY <1>4, <2>2, <2>3 DEF TimerHandler
<1>5. CASE PlayAudioBtnPressed \/ PlaybackFinishes
  BY <1>1, <1>5 DEF PlayAudioBtnPressed, PlaybackFinishes, uiVars
<1>6. CASE DoneBtnPressed \/ PromptAnswered \/ ErrorDismissed \/ BackPressed
  BY <1>1, <1>6 DEF DoneBtnPressed, PromptAnswered, ErrorDismissed, BackPressed
<1>7. CASE FingerDown \/ FingerTap \/ LongPressCancelled
  BY <1>1, <1>7 DEF FingerDown, FingerTap, LongPressCancelled
<1>8. CASE UNCHANGED vars
  BY <1>1, <1>8 DEF vars, uiVars
<1> QED
  BY <1>2, <1>3, <1>4, <1>5, <1>6, <1>7, <1>8 DEF Next

LEMMA NextScreen == ScreenOK /\ [Next]_vars => ScreenOK'
<1> SUFFICES ASSUME ScreenOK, [Next]_vars PROVE ScreenOK'
  OBVIOUS
<1> USE DEF ScreenOK, playVars
<1>1. CASE UNCHANGED <<playVars, uiVars>>
  BY <1>1 DEF uiVars
<1>2. CASE LongPressBegan
  BY <1>2 DEF LongPressBegan, SetupSucceeds, SetupFails, CannotRecord
<1>3. CASE LongPressEnded
  BY <1>3 DEF LongPressEnded, StopAnimationAndRecording
<1>4. ASSUME NEW t \in Takes, TimerHandler(t)
      PROVE  ScreenOK'
  BY <1>4 DEF TimerHandler, StopAnimationAndRecording
<1>5. CASE PlayAudioBtnPressed
  BY <1>5 DEF PlayAudioBtnPressed, StopPlayback, StartPlayback,
     PlaybackUnavailable, uiVars
<1>6. CASE PlaybackFinishes
  BY <1>6 DEF PlaybackFinishes, uiVars
<1>7. CASE DoneBtnPressed
  BY <1>7 DEF DoneBtnPressed, SendAndLeave, Leave
<1>8. CASE PromptAnswered
  BY <1>8 DEF PromptAnswered, SendAndLeave, Leave
<1>9. CASE ErrorDismissed \/ BackPressed
  BY <1>9 DEF ErrorDismissed, BackPressed, Leave
<1>10. CASE FingerDown \/ FingerTap \/ LongPressCancelled
  BY <1>10 DEF FingerDown, FingerTap, LongPressCancelled
<1>11. CASE UNCHANGED vars
  BY <1>1, <1>11 DEF vars
<1> QED
  BY <1>2, <1>3, <1>4, <1>5, <1>6, <1>7, <1>8, <1>9, <1>10, <1>11 DEF Next

(* The inductive invariant holds in every state the screen can be in. *)
THEOREM RecorderInvariant == Spec => []IInv
<1>1. Init => IInv
  BY InitIInv
<1>2. IInv /\ [Next]_vars => IInv'
  BY NextRecInv, NextButtons, NextScreen DEF IInv, RecInv, TypeOK
<1> QED
  BY <1>1, <1>2, PTL DEF Spec

(* A take that ends while there is a player is closed, and comes after all *)
(* that were not.                                                          *)
LEMMA StopKeepsMissed ==
    ASSUME TakesOK, MissedInv, recorder # 0, StopAnimationAndRecording, player' = player
    PROVE  MissedInv'
<1> USE DEF TakesOK, MissedInv
<1>1. /\ ended' = ended \cup {recorder} /\ recorder' = 0 /\ named' = named
      /\ closed' = IF player # 0 THEN closed \cup {recorder} ELSE closed
  BY DEF StopAnimationAndRecording
<1>2. ended' \subseteq 0..named /\ \A t \in ended : t <= recorder
  BY <1>1
<1>3. MissedStopsComeFirst'
  <2> SUFFICES ASSUME NEW t \in ended', t \notin closed', NEW u \in closed' PROVE t < u
    BY DEF MissedStopsComeFirst
  <2>1. player # 0 /\ t \in ended /\ t # recorder
    BY <1>1
  <2>2. CASE u \in closed
    BY <1>1, <2>1, <2>2 DEF MissedStopsComeFirst
  <2>3. CASE u = recorder
    BY <1>2, <2>1, <2>3
  <2> QED
    BY <1>1, <2>2, <2>3
<1> QED
  BY <1>1, <1>2, <1>3

LEMMA NextMissed == RecInv /\ MissedInv /\ [Next]_vars => MissedInv'
<1> SUFFICES ASSUME RecInv, MissedInv, [Next]_vars PROVE MissedInv'
  OBVIOUS
<1>1. TakesOK
  BY DEF RecInv
<1>2. ASSUME UNCHANGED recVars, player # 0 => player' # 0 PROVE MissedInv'
  BY <1>2 DEF recVars, MissedInv, MissedStopsComeFirst
<1>3. CASE SetupSucceeds
  <2>1. /\ named' = named + 1 /\ recorder' = named + 1
        /\ UNCHANGED <<ended, closed, player>>
    BY <1>3 DEF SetupSucceeds, playVars
  <2> QED
    BY <1>1, <2>1 DEF MissedInv, MissedStopsComeFirst, TakesOK
<1>4. CASE SetupFails
  BY <1>4 DEF SetupFails, playVars, MissedInv, MissedStopsComeFirst
<1>5. CASE LongPressEnded
  <2>1. player' = player
    BY <1>5 DEF LongPressEnded, playVars
  <2> QED
    BY <1>1, <1>2, <1>5, <2>1, StopKeepsMissed DEF LongPressEnded
<1>6. ASSUME NEW t \in Takes, TimerHandler(t) PROVE MissedInv'
  <2>1. player' = player /\ recorder # 0
    BY <1>6 DEF TimerHandler, playVars, RecInv, TimerTracksRecorder
  <2> QED
    BY <1>1, <1>2, <1>6, <2>1, StopKeepsMissed DEF TimerHandler
<1>7. CASE PlayAudioBtnPressed
  BY <1>2, <1>7 DEF PlayAudioBtnPressed, StopPlayback, StartPlayback, PlaybackUnavailable,
                    playVars
<1>8. CASE DoneBtnPressed \/ PromptAnswered \/ ErrorDismissed \/ BackPressed
  BY <1>2, <1>8 DEF DoneBtnPressed, PromptAnswered, ErrorDismissed, BackPressed, playVars
<1>9. CASE FingerDown \/ FingerTap \/ LongPressCancelled \/ CannotRecord \/ PlaybackFinishes
  BY <1>2, <1>9 DEF FingerDown, FingerTap, LongPressCancelled, CannotRecord, PlaybackFinishes,
                    playVars
<1>10. CASE UNCHANGED vars
  BY <1>2, <1>10 DEF vars, playVars
<1> QED
  BY <1>3, <1>4, <1>5, <1>6, <1>7, <1>8, <1>9, <1>10 DEF Next, LongPressBegan

(* The one-second timer on the run loop is always that of the take being   *)
(* recorded, and there is none when nothing records, so stop() is never    *)
(* sent to a nil _audioRecorder by a late tick.                            *)
THEOREM TimerSafety == Spec => []TimerTracksRecorder
<1>1. IInv => TimerTracksRecorder
  BY DEF IInv
<1> QED
  BY <1>1, RecorderInvariant, PTL

(* Every variable keeps its type, for any number of takes; _counter stays  *)
(* below the limit, which the timer tests for equality alone (line 219).   *)
THEOREM RecorderTypes == Spec => []TypeOK
<1>1. IInv => TypeOK
  BY DEF IInv
<1> QED
  BY <1>1, RecorderInvariant, PTL

(* A take starts its clock at zero, whatever ended the one before.         *)
THEOREM ClockSafety == Spec => []ClockRestarts
<1>1. IInv => ClockRestarts
  BY DEF IInv
<1> QED
  BY <1>1, RecorderInvariant, PTL

(* The takes whose recorder is dropped without stop() are the first ones,  *)
(* before anything was played back, for any number of takes.               *)
THEOREM StopSafety == Spec => []MissedStopsComeFirst
<1>1. Init => MissedInv
  BY RecorderAssumption DEF RecorderAssumption, Init, MissedInv, MissedStopsComeFirst
<1>2. IInv => RecInv
  BY DEF IInv, RecInv, TypeOK
<1>3. MissedInv => MissedStopsComeFirst
  BY DEF MissedInv
<1> QED
  BY <1>1, <1>2, <1>3, NextMissed, RecorderInvariant, PTL DEF Spec

(* The play and done buttons accept a press only when there is a finished  *)
(* take to play or to send.                                                *)
THEOREM ButtonSafety == Spec => []ButtonsNeedFinishedTake
<1>1. IInv => ButtonsNeedFinishedTake
  BY DEF IInv
<1> QED
  BY <1>1, RecorderInvariant, PTL

-----------------------------------------------------------------------------
(* How a take runs out *)

\* The ticks that the take being recorded may still get.
TicksLeft == IF recorder = 0 THEN 0 ELSE TimeLimit - counter

\* What a step makes of a take.
RunsOut ==
    /\ recorder # 0 => /\ live = {recorder} /\ TicksLeft \in 1..TimeLimit
                       /\ recorder' \in {recorder, 0} /\ TicksLeft' <= TicksLeft
    /\ \A t \in Takes : TimerHandler(t) => t = recorder /\ TicksLeft' = TicksLeft - 1

LEMMA StopRunsOut ==
    ASSUME TakesOK, recorder # 0, StopAnimationAndRecording
    PROVE  recorder' = 0 /\ TicksLeft' = 0 /\ TicksLeft \in 1..TimeLimit
<1>1. counter \in 0..20
  BY DEF TakesOK, TimeLimit
<1>2. recorder' = 0
  BY DEF StopAnimationAndRecording
<1> QED
  BY <1>1, <1>2 DEF TicksLeft, TimeLimit

LEMMA TickRunsOut ==
    ASSUME RecInv, NEW t \in Takes, TimerHandler(t)
    PROVE  /\ recorder # 0 /\ t = recorder /\ recorder' \in {recorder, 0}
           /\ TicksLeft' = TicksLeft - 1
<1>1. recorder # 0 /\ t = recorder
  BY DEF TimerHandler, RecInv, TimerTracksRecorder
<1>2. counter \in 0..20
  BY DEF RecInv, TakesOK, TimeLimit
<1>3. CASE counter + 1 = TimeLimit /\ StopAnimationAndRecording
  <2>1. recorder' = 0 /\ TicksLeft' = 0
    BY <1>1, <1>3, StopRunsOut DEF RecInv
  <2>2. TicksLeft = 1
    BY <1>1, <1>2, <1>3 DEF TicksLeft, TimeLimit
  <2> QED
    BY <1>1, <2>1, <2>2
<1>4. CASE counter' = counter + 1 /\ UNCHANGED recVars
  <2>1. recorder' = recorder
    BY <1>4 DEF recVars
  <2> QED
    BY <1>1, <1>2, <1>4, <2>1 DEF TicksLeft, TimeLimit
<1> QED
  BY <1>1, <1>3, <1>4 DEF TimerHandler

LEMMA StepRunsOut == ASSUME RecInv, [Next]_vars PROVE RunsOut
<1>1. \A t \in Takes : TimerHandler(t) => t = recorder /\ TicksLeft' = TicksLeft - 1
  BY TickRunsOut
<1>2. ASSUME recorder # 0 PROVE live = {recorder} /\ TicksLeft \in 1..TimeLimit
  <2>1. counter \in 0..20
    BY DEF RecInv, TakesOK, TimeLimit
  <2> QED
    BY <1>2, <2>1 DEF TicksLeft, TimeLimit, RecInv, TimerTracksRecorder
<1>3. ASSUME recorder # 0 PROVE recorder' \in {recorder, 0} /\ TicksLeft' <= TicksLeft
  <2> DEFINE Goal == recorder' \in {recorder, 0} /\ TicksLeft' <= TicksLeft
  <2>1. TicksLeft \in 1..21
    BY <1>2, <1>3 DEF TimeLimit
  <2>2. ASSUME UNCHANGED <<recorder, counter>> PROVE Goal
    <3>1. TicksLeft' = TicksLeft
      BY <2>2 DEF TicksLeft
    <3> QED
      BY <2>1, <2>2, <3>1
  <2>3. ASSUME NEW t \in Takes, TimerHandler(t) PROVE Goal
    BY <2>1, <2>3, TickRunsOut
  <2>4. ASSUME LongPressEnded PROVE Goal
    <3>1. StopAnimationAndRecording
      BY <1>3, <2>4 DEF LongPressEnded
    <3>2. recorder' = 0 /\ TicksLeft' = 0
      BY <1>3, <3>1, StopRunsOut DEF RecInv
    <3> QED
      BY <2>1, <3>2 DEF TimeLimit
  <2>5. ASSUME LongPressBegan PROVE UNCHANGED <<recorder, counter>>
    BY <1>3, <2>5 DEF LongPressBegan, SetupSucceeds, SetupFails, CannotRecord, recVars, timeVars
  <2>6. ASSUME \/ FingerDown \/ FingerTap \/ LongPressCancelled \/ PlayAudioBtnPressed
               \/ PlaybackFinishes \/ DoneBtnPressed \/ PromptAnswered \/ ErrorDismissed
               \/ BackPressed \/ UNCHANGED vars
        PROVE  UNCHANGED <<recorder, counter>>
    BY <2>6 DEF FingerDown, FingerTap, LongPressCancelled, PlayAudioBtnPressed, PlaybackFinishes,
                DoneBtnPressed, PromptAnswered, ErrorDismissed, BackPressed, recVars, timeVars,
                vars
  <2> HIDE DEF Goal
  <2>7. Goal
    BY <2>2, <2>3, <2>4, <2>5, <2>6 DEF Next
  <2> QED
    BY <2>7 DEF Goal
<1> QED
  BY <1>1, <1>2, <1>3 DEF RunsOut

(* A recording has at most 21 ticks left, and a timer of its own to give   *)
(* them.  Each tick takes one away and the last ends it; nothing gives one *)
(* back, whatever becomes of the gesture, the alerts and the screen.       *)
THEOREM TakesRunOut == Spec => [][RunsOut]_vars
<1>1. IInv => RecInv
  BY DEF IInv, RecInv, TypeOK
<1>2. RecInv /\ [Next]_vars => RunsOut
  BY StepRunsOut
<1> QED
  BY <1>1, <1>2, RecorderInvariant, PTL DEF Spec

=============================================================================
