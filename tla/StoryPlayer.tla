----------------------------- MODULE StoryPlayer -----------------------------
(***************************************************************************)
(* Playing one story: the static AudioPlayer, the cells of the lists and   *)
(* the parent story's button of SingleFeedVC, each with a display link     *)
(* ("updater") that draws its progress bar and notices the end.            *)
(*                                                                         *)
(* Everything runs on the main thread, in any order the user and the       *)
(* display links choose.  Every caller of AudioPlayer.play passes its own  *)
(* button, so that _storeButton is the button of the sound.  An audio      *)
(* session that cannot be had changes nothing and is left out.             *)
(*                                                                         *)
(* A cell here is a UITableViewCell, with its link, bar and button, and    *)
(* not the story of its row, which the table changes as it likes.  A       *)
(* screen makes its own cells, and a story screen its own parent button:   *)
(* those of a screen that has gone live on as long as a link holds them.   *)
(***************************************************************************)
EXTENDS Naturals

CONSTANTS
    HomeCell,   \* cells of HomeVC's list
    LaterCell,  \* cells that lists of ProfileVC and SingleFeedVC will make
    Parent,     \* the button of the story on the last SingleFeedVC opened
    Former,     \* the one on an earlier SingleFeedVC
    None

Cell  == HomeCell \cup LaterCell
Voice == Cell \cup {Parent, Former}

ASSUME PlayerAssumption ==
    /\ HomeCell \cap LaterCell = {}
    /\ Parent \notin Cell /\ Former \notin Cell \cup {Parent} /\ None \notin Voice

VARIABLES
    opened,   \* the screens over HomeVC: "profile", "story", "record"
    place,    \* per cell: the list it is in or was in, or "unused"
    sound,    \* whose audioPlayer plays, None for a nil audioPlayer
    time,     \* of it: "zero", "some", "over"
    updater,  \* per voice: its _updater is "nil", "valid" or "invalid"
    leaked,   \* voices with a valid link that _updater no longer names
    bar,      \* voices whose progress bar is not at zero
    icon,     \* per voice: "play" or "stop"
    crashed   \* "no", or where a nil was unwrapped: "press", "tick"

screens == <<opened, place>>
vars    == <<screens, sound, time, updater, leaked, bar, icon, crashed>>

Init ==
    /\ opened = {}
    /\ place = [c \in Cell |-> IF c \in HomeCell THEN "home" ELSE "unused"]
    /\ sound = None /\ time = "zero"
    /\ updater = [v \in Voice |-> "nil"]
    /\ leaked = {} /\ bar = {}
    /\ icon = [v \in Voice |-> "play"]
    /\ crashed = "no"

\* Screens are only pushed in this order: the navigation stack is a set.
Front == IF "record" \in opened THEN "record"
         ELSE IF "story" \in opened THEN "story"
         ELSE IF "profile" \in opened THEN "profile" ELSE "home"

-----------------------------------------------------------------------------
(* AudioPlayer *)

\* Seeded fault: the button keeps its stop image.
StopPlayer_KeepsImage ==
    /\ sound' = None
    /\ UNCHANGED <<time, icon>>

StopPlayer ==
    /\ sound' = None
    /\ icon' = [v \in Voice |-> IF v = sound THEN "play" ELSE icon[v]]
    /\ UNCHANGED time

StartPlayer(v) ==
    /\ sound' = v /\ time' = "zero"
    /\ icon' = [icon EXCEPT ![v] = "stop"]

Invalidated(v) ==
    [updater EXCEPT ![v] = IF updater[v] = "valid" THEN "invalid" ELSE updater[v]]

\* A new display link takes the place of the old one, valid or not.
NewUpdater(v) ==
    /\ updater' = [updater EXCEPT ![v] = "valid"]
    /\ leaked' = IF updater[v] = "valid" THEN leaked \cup {v} ELSE leaked

-----------------------------------------------------------------------------
(* FeedTableViewCell *)

InFront(c) == crashed = "no" /\ place[c] = Front

LinkFires(v) == crashed = "no" /\ (updater[v] = "valid" \/ v \in leaked)

\* Playing, and this cell has an updater: stop, whoever plays.
PressStops(c) ==
    /\ InFront(c) /\ sound # None /\ updater[c] # "nil"
    /\ bar' = bar \ {c}
    /\ updater' = Invalidated(c)
    /\ StopPlayer
    /\ UNCHANGED <<screens, leaked, crashed>>

\* Playing, and it has none: "already playing another audio".
PressIgnored(c) ==
    /\ InFront(c) /\ sound # None /\ updater[c] = "nil"
    /\ UNCHANGED vars

PressStarts(c) ==
    /\ InFront(c) /\ sound = None
    /\ NewUpdater(c)
    /\ StartPlayer(c)
    /\ bar' = bar \ {c}
    /\ UNCHANGED <<screens, crashed>>

PressPlay(c) == PressStops(c) \/ PressIgnored(c) \/ PressStarts(c)

\* Seeded fault: a cell whose sound was stopped leaves its bar where it is.
TrackAudio_KeepsBar(c) ==
    /\ LinkFires(c)
    /\ bar' = IF sound = None THEN bar
              ELSE IF time = "some" THEN bar \cup {c} ELSE bar \ {c}
    /\ IF sound = None \/ time = "over" THEN updater' = Invalidated(c) ELSE UNCHANGED updater
    /\ IF sound # None /\ time = "over" THEN StopPlayer ELSE UNCHANGED <<sound, time, icon>>
    /\ UNCHANGED <<screens, leaked, crashed>>

\* The cell's display link, or one that was leaked, fires.  It draws the
\* progress of the sound, whosever it is, and stops it at its end.
TrackAudio(c) ==
    /\ LinkFires(c)
    /\ bar' = IF sound # None /\ time = "some" THEN bar \cup {c} ELSE bar \ {c}
    /\ IF sound = None \/ time = "over" THEN updater' = Invalidated(c) ELSE UNCHANGED updater
    /\ IF sound # None /\ time = "over" THEN StopPlayer ELSE UNCHANGED <<sound, time, icon>>
    /\ UNCHANGED <<screens, leaked, crashed>>

-----------------------------------------------------------------------------
(* SingleFeedVC *)

PlayParentStops ==
    /\ crashed = "no" /\ Front = "story" /\ sound # None /\ updater[Parent] # "nil"
    /\ bar' = bar \ {Parent}
    /\ updater' = Invalidated(Parent)
    /\ StopPlayer
    /\ UNCHANGED <<screens, leaked, crashed>>

PlayParentStarts ==
    /\ crashed = "no" /\ Front = "story" /\ sound = None
    /\ NewUpdater(Parent)
    /\ StartPlayer(Parent)
    /\ bar' = bar \ {Parent}
    /\ UNCHANGED <<screens, crashed>>

\* self._updater.invalidate() with a nil _updater.
PlayParentCrashes ==
    /\ crashed = "no" /\ Front = "story" /\ sound # None /\ updater[Parent] = "nil"
    /\ crashed' = "press"
    /\ UNCHANGED <<screens, sound, time, updater, leaked, bar, icon>>

\* v is Parent or Former: a leaked link goes on when its screen has gone.
TrackParent(v) ==
    /\ LinkFires(v)
    /\ sound # None
    /\ bar' = IF time = "some" THEN bar \cup {v} ELSE bar \ {v}
    /\ IF time = "over" THEN updater' = Invalidated(v) /\ StopPlayer
                        ELSE UNCHANGED <<updater, sound, time, icon>>
    /\ UNCHANGED <<screens, leaked, crashed>>

\* AudioPlayer.audioPlayer.currentTime() with a nil audioPlayer.
TrackParentCrashes(v) ==
    /\ LinkFires(v)
    /\ sound = None
    /\ crashed' = "tick"
    /\ UNCHANGED <<screens, sound, time, updater, leaked, bar, icon>>

\* The segue of HomeVC or ProfileVC and the new screen's viewDidLoad stop the
\* sound.  The new screen has no updater yet; what a leaked link holds of the
\* last one is now Former's.
OpenStory ==
    /\ crashed = "no" /\ Front \in {"home", "profile"}
    /\ opened' = opened \cup {"story"}
    /\ StopPlayer
    /\ updater' = [updater EXCEPT ![Parent] = "nil"]
    /\ leaked' = IF Parent \in leaked THEN (leaked \ {Parent}) \cup {Former} ELSE leaked
    /\ bar' = IF Parent \in bar THEN (bar \ {Parent}) \cup {Former} ELSE bar
    /\ UNCHANGED <<place, crashed>>

\* The cells of a list whose screen has gone.
Closed(list, past) == [c \in Cell |-> IF place[c] = list THEN past ELSE place[c]]

\* Seeded fault: only the passes of Play All are stopped.
ViewWillDisappear_KeepsPlaying ==
    /\ crashed = "no" /\ Front = "story"
    /\ \/ opened' = opened \ {"story"} /\ place' = Closed("story", "past story")
       \/ opened' = opened \cup {"record"} /\ UNCHANGED place
    /\ UNCHANGED <<sound, time, updater, leaked, bar, icon, crashed>>

\* Back to the list, or the recording screen is pushed.
ViewWillDisappear ==
    /\ crashed = "no" /\ Front = "story"
    /\ \/ opened' = opened \ {"story"} /\ place' = Closed("story", "past story")
       \/ opened' = opened \cup {"record"} /\ UNCHANGED place
    /\ StopPlayer
    /\ bar' = bar \ {Parent}
    /\ updater' = Invalidated(Parent)
    /\ UNCHANGED <<leaked, crashed>>

-----------------------------------------------------------------------------
(* The lists *)

\* Seeded fault: the cell is made for whatever screen is in front.
CellForRow_Anywhere(c) ==
    /\ crashed = "no" /\ place[c] = "unused"
    /\ place' = [place EXCEPT ![c] = Front]
    /\ UNCHANGED <<opened, sound, time, updater, leaked, bar, icon, crashed>>

\* The list makes a new cell, or gives one it has another story: the updater,
\* the bar and the image of the button stay as they are.
CellForRow(c) ==
    \/ /\ crashed = "no" /\ Front \in {"profile", "story"} /\ place[c] = "unused"
       /\ place' = [place EXCEPT ![c] = Front]
       /\ UNCHANGED <<opened, sound, time, updater, leaked, bar, icon, crashed>>
    \/ InFront(c) /\ UNCHANGED vars

\* From HomeVC or its menu, and back: nothing is stopped.
OpenProfile ==
    /\ crashed = "no" /\ Front = "home"
    /\ opened' = {"profile"}
    /\ UNCHANGED <<place, sound, time, updater, leaked, bar, icon, crashed>>

LeaveProfile ==
    /\ crashed = "no" /\ Front = "profile"
    /\ opened' = {} /\ place' = Closed("profile", "past profile")
    /\ UNCHANGED <<sound, time, updater, leaked, bar, icon, crashed>>

\* From the lists nothing is stopped either.  ProfileVC's edit screen, which
\* plays nothing, comes and goes in the same way.
RecordFromList ==
    /\ crashed = "no" /\ Front \in {"home", "profile"}
    /\ opened' = opened \cup {"record"}
    /\ UNCHANGED <<place, sound, time, updater, leaked, bar, icon, crashed>>

BackFromRecording ==
    /\ crashed = "no" /\ Front = "record"
    /\ opened' = opened \ {"record"}
    /\ UNCHANGED <<place, sound, time, updater, leaked, bar, icon, crashed>>

-----------------------------------------------------------------------------
\* AVPlayer plays on.
Advances ==
    /\ crashed = "no" /\ sound # None /\ time # "over"
    /\ time' = IF time = "zero" THEN "some" ELSE "over"
    /\ UNCHANGED <<screens, sound, updater, leaked, bar, icon, crashed>>

Next ==
    \/ \E c \in Cell : PressPlay(c) \/ TrackAudio(c) \/ CellForRow(c)
    \/ PlayParentStops \/ PlayParentStarts \/ PlayParentCrashes
    \/ \E v \in {Parent, Former} : TrackParent(v) \/ TrackParentCrashes(v)
    \/ OpenStory \/ ViewWillDisappear
    \/ OpenProfile \/ LeaveProfile \/ RecordFromList \/ BackFromRecording
    \/ Advances

\* The run loop fires each display link once a second.
Fairness ==
    /\ \A c \in Cell : WF_vars(TrackAudio(c))
    /\ \A v \in {Parent, Former} : WF_vars(TrackParent(v) \/ TrackParentCrashes(v))

Spec == Init /\ [][Next]_vars /\ Fairness

-----------------------------------------------------------------------------
TypeOK ==
    /\ opened \subseteq {"profile", "story", "record"}
    /\ place \in [Cell -> {"unused", "home", "profile", "story", "past profile", "past story"}]
    /\ sound \in Voice \cup {None} /\ time \in {"zero", "some", "over"}
    /\ updater \in [Voice -> {"nil", "valid", "invalid"}]
    /\ leaked \subseteq Voice /\ bar \subseteq Voice
    /\ icon \in [Voice -> {"play", "stop"}]
    /\ crashed \in {"no", "press", "tick"}

(* The button of the sound, and no other, offers to stop it: across cells, *)
(* the parent story and screens that have gone.  It is a statement about   *)
(* buttons: a cell that was given another story keeps the stop image.      *)
IconTellsSound == \A v \in Voice : icon[v] = "stop" <=> sound = v

(* A bar that is not at zero has a display link that will draw it again:   *)
(* no bar is left standing by whoever stopped the sound.                   *)
BarsAreDrawn == \A v \in bar : updater[v] = "valid" \/ v \in leaked

(* When the sound stops, every bar goes back to zero unless another sound  *)
(* starts (or the app crashes).                                            *)
SilenceClearsBars == sound = None ~> (sound # None \/ crashed # "no" \/ bar = {})

OnStory == {Parent} \cup {c \in Cell : place[c] = "story"}
OnLists == {c \in Cell : place[c] \in {"home", "profile", "past profile"}}

(* What the story screen plays is heard on no other screen, nor while a    *)
(* reply to it is being recorded, and what a list plays, which goes on     *)
(* over every other screen, is not heard on the story screen.              *)
StoryStaysOnItsScreen ==
    sound # None => sound \in (IF Front = "story" THEN OnStory ELSE OnLists)

(* Wherever the screens force-unwrap the updater and the player, declared  *)
(* as never nil, they are there: when the parent's button is pressed and   *)
(* each time its display link fires.                                       *)
NeverUnwrapsNil == crashed = "no"

=============================================================================
