------------------------------- MODULE PlayAll -------------------------------
(***************************************************************************)
(* "Play All" of SingleFeedVC: each press that starts a pass hands a block *)
(* to a background queue; the blocks share the players, the flag           *)
(* _audioPlaying and one semaphore, and each polls its player until the    *)
(* story is over or the flag is down.  A second press, leaving the screen  *)
(* and the end of a pass lower the flag; nothing else synchronises them.   *)
(*                                                                         *)
(* Each statement of the block that touches what is shared is a step.      *)
(* A seek takes effect at once.                                            *)
(***************************************************************************)
EXTENDS Integers, FiniteSets

CONSTANTS
    Pass,      \* the blocks that presses start, one each
    MaxPlayer  \* bound on the stories below one screen, the parent included

ASSUME PlayAllAssumption == IsFiniteSet(Pass) /\ MaxPlayer \in Nat \ {0}

Player == 1..MaxPlayer

\* No more waits than this are ever made, so that further signals of the
\* semaphore make no difference.
Enough == Cardinality(Pass) * MaxPlayer

VARIABLES
    shown,         \* the screen is in front
    listed,        \* length of _audioPlayerList
    ready,         \* players whose duration is known
    rate,          \* per player, whether it is playing
    position,      \* per player: "begin", "middle", "end", or "over" when the
                   \* time shown exceeds the duration by a rounding
    audioPlaying,  \* _audioPlaying
    title,         \* of playAllBtn
    titles,        \* blocks on the main queue that set it to "Play All"
    semaphore,
    pc, at, last   \* per pass: its next step, the player it is at, the
                   \* length of the list it goes through

screen == <<shown, title, titles>>
local  == <<at, last>>
sound  == <<listed, ready, rate, position>>
vars   == <<screen, local, sound, audioPlaying, semaphore, pc>>

Steps == {"list", "play", "measure", "test", "poll", "after", "seek", "pause", "wait",
          "title", "clear"}

Init ==
    /\ shown = TRUE /\ listed = 1
    /\ ready = {}
    /\ rate = [p \in Player |-> FALSE]
    /\ position = [p \in Player |-> "begin"]
    /\ audioPlaying = FALSE /\ title = "Play All" /\ titles = 0
    /\ semaphore = 0
    /\ pc = [t \in Pass |-> "unused"]
    /\ at = [t \in Pass |-> 1]
    /\ last = [t \in Pass |-> 1]

Goes(t, from, to) == pc[t] = from /\ pc' = [pc EXCEPT ![t] = to]

Signal == semaphore' = IF semaphore < Enough THEN semaphore + 1 ELSE semaphore

-----------------------------------------------------------------------------
(* The main thread *)

PressPlay(t) ==
    /\ shown /\ ~audioPlaying
    /\ audioPlaying' = TRUE
    /\ title' = "Stop All"
    /\ Goes(t, "unused", "list")
    /\ UNCHANGED <<shown, titles, local, sound, semaphore>>

PressStop ==
    /\ shown /\ audioPlaying
    /\ audioPlaying' = FALSE
    /\ title' = "Play All"
    /\ UNCHANGED <<shown, titles, local, sound, semaphore, pc>>

\* Seeded fault: only the single-story player is stopped.
ViewWillDisappear_KeepsPlaying ==
    /\ shown
    /\ shown' = FALSE
    /\ UNCHANGED <<title, titles, local, sound, audioPlaying, semaphore, pc>>

ViewWillDisappear ==
    /\ shown
    /\ shown' = FALSE
    /\ audioPlaying' = FALSE
    /\ UNCHANGED <<title, titles, local, sound, semaphore, pc>>

\* Back from the recording screen: the same screen, as it was left.
ViewAppears ==
    /\ ~shown
    /\ shown' = TRUE
    /\ UNCHANGED <<title, titles, local, sound, audioPlaying, semaphore, pc>>

\* The main queue runs DispatchQueue.main.async's block.
TitleBlock ==
    /\ titles > 0
    /\ titles' = titles - 1
    /\ title' = "Play All"
    /\ UNCHANGED <<shown, local, sound, audioPlaying, semaphore, pc>>

\* The observer of Stories/<id> appends a player.  The player is unwrapped by
\* force and never nil: its URL is a recording's audioRef, the absoluteString of
\* the URL Storage gave (sendStoryToDatabase), and a recording is written below
\* Stories in one piece.
ChildAdded ==
    /\ listed < MaxPlayer
    /\ listed' = listed + 1
    /\ UNCHANGED <<ready, rate, position, screen, local, audioPlaying, semaphore, pc>>

-----------------------------------------------------------------------------
(* A pass *)

\* for audio in self._audioPlayerList: the list as it is now.
List(t) ==
    /\ Goes(t, "list", "play")
    /\ at' = [at EXCEPT ![t] = 1]
    /\ last' = [last EXCEPT ![t] = listed]
    /\ UNCHANGED <<sound, screen, audioPlaying, semaphore>>

\* play() on a player at its end leaves it there.
Play(t) ==
    /\ Goes(t, "play", "measure")
    /\ rate' = [rate EXCEPT ![at[t]] = position[at[t]] \in {"begin", "middle"}]
    /\ UNCHANGED <<listed, ready, position, local, screen, audioPlaying, semaphore>>

\* while currentSeconds <= fullDurationSeconds && self._audioPlaying: the
\* times are read here and in Poll, the flag in Test.  The duration of an item
\* that is not ready is not a number, and no time is within it.
Measure(t) ==
    /\ Goes(t, "measure", IF at[t] \in ready /\ position[at[t]] # "over"
                          THEN "test" ELSE "after")
    /\ UNCHANGED <<local, sound, screen, audioPlaying, semaphore>>

\* Seeded fault: the time alone is tested.
Test_TimeOnly(t) ==
    /\ Goes(t, "test", IF position[at[t]] # "over" THEN "poll" ELSE "after")
    /\ UNCHANGED <<local, sound, screen, audioPlaying, semaphore>>

Test(t) ==
    /\ Goes(t, "test", IF audioPlaying THEN "poll" ELSE "after")
    /\ UNCHANGED <<local, sound, screen, audioPlaying, semaphore>>

Poll(t) ==
    /\ Goes(t, "poll", IF position[at[t]] # "over" THEN "test" ELSE "after")
    /\ Signal
    /\ UNCHANGED <<local, sound, screen, audioPlaying>>

After(t) ==
    /\ Goes(t, "after", "seek")
    /\ IF audioPlaying THEN UNCHANGED semaphore ELSE Signal
    /\ UNCHANGED <<local, sound, screen, audioPlaying>>

Seek(t) ==
    /\ Goes(t, "seek", "pause")
    /\ position' = [position EXCEPT ![at[t]] = "begin"]
    /\ UNCHANGED <<listed, ready, rate, local, screen, audioPlaying, semaphore>>

\* Seeded fault: the first player of the list is paused.
Pause_TheParent(t) ==
    /\ Goes(t, "pause", "wait")
    /\ rate' = [rate EXCEPT ![1] = FALSE]
    /\ UNCHANGED <<listed, ready, position, local, screen, audioPlaying, semaphore>>

Pause(t) ==
    /\ Goes(t, "pause", "wait")
    /\ rate' = [rate EXCEPT ![at[t]] = FALSE]
    /\ UNCHANGED <<listed, ready, position, local, screen, audioPlaying, semaphore>>

\* Seeded fault: the next player is taken without a signal.
Wait_ForNothing(t) ==
    /\ IF at[t] < last[t]
       THEN Goes(t, "wait", "play") /\ at' = [at EXCEPT ![t] = @ + 1]
       ELSE Goes(t, "wait", "title") /\ UNCHANGED at
    /\ semaphore' = semaphore - 1
    /\ UNCHANGED <<last, sound, screen, audioPlaying>>

Wait(t) ==
    /\ semaphore > 0
    /\ semaphore' = semaphore - 1
    /\ IF at[t] < last[t]
       THEN Goes(t, "wait", "play") /\ at' = [at EXCEPT ![t] = @ + 1]
       ELSE Goes(t, "wait", "title") /\ UNCHANGED at
    /\ UNCHANGED <<last, sound, screen, audioPlaying>>

PostTitle(t) ==
    /\ Goes(t, "title", "clear")
    /\ titles' = titles + 1
    /\ UNCHANGED <<shown, title, local, sound, audioPlaying, semaphore>>

\* Seeded fault: the title is restored, the flag is left up.
Clear_KeepsFlag(t) ==
    /\ Goes(t, "clear", "done")
    /\ UNCHANGED <<local, sound, screen, audioPlaying, semaphore>>

Clear(t) ==
    /\ Goes(t, "clear", "done")
    /\ audioPlaying' = FALSE
    /\ UNCHANGED <<local, sound, screen, semaphore>>

Step(t) ==
    \/ List(t) \/ Play(t) \/ Measure(t) \/ Test(t) \/ Poll(t) \/ After(t)
    \/ Seek(t) \/ Pause(t) \/ Wait(t) \/ PostTitle(t) \/ Clear(t)

-----------------------------------------------------------------------------
(* AVPlayer *)

BecomesReady(p) ==
    /\ p <= listed /\ p \notin ready
    /\ ready' = ready \cup {p}
    /\ UNCHANGED <<listed, rate, position, local, screen, audioPlaying, semaphore, pc>>

\* A player that reaches the end of its item stops.
Advances(p) ==
    /\ rate[p] /\ p \in ready
    /\ IF position[p] = "begin"
       THEN position' = [position EXCEPT ![p] = "middle"] /\ UNCHANGED rate
       ELSE /\ \E q \in {"end", "over"} : position' = [position EXCEPT ![p] = q]
            /\ rate' = [rate EXCEPT ![p] = FALSE]
    /\ UNCHANGED <<listed, ready, local, screen, audioPlaying, semaphore, pc>>

Next ==
    \/ \E t \in Pass : PressPlay(t) \/ Step(t)
    \/ PressStop \/ ViewWillDisappear \/ ViewAppears \/ TitleBlock \/ ChildAdded
    \/ \E p \in Player : BecomesReady(p) \/ Advances(p)

\* The queues run their blocks; a block that waits is not owed a signal.
Fairness == WF_vars(TitleBlock) /\ \A t \in Pass : WF_vars(Step(t))

Spec == Init /\ [][Next]_vars /\ Fairness

-----------------------------------------------------------------------------
FlagsOK ==
    /\ shown \in BOOLEAN /\ audioPlaying \in BOOLEAN
    /\ title \in {"Play All", "Stop All"}

PlayersOK ==
    /\ ready \subseteq Player
    /\ rate \in [Player -> BOOLEAN]
    /\ position \in [Player -> {"begin", "middle", "end", "over"}]

StepsOK == pc \in [Pass -> Steps \cup {"unused", "done"}]

CountsOK ==
    /\ titles \in Nat
    /\ semaphore \in 0..Enough
    /\ listed \in Player
    /\ at \in [Pass -> Player] /\ last \in [Pass -> Player]

TypeOK == FlagsOK /\ PlayersOK /\ StepsOK /\ CountsOK

\* Where a pass is between play() and pause() of its player.
Playing == {"measure", "test", "poll", "after", "seek", "pause"}

(* No story plays that no pass is going to pause: whatever passes overlap, *)
(* are stopped or are left behind, each sound has an owner.                *)
SoundHasOwner ==
    \A p \in Player : rate[p] => \E t \in Pass : at[t] = p /\ pc[t] \in Playing

(* When every pass that was started is over and the main queue is idle,    *)
(* the button offers "Play All" and pressing it starts a pass, in whatever *)
(* order overlapping passes set the flag and the title.                    *)
RestsReady ==
    titles = 0 /\ (\A t \in Pass : pc[t] \in {"unused", "done"})
        => title = "Play All" /\ ~audioPlaying

(* After "Stop All", or once the screen is left, everything falls silent   *)
(* unless the user starts again: a pass that is stopped goes through the   *)
(* rest of its list without playing it, and one that blocks on the         *)
(* semaphore has paused its player first.                                  *)
FallsSilent ==
    ~shown \/ ~audioPlaying ~> (shown /\ audioPlaying) \/ \A p \in Player : ~rate[p]

(* A pass that is stopped comes to its end: no test, no rounding and no    *)
(* other pass makes it poll for ever, and the only thing that can hold it  *)
(* is a semaphore that a pass before it, or itself, left without a signal. *)
StoppedPassesEnd ==
    ~audioPlaying ~>
        \/ audioPlaying
        \/ \A t \in Pass :
            \/ pc[t] \in {"unused", "done"}
            \/ pc[t] = "wait" /\ semaphore = 0

=============================================================================
