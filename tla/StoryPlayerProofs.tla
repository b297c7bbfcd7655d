-------------------------- MODULE StoryPlayerProofs --------------------------
EXTENDS StoryPlayer, TLAPS

\* Cells stay with their kind of list, and nothing sounds over the recording
\* screen that was opened from the story screen.
ListsApart ==
    /\ \A c \in HomeCell : place[c] = "home"
    /\ \A c \in LaterCell : place[c] # "home"
    /\ {"story", "record"} \subseteq opened => sound = None

\* Leaving the story screen invalidates its updater.
ParentLinkInFront ==
    /\ updater[Parent] = "valid" => Front = "story"
    /\ updater[Former] # "valid"

PlayerInv == TypeOK /\ IconTellsSound /\ BarsAreDrawn /\ ListsApart /\ StoryStaysOnItsScreen
             /\ ParentLinkInFront

LEMMA InitPlayer == Init => PlayerInv
BY PlayerAssumption
DEF Init, PlayerInv, TypeOK, IconTellsSound, BarsAreDrawn, ListsApart,
    StoryStaysOnItsScreen, OnStory, OnLists, Front, ParentLinkInFront, PlayerAssumption, Voice, Cell

\* What plays, at what time and under which images; the links.
PlayerTyped ==
    /\ sound \in Voice \cup {None} /\ time \in {"zero", "some", "over"}
    /\ icon \in [Voice -> {"play", "stop"}]

LinksTyped == updater \in [Voice -> {"nil", "valid", "invalid"}] /\ leaked \subseteq Voice

LEMMA TypeNext == TypeOK /\ [Next]_vars => TypeOK'
<1> SUFFICES ASSUME TypeOK, [Next]_vars PROVE TypeOK'
  OBVIOUS
<1> USE DEF TypeOK, PlayerTyped, LinksTyped
<1>a. PlayerTyped /\ LinksTyped
  OBVIOUS
<1>b. StopPlayer => PlayerTyped'
  BY DEF StopPlayer
<1>c. ASSUME NEW v \in Voice PROVE StartPlayer(v) => PlayerTyped'
  BY DEF StartPlayer
<1>d. ASSUME NEW v \in Voice, updater' = Invalidated(v), UNCHANGED leaked PROVE LinksTyped'
  BY <1>d DEF Invalidated
<1>e. ASSUME NEW v \in Voice, NewUpdater(v) PROVE LinksTyped'
  BY <1>e DEF NewUpdater
<1>f. UNCHANGED <<sound, time, icon>> => PlayerTyped'
  OBVIOUS
<1>g. UNCHANGED <<updater, leaked>> => LinksTyped'
  OBVIOUS
<1>h. Cell \subseteq Voice /\ Parent \in Voice /\ Former \in Voice
  BY DEF Voice
<1>i. ASSUME PlayerTyped', LinksTyped', bar' \subseteq Voice, UNCHANGED screens,
             crashed' \in {"no", "press", "tick"}
      PROVE  TypeOK'
  BY <1>i DEF screens
<1>1. ASSUME NEW c \in Cell, PressPlay(c) PROVE TypeOK'
  <2>1. CASE PressStops(c)
    BY <1>b, <1>d, <1>h, <1>i, <2>1 DEF PressStops
  <2>2. CASE PressIgnored(c)
    BY <2>2 DEF PressIgnored, vars, screens
  <2>3. CASE PressStarts(c)
    BY <1>c, <1>e, <1>h, <1>i, <2>3 DEF PressStarts
  <2> QED
    BY <1>1, <2>1, <2>2, <2>3 DEF PressPlay
<1>2. ASSUME NEW c \in Cell, TrackAudio(c) PROVE TypeOK'
  <2>1. bar' \subseteq Voice
    BY <1>2, <1>h DEF TrackAudio
  <2>2. LinksTyped'
    BY <1>2, <1>d, <1>g, <1>h DEF TrackAudio
  <2>3. PlayerTyped'
    BY <1>2, <1>b, <1>f DEF TrackAudio
  <2> QED
    BY <1>2, <1>i, <2>1, <2>2, <2>3 DEF TrackAudio
<1>3. ASSUME NEW c \in Cell, CellForRow(c) PROVE TypeOK'
  <2>1. place' \in [Cell -> {"unused", "home", "profile", "story", "past profile", "past story"}]
    BY <1>3 DEF CellForRow, vars, screens
  <2> QED
    BY <1>3, <2>1 DEF CellForRow, vars, screens
<1>4. CASE PlayParentStops
  BY <1>b, <1>d, <1>h, <1>i, <1>4 DEF PlayParentStops
<1>5. CASE PlayParentStarts
  BY <1>c, <1>e, <1>h, <1>i, <1>5 DEF PlayParentStarts
<1>6. CASE PlayParentCrashes
  BY <1>6 DEF PlayParentCrashes, screens
<1>7. ASSUME NEW v \in {Parent, Former}, TrackParent(v) PROVE TypeOK'
  <2>1. LinksTyped' /\ PlayerTyped'
    BY <1>7, <1>b, <1>d, <1>f, <1>g, <1>h DEF TrackParent
  <2>2. bar' \subseteq Voice
    BY <1>7, <1>h DEF TrackParent
  <2> QED
    BY <1>7, <1>i, <2>1, <2>2 DEF TrackParent
<1>8. ASSUME NEW v \in {Parent, Former}, TrackParentCrashes(v) PROVE TypeOK'
  BY <1>8 DEF TrackParentCrashes, screens
<1>9. CASE OpenStory
  <2>1. PlayerTyped'
    BY <1>9, <1>b DEF OpenStory
  <2>2. LinksTyped' /\ bar' \subseteq Voice
    BY <1>9, <1>h DEF OpenStory
  <2> QED
    BY <1>9, <2>1, <2>2 DEF OpenStory
<1>10. CASE ViewWillDisappear
  <2>1. LinksTyped' /\ PlayerTyped'
    BY <1>10, <1>b, <1>d, <1>h DEF ViewWillDisappear
  <2>2. /\ opened' \subseteq {"profile", "story", "record"}
        /\ place' \in [Cell -> {"unused", "home", "profile", "story", "past profile", "past story"}]
    BY <1>10 DEF ViewWillDisappear, Closed
  <2>3. bar' \subseteq Voice /\ UNCHANGED crashed
    BY <1>10 DEF ViewWillDisappear
  <2> QED
    BY <2>1, <2>2, <2>3
<1>11. CASE LeaveProfile
  BY <1>11 DEF LeaveProfile, Closed
<1>12. CASE OpenProfile \/ RecordFromList \/ BackFromRecording
  BY <1>12 DEF OpenProfile, RecordFromList, BackFromRecording
<1>13. CASE Advances
  BY <1>13 DEF Advances, screens
<1>14. CASE UNCHANGED vars
  BY <1>14 DEF vars, screens
<1> QED
  BY <1>1, <1>2, <1>3, <1>4, <1>5, <1>6, <1>7, <1>8, <1>9, <1>10, <1>11, <1>12, <1>13, <1>14
  DEF Next

\* The image changes with the player and only then.
LEMMA IconNext == TypeOK /\ IconTellsSound /\ [Next]_vars => IconTellsSound'
<1> SUFFICES ASSUME TypeOK, IconTellsSound, [Next]_vars PROVE IconTellsSound'
  OBVIOUS
<1> USE PlayerAssumption DEF PlayerAssumption, TypeOK, IconTellsSound, Voice
<1>1. ASSUME StopPlayer PROVE IconTellsSound'
  BY <1>1 DEF StopPlayer
<1>2. ASSUME NEW v \in Voice, sound = None, StartPlayer(v) PROVE IconTellsSound'
  BY <1>2 DEF StartPlayer
<1>3. ASSUME UNCHANGED <<sound, icon>> PROVE IconTellsSound'
  BY <1>3
<1>4. ASSUME NEW c \in Cell, PressPlay(c) \/ TrackAudio(c) \/ CellForRow(c)
      PROVE  IconTellsSound'
  BY <1>1, <1>2, <1>3, <1>4
  DEF PressPlay, PressStops, PressIgnored, PressStarts, TrackAudio, CellForRow, vars
<1>5. CASE PlayParentStops \/ PlayParentStarts \/ PlayParentCrashes
  BY <1>1, <1>2, <1>3, <1>5 DEF PlayParentStops, PlayParentStarts, PlayParentCrashes
<1>6. ASSUME NEW v \in {Parent, Former}, TrackParent(v) \/ TrackParentCrashes(v)
      PROVE  IconTellsSound'
  BY <1>1, <1>3, <1>6 DEF TrackParent, TrackParentCrashes
<1>7. CASE OpenStory \/ ViewWillDisappear \/ OpenProfile \/ LeaveProfile \/ RecordFromList
           \/ BackFromRecording \/ Advances
  BY <1>1, <1>3, <1>7 DEF OpenStory, ViewWillDisappear, OpenProfile, LeaveProfile, RecordFromList,
                         BackFromRecording, Advances
<1>8. CASE UNCHANGED vars
  BY <1>3, <1>8 DEF vars
<1> QED
  BY <1>4, <1>5, <1>6, <1>7, <1>8 DEF Next

\* Whoever invalidates a link has put its bar to zero, or will be drawn by a
\* link that was leaked.
LEMMA BarsNext ==
    TypeOK /\ BarsAreDrawn /\ ParentLinkInFront /\ [Next]_vars => BarsAreDrawn'
<1> SUFFICES ASSUME TypeOK, BarsAreDrawn, ParentLinkInFront, [Next]_vars, NEW v \in bar'
             PROVE  updater'[v] = "valid" \/ v \in leaked'
  BY DEF BarsAreDrawn
<1> USE PlayerAssumption
    DEF PlayerAssumption, TypeOK, BarsAreDrawn, Voice, Invalidated, NewUpdater
<1>a. ASSUME NEW w \in Voice, v # w, v \in bar, leaked \subseteq leaked',
             NewUpdater(w) \/ updater' = Invalidated(w)
      PROVE  updater'[v] = "valid" \/ v \in leaked'
  <2>1. updater'[v] = updater[v]
    BY <1>a
  <2> QED
    BY <1>a, <2>1
<1>b. ASSUME NEW w \in Voice, NewUpdater(w) PROVE leaked \subseteq leaked'
  BY <1>b
<1> HIDE DEF Invalidated, NewUpdater
<1>1. ASSUME NEW c \in Cell, PressPlay(c) \/ CellForRow(c)
      PROVE  updater'[v] = "valid" \/ v \in leaked'
  <2>1. CASE PressStops(c)
    BY <1>a, <2>1 DEF PressStops
  <2>2. CASE PressStarts(c)
    BY <1>a, <1>b, <2>2 DEF PressStarts
  <2>3. CASE PressIgnored(c) \/ CellForRow(c)
    BY <2>3 DEF PressIgnored, CellForRow, vars
  <2> QED
    BY <1>1, <2>1, <2>2, <2>3 DEF PressPlay
<1>2. ASSUME NEW c \in Cell, TrackAudio(c)
      PROVE  updater'[v] = "valid" \/ v \in leaked'
  <2>1. CASE v = c
    BY <1>2, <2>1 DEF TrackAudio, LinkFires, Invalidated
  <2>2. CASE v # c
    <3>1. v \in bar /\ updater'[v] = updater[v]
      BY <1>2, <2>2 DEF TrackAudio, Invalidated
    <3> QED
      BY <1>2, <3>1 DEF TrackAudio
  <2> QED
    BY <2>1, <2>2
<1>3. CASE PlayParentStops \/ PlayParentStarts \/ PlayParentCrashes
  <2>1. CASE PlayParentStops
    BY <1>a, <2>1 DEF PlayParentStops
  <2>2. CASE PlayParentStarts
    BY <1>a, <1>b, <2>2 DEF PlayParentStarts
  <2>3. CASE PlayParentCrashes
    BY <2>3 DEF PlayParentCrashes
  <2> QED
    BY <1>3, <2>1, <2>2, <2>3
<1>4. ASSUME NEW p \in {Parent, Former}, TrackParent(p) \/ TrackParentCrashes(p)
      PROVE  updater'[v] = "valid" \/ v \in leaked'
  <2>1. CASE v = p
    BY <1>4, <2>1 DEF TrackParent, TrackParentCrashes, LinkFires, Invalidated
  <2>2. CASE v # p
    <3>1. v \in bar /\ updater'[v] = updater[v]
      BY <1>4, <2>2 DEF TrackParent, TrackParentCrashes, Invalidated
    <3> QED
      BY <1>4, <3>1 DEF TrackParent, TrackParentCrashes
  <2> QED
    BY <2>1, <2>2
<1>5. CASE ViewWillDisappear \/ OpenProfile \/ LeaveProfile \/ RecordFromList \/ BackFromRecording
           \/ Advances
  BY <1>5, <1>a DEF ViewWillDisappear, OpenProfile, LeaveProfile, RecordFromList, BackFromRecording,
                   Advances
<1>6. CASE OpenStory
  \* A bar of the last story screen is drawn by a link that was leaked.
  <2>1. Parent \in bar => Parent \in leaked
    BY <1>6 DEF OpenStory, ParentLinkInFront
  <2>2. v \in bar \cup {Former} /\ v # Parent
    BY <1>6 DEF OpenStory
  <2> QED
    BY <1>6, <2>1, <2>2 DEF OpenStory
<1>7. CASE UNCHANGED vars
  BY <1>7 DEF vars
<1> QED
  BY <1>1, <1>2, <1>3, <1>4, <1>5, <1>6, <1>7 DEF Next

LEMMA ScreenNext ==
    TypeOK /\ ListsApart /\ StoryStaysOnItsScreen /\ [Next]_vars
        => ListsApart' /\ StoryStaysOnItsScreen'
<1> SUFFICES ASSUME TypeOK, ListsApart, StoryStaysOnItsScreen, [Next]_vars
             PROVE  ListsApart' /\ StoryStaysOnItsScreen'
  OBVIOUS
<1> USE PlayerAssumption
    DEF PlayerAssumption, TypeOK, ListsApart, StoryStaysOnItsScreen, OnStory, OnLists, Front,
        Voice, Cell
<1>1. ASSUME UNCHANGED screens, sound' \in {sound, None}
      PROVE  ListsApart' /\ StoryStaysOnItsScreen'
  <2>1. UNCHANGED <<opened, place>>
    BY <1>1 DEF screens
  <2>2. ListsApart'
    BY <1>1, <2>1
  <2>3. CASE sound' = sound
    BY <2>1, <2>3
  <2>4. CASE sound' = None
    BY ONLY <2>2, <2>4 DEF StoryStaysOnItsScreen
  <2> QED
    BY ONLY <1>1, <2>2, <2>3, <2>4
<1>2. ASSUME NEW c \in Cell, PressStarts(c)
      PROVE  ListsApart' /\ StoryStaysOnItsScreen'
  BY <1>2 DEF PressStarts, InFront, StartPlayer, screens
<1>3. ASSUME NEW c \in Cell, PressStops(c) \/ PressIgnored(c) \/ TrackAudio(c)
      PROVE  ListsApart' /\ StoryStaysOnItsScreen'
  BY <1>1, <1>3 DEF PressStops, PressIgnored, TrackAudio, StopPlayer, vars
<1>4. ASSUME NEW c \in Cell, CellForRow(c)
      PROVE  ListsApart' /\ StoryStaysOnItsScreen'
  <2>1. CASE UNCHANGED vars
    BY <1>1, <2>1 DEF vars
  <2>2. CASE place[c] = "unused" /\ Front \in {"profile", "story"}
             /\ place' = [place EXCEPT ![c] = Front] /\ UNCHANGED <<opened, sound>>
    <3>1. ListsApart'
      BY <2>2
    <3>2. OnStory \subseteq OnStory' /\ OnLists \subseteq OnLists' /\ Front' = Front
      BY <2>2
    <3> QED
      BY <2>2, <3>1, <3>2
  <2> QED
    BY <1>4, <2>1, <2>2 DEF CellForRow
<1>5. CASE PlayParentStarts
  BY <1>5 DEF PlayParentStarts, StartPlayer, screens
<1>6. CASE PlayParentStops \/ PlayParentCrashes \/ Advances
  BY <1>1, <1>6 DEF PlayParentStops, PlayParentCrashes, Advances, StopPlayer
<1>7. ASSUME NEW v \in {Parent, Former}, TrackParent(v) \/ TrackParentCrashes(v)
       PROVE  ListsApart' /\ StoryStaysOnItsScreen'
  BY <1>1, <1>7 DEF TrackParent, TrackParentCrashes, StopPlayer
<1>8. CASE OpenProfile
  BY <1>8 DEF OpenProfile
<1>9. CASE LeaveProfile
  BY <1>9 DEF LeaveProfile, Closed
<1>10. CASE OpenStory
  BY <1>10 DEF OpenStory, StopPlayer
<1>11. CASE ViewWillDisappear
  BY <1>11 DEF ViewWillDisappear, Closed, StopPlayer
<1>12. CASE RecordFromList
  BY <1>12 DEF RecordFromList
<1>13. CASE BackFromRecording
  BY <1>13 DEF BackFromRecording
<1>14. CASE UNCHANGED vars
  BY <1>1, <1>14 DEF vars
<1> QED
  BY <1>2, <1>3, <1>4, <1>5, <1>6, <1>10, <1>11, <1>12, <1>13, <1>14,
     <1>7, <1>8, <1>9 DEF Next, PressPlay

LEMMA ParentLinkNext == TypeOK /\ ParentLinkInFront /\ [Next]_vars => ParentLinkInFront'
<1> SUFFICES ASSUME TypeOK, ParentLinkInFront, [Next]_vars PROVE ParentLinkInFront'
  OBVIOUS
<1> USE PlayerAssumption
    DEF PlayerAssumption, TypeOK, ParentLinkInFront, Front, Voice, Invalidated, NewUpdater, screens
<1>1. ASSUME NEW c \in Cell, PressPlay(c) \/ TrackAudio(c) \/ CellForRow(c)
      PROVE  ParentLinkInFront'
  BY <1>1 DEF PressPlay, PressStops, PressIgnored, PressStarts, TrackAudio, CellForRow, vars
<1>2. CASE PlayParentStops \/ PlayParentStarts \/ PlayParentCrashes
  BY <1>2 DEF PlayParentStops, PlayParentStarts, PlayParentCrashes
<1>3. ASSUME NEW v \in {Parent, Former}, TrackParent(v) \/ TrackParentCrashes(v)
      PROVE  ParentLinkInFront'
  BY <1>3 DEF TrackParent, TrackParentCrashes
<1>4. CASE OpenStory \/ ViewWillDisappear
  BY <1>4 DEF OpenStory, ViewWillDisappear
<1>5. CASE OpenProfile \/ LeaveProfile \/ RecordFromList \/ BackFromRecording \/ Advances
  BY <1>5 DEF OpenProfile, LeaveProfile, RecordFromList, BackFromRecording, Advances
<1>6. CASE UNCHANGED vars
  BY <1>6 DEF vars
<1> QED
  BY <1>1, <1>2, <1>3, <1>4, <1>5, <1>6 DEF Next

LEMMA NextPlayer == PlayerInv /\ [Next]_vars => PlayerInv'
BY TypeNext, IconNext, BarsNext, ScreenNext, ParentLinkNext DEF PlayerInv

(* For any number of cells, the only button that offers to stop is that of *)
(* the story that plays.                                                   *)
THEOREM IconSafety == Spec => []IconTellsSound
<1>1. PlayerInv => IconTellsSound
  BY DEF PlayerInv
<1> QED
  BY <1>1, InitPlayer, NextPlayer, PTL DEF Spec

(* For any number of cells, no bar is left standing without a link.        *)
THEOREM BarSafety == Spec => []BarsAreDrawn
<1>1. PlayerInv => BarsAreDrawn
  BY DEF PlayerInv
<1> QED
  BY <1>1, InitPlayer, NextPlayer, PTL DEF Spec

(* For any number of cells, what the story screen plays is heard on it     *)
(* alone.                                                                  *)
THEOREM ScreenSafety == Spec => []StoryStaysOnItsScreen
<1>1. PlayerInv => StoryStaysOnItsScreen
  BY DEF PlayerInv
<1> QED
  BY <1>1, InitPlayer, NextPlayer, PTL DEF Spec

(* Every variable keeps its type, for any number of cells; no cell is ever *)
(* made for the recording screen.                                          *)
THEOREM PlayerTypes == Spec => []TypeOK
<1>1. PlayerInv => TypeOK
  BY DEF PlayerInv
<1> QED
  BY <1>1, InitPlayer, NextPlayer, PTL DEF Spec

-----------------------------------------------------------------------------
(* Where a nil is unwrapped *)

\* A cell's updater is never nil again once the cell has played.
CellPlayed == \E c \in Cell : updater[c] # "nil"

\* What a crash needs: a reply that plays on a story screen whose story has not
\* been played there, or a cell that has played.
CrashesNeedCells ==
    /\ crashed = "press" => sound \in LaterCell /\ place[sound] = "story" /\ updater[Parent] = "nil"
    /\ crashed = "tick"  => sound = None /\ CellPlayed

\* As long as no cell has played, the parent's link is there only while the
\* parent plays, and no story screen has leaked one.
ParentAlone ==
    /\ sound = Parent => updater[Parent] # "nil"
    /\ \A c \in Cell : c \in leaked => updater[c] # "nil"
    /\ \/ CellPlayed
       \/ {Parent, Former} \cap leaked = {} /\ (updater[Parent] = "valid" => sound = Parent)
    /\ updater[Former] # "valid"

CrashInv == PlayerInv /\ ParentAlone /\ CrashesNeedCells

LEMMA InitCrash == Init => CrashInv
BY InitPlayer, PlayerAssumption
DEF Init, CrashInv, ParentAlone, CrashesNeedCells, PlayerAssumption, Voice, Cell

\* The links are made and invalidated by their own voice, but the sound may be
\* stopped by any cell that has played.
LEMMA AloneNext == TypeOK /\ ParentAlone /\ [Next]_vars => ParentAlone'
<1> SUFFICES ASSUME TypeOK, ParentAlone, [Next]_vars PROVE ParentAlone'
  OBVIOUS
<1> USE PlayerAssumption
    DEF PlayerAssumption, TypeOK, ParentAlone, CellPlayed, Voice, Invalidated, NewUpdater
<1>a. ASSUME NEW w \in {Parent, Former}, updater' = Invalidated(w) \/ UNCHANGED updater
      PROVE  /\ \A c \in Cell : updater'[c] = updater[c]
             /\ updater[Parent] # "nil" => updater'[Parent] # "nil"
             /\ updater'[Former] # "valid"
  <2>1. CASE UNCHANGED updater
    BY <2>1
  <2>2. CASE updater' = Invalidated(w)
    <3>1. \A v \in Voice : updater'[v] = IF v = w /\ updater[v] = "valid" THEN "invalid"
                                       ELSE updater[v]
      BY <2>2
    <3>2. \A c \in Cell : c \in Voice /\ c # w
      OBVIOUS
    <3>3. \A c \in Cell : updater'[c] = updater[c]
      BY ONLY <3>1, <3>2
    <3>4. Parent \in Voice /\ Former \in Voice
      OBVIOUS
    <3> QED
      BY ONLY <3>1, <3>3, <3>4, ParentAlone DEF ParentAlone
  <2> QED
    BY <1>a, <2>1, <2>2
<1>1. ASSUME NEW c \in Cell, PressStarts(c) PROVE ParentAlone'
  <2>1. updater'[c] = "valid"
    BY <1>1 DEF PressStarts
  <2> QED
    BY <1>1, <2>1 DEF PressStarts, StartPlayer
<1>2. ASSUME NEW c \in Cell, PressStops(c) PROVE ParentAlone'
  <2>1. updater'[c] # "nil"
    BY <1>2 DEF PressStops
  <2> QED
    BY <1>2, <2>1 DEF PressStops, StopPlayer
<1>3. ASSUME NEW c \in Cell, TrackAudio(c) PROVE ParentAlone'
  <2>1. updater[c] # "nil" /\ updater'[c] # "nil"
    BY <1>3 DEF TrackAudio, LinkFires
  <2>2. \A v \in Voice : updater[v] # "nil" => updater'[v] # "nil"
    BY <1>3 DEF TrackAudio
  <2>3. sound' \in {sound, None} /\ leaked' = leaked
    BY <1>3 DEF TrackAudio, StopPlayer
  <2>4. updater'[Former] # "valid" /\ CellPlayed'
    BY <1>3, <2>1 DEF TrackAudio
  <2> QED
    BY <2>2, <2>3, <2>4
<1>4. ASSUME NEW c \in Cell, PressIgnored(c) \/ CellForRow(c) PROVE ParentAlone'
  BY <1>4 DEF PressIgnored, CellForRow, vars
<1>5. CASE PlayParentStops \/ ViewWillDisappear
  <2>1. /\ updater' = Invalidated(Parent) /\ UNCHANGED leaked
        /\ sound' = None /\ updater'[Parent] # "valid"
    BY <1>5 DEF PlayParentStops, ViewWillDisappear, StopPlayer
  <2>2. \A c \in Cell : updater'[c] = updater[c]
    BY <1>a, <2>1
  <2>3. updater'[Former] # "valid"
    BY <1>a, <2>1
  <2> QED
    BY ONLY <2>1, <2>2, <2>3, ParentAlone, PlayerAssumption
    DEF ParentAlone, CellPlayed, PlayerAssumption, Voice
<1>6. CASE PlayParentStarts
  <2>1. sound = None /\ sound' = Parent /\ updater'[Parent] = "valid"
    BY <1>6 DEF PlayParentStarts, StartPlayer
  <2>2. \A v \in Cell \cup {Former} :
          updater'[v] = updater[v] /\ (v \in leaked' => v \in leaked)
    BY <1>6 DEF PlayParentStarts
  <2>3. updater[Parent] = "valid" => CellPlayed
    BY <2>1
  <2>4. Parent \in leaked' => Parent \in leaked \/ updater[Parent] = "valid"
    BY <1>6 DEF PlayParentStarts
  <2>5. CellPlayed => CellPlayed'
    BY ONLY <2>2 DEF CellPlayed
  <2> QED
    BY ONLY <2>1, <2>2, <2>3, <2>4, <2>5, ParentAlone DEF ParentAlone
<1>7. ASSUME NEW v \in {Parent, Former}, TrackParent(v) PROVE ParentAlone'
  <2>1. UNCHANGED leaked /\ sound' \in {sound, None}
    BY <1>7 DEF TrackParent, StopPlayer
  <2>2. UNCHANGED updater \/ updater' = Invalidated(v)
    BY <1>7 DEF TrackParent
  <2>3. /\ \A w \in Cell : updater'[w] = updater[w]
        /\ updater[Parent] # "nil" => updater'[Parent] # "nil"
        /\ updater'[Former] # "valid"
    BY <2>2, <1>a
  <2>4. ASSUME ~CellPlayed
        PROVE  /\ {Parent, Former} \cap leaked = {}
               /\ updater'[Parent] = "valid" => sound = Parent /\ sound' = Parent
    <3>1. v = Parent /\ updater[Parent] = "valid" /\ sound = Parent
      BY <1>7, <2>4 DEF TrackParent, LinkFires
    <3> QED
      BY <1>7, <2>4, <3>1 DEF TrackParent, StopPlayer
  <2>5. CellPlayed => CellPlayed'
    BY ONLY <2>3 DEF CellPlayed
  <2>6. sound' = Parent => updater'[Parent] # "nil"
    BY ONLY <2>1, <2>3, ParentAlone, PlayerAssumption DEF ParentAlone, PlayerAssumption, Voice
  <2>7. \A c \in Cell : c \in leaked' => updater'[c] # "nil"
    BY ONLY <2>1, <2>3, ParentAlone DEF ParentAlone
  <2> QED
    BY ONLY <2>1, <2>4, <2>5, <2>6, <2>7, <2>3 DEF ParentAlone
<1>8. CASE OpenStory
  <2>1. /\ sound' = None /\ updater'[Parent] = "nil" /\ updater'[Former] # "valid"
        /\ leaked' \in {leaked, (leaked \ {Parent}) \cup {Former}}
        /\ Parent \notin leaked => leaked' = leaked
    BY <1>8 DEF OpenStory, StopPlayer
  <2>2. \A c \in Cell : updater'[c] = updater[c] /\ (c \in leaked' => c \in leaked)
    BY <1>8 DEF OpenStory
  <2>3. CellPlayed => CellPlayed'
    BY <2>2
  <2>4. \A c \in Cell : c \in leaked' => updater'[c] # "nil"
    BY <2>2
  <2> HIDE DEF TypeOK, CellPlayed, Invalidated, NewUpdater
  <2> QED
    BY <2>1, <2>3, <2>4
<1>9. CASE \/ PlayParentCrashes \/ \E v \in {Parent, Former} : TrackParentCrashes(v)
           \/ OpenProfile \/ LeaveProfile \/ RecordFromList \/ BackFromRecording \/ Advances
  BY <1>9 DEF PlayParentCrashes, TrackParentCrashes, OpenProfile, LeaveProfile, RecordFromList,
              BackFromRecording, Advances
<1>10. CASE UNCHANGED vars
  BY <1>10 DEF vars
<1> QED
  BY <1>1, <1>2, <1>3, <1>4, <1>5, <1>6, <1>7, <1>8, <1>9, <1>10 DEF Next, PressPlay

\* A crash ends the behaviour, so what it needed stays as it was.
LEMMA CrashNext ==
    ASSUME PlayerInv, ParentAlone, CrashesNeedCells, [Next]_vars
    PROVE  CrashesNeedCells'
<1> USE DEF CrashesNeedCells, CellPlayed
<1>1. CASE PlayParentCrashes
  <2>1. sound \in Voice /\ sound # Parent
    BY <1>1 DEF PlayParentCrashes, PlayerInv, TypeOK, ParentAlone
  <2>2. sound \in LaterCell /\ place[sound] = "story"
    BY <1>1, <2>1 DEF PlayParentCrashes, PlayerInv, ListsApart, StoryStaysOnItsScreen, OnStory, Cell
  <2> QED
    BY <1>1, <2>2 DEF PlayParentCrashes, screens
<1>2. ASSUME NEW v \in {Parent, Former}, TrackParentCrashes(v) PROVE CrashesNeedCells'
  <2>1. CellPlayed
    BY <1>2, PlayerAssumption
    DEF TrackParentCrashes, LinkFires, ParentAlone, PlayerAssumption, Voice
  <2> QED
    BY <1>2, <2>1 DEF TrackParentCrashes, screens
<1>3. ASSUME crashed = "no", crashed' = "no" PROVE CrashesNeedCells'
  BY <1>3
<1>4. ASSUME NEW c \in Cell, PressPlay(c) \/ TrackAudio(c) \/ CellForRow(c)
      PROVE  CrashesNeedCells'
  BY <1>3, <1>4 DEF PressPlay, PressStops, PressIgnored, PressStarts, TrackAudio, CellForRow,
                   InFront, LinkFires, vars
<1>5. CASE PlayParentStops \/ PlayParentStarts \/ \E v \in {Parent, Former} : TrackParent(v)
  BY <1>3, <1>5 DEF PlayParentStops, PlayParentStarts, TrackParent, LinkFires
<1>6. CASE OpenStory \/ ViewWillDisappear \/ OpenProfile \/ LeaveProfile \/ RecordFromList
           \/ BackFromRecording \/ Advances
  BY <1>3, <1>6 DEF OpenStory, ViewWillDisappear, OpenProfile, LeaveProfile, RecordFromList,
                   BackFromRecording, Advances
<1>7. CASE UNCHANGED vars
  BY <1>7 DEF vars, screens
<1> QED
  BY <1>1, <1>2, <1>4, <1>5, <1>6, <1>7 DEF Next

(* How far the story screen is from unwrapping a nil, which the run        *)
(* player_nil finds: a press of the parent's button does so only while a   *)
(* reply plays and the parent has not played on this screen; a tick of its *)
(* link only in silence and once a cell, of either list, has played.  For  *)
(* any number of cells: the parent alone never does.                       *)
THEOREM CrashSafety == Spec => []CrashesNeedCells
<1>1. CrashInv /\ [Next]_vars => CrashInv'
  BY NextPlayer, AloneNext, CrashNext DEF CrashInv, PlayerInv
<1>2. CrashInv => CrashesNeedCells
  BY DEF CrashInv
<1> QED
  BY <1>1, <1>2, InitCrash, PTL DEF Spec

=============================================================================
