---------------------------- MODULE PlayAllProofs ----------------------------
EXTENDS PlayAll, FiniteSetTheorems, TLAPS

\* Some pass is still to lower the flag, or to restore the title.
FlagHasOwner == audioPlaying => \E t \in Pass : pc[t] \in Steps
TitleHasOwner ==
    title = "Stop All" => titles > 0 \/ \E t \in Pass : pc[t] \in Steps \ {"clear"}

PlayAllInv == TypeOK /\ SoundHasOwner /\ FlagHasOwner /\ TitleHasOwner

LEMMA EnoughNat == Enough \in Nat
<1>1. Cardinality(Pass) \in Nat
  BY PlayAllAssumption, FS_CardinalityType DEF PlayAllAssumption
<1> QED
  BY <1>1, PlayAllAssumption DEF PlayAllAssumption, Enough

LEMMA InitPlayAll == Init => PlayAllInv
<1> SUFFICES ASSUME Init PROVE PlayAllInv
  OBVIOUS
<1>1. FlagsOK
  BY DEF Init, FlagsOK
<1>2. PlayersOK
  BY DEF Init, PlayersOK
<1>3. StepsOK
  BY DEF Init, StepsOK
<1>4. 1 \in Player /\ 0 \in 0..Enough
  BY EnoughNat, PlayAllAssumption DEF Player, PlayAllAssumption
<1>5. CountsOK
  BY <1>4 DEF Init, CountsOK
<1>6. SoundHasOwner
  BY DEF Init, SoundHasOwner
<1>7. FlagHasOwner /\ TitleHasOwner
  BY DEF Init, FlagHasOwner, TitleHasOwner
<1> QED
  BY <1>1, <1>2, <1>3, <1>5, <1>6, <1>7 DEF PlayAllInv, TypeOK

LEMMA FlagsNext == TypeOK /\ [Next]_vars => FlagsOK'
<1> SUFFICES ASSUME FlagsOK, [Next]_vars PROVE FlagsOK'
  BY DEF TypeOK
<1> USE DEF FlagsOK
<1>1. ASSUME NEW t \in Pass, Measure(t) PROVE FlagsOK'
  <2>1. (at[t] \in ready /\ position[at[t]] # "over") \in BOOLEAN
    OBVIOUS
  <2> QED
    BY <1>1, <2>1 DEF Measure, screen
<1>2. ASSUME NEW t \in Pass, Poll(t) PROVE FlagsOK'
  <2>1. (position[at[t]] # "over") \in BOOLEAN
    OBVIOUS
  <2> QED
    BY <1>2, <2>1 DEF Poll, screen
<1>3. ASSUME NEW t \in Pass,
             \/ List(t) \/ Play(t) \/ Test(t) \/ After(t) \/ Seek(t) \/ Pause(t)
             \/ Wait(t) \/ PostTitle(t)
      PROVE  FlagsOK'
  BY <1>3 DEF List, Play, Test, After, Seek, Pause, Wait, PostTitle, screen, local
<1>4. ASSUME NEW t \in Pass, Clear(t) \/ PressPlay(t) PROVE FlagsOK'
  BY <1>4 DEF Clear, PressPlay, screen, local
<1>5. CASE PressStop \/ ViewWillDisappear \/ ViewAppears \/ TitleBlock \/ ChildAdded
  BY <1>5 DEF PressStop, ViewWillDisappear, ViewAppears, TitleBlock, ChildAdded, screen, local
<1>6. ASSUME NEW p \in Player, BecomesReady(p) \/ Advances(p) PROVE FlagsOK'
  BY <1>6 DEF BecomesReady, Advances, screen, local
<1>7. CASE UNCHANGED vars
  BY <1>7 DEF vars, screen, local
<1> QED
  BY <1>1, <1>2, <1>3, <1>4, <1>5, <1>6, <1>7 DEF Next, Step

LEMMA PlayersNext == TypeOK /\ [Next]_vars => PlayersOK'
<1> SUFFICES ASSUME PlayersOK, [Next]_vars PROVE PlayersOK'
  BY DEF TypeOK
<1> USE DEF PlayersOK
<1>1. ASSUME NEW t \in Pass, Play(t) PROVE PlayersOK'
  <2>1. (position[at[t]] \in {"begin", "middle"}) \in BOOLEAN
    OBVIOUS
  <2> QED
    BY <1>1, <2>1 DEF Play
<1>2. ASSUME NEW t \in Pass, Seek(t) \/ Pause(t) PROVE PlayersOK'
  BY <1>2 DEF Seek, Pause
<1>3. ASSUME NEW t \in Pass,
             \/ List(t) \/ Measure(t) \/ Test(t) \/ Poll(t) \/ After(t)
             \/ Wait(t) \/ PostTitle(t) \/ Clear(t) \/ PressPlay(t)
      PROVE  PlayersOK'
  BY <1>3 DEF List, Measure, Test, Poll, After, Wait, PostTitle, Clear, PressPlay, sound
<1>4. CASE PressStop \/ ViewWillDisappear \/ ViewAppears \/ TitleBlock \/ ChildAdded
  BY <1>4 DEF PressStop, ViewWillDisappear, ViewAppears, TitleBlock, ChildAdded, sound
<1>5. ASSUME NEW p \in Player, BecomesReady(p) PROVE PlayersOK'
  BY <1>5 DEF BecomesReady
<1>6. ASSUME NEW p \in Player, Advances(p) PROVE PlayersOK'
  BY <1>6 DEF Advances
<1>7. CASE UNCHANGED vars
  BY <1>7 DEF vars, sound
<1> QED
  BY <1>1, <1>2, <1>3, <1>4, <1>5, <1>6, <1>7 DEF Next, Step

LEMMA StepsNext == TypeOK /\ [Next]_vars => StepsOK'
<1> SUFFICES ASSUME StepsOK, [Next]_vars PROVE StepsOK'
  BY DEF TypeOK
<1>1. ASSUME NEW t \in Pass, NEW from, NEW to \in Steps \cup {"done"}, Goes(t, from, to)
      PROVE  StepsOK'
  BY <1>1 DEF Goes, StepsOK
<1>2. ASSUME NEW t \in Pass, Step(t) \/ PressPlay(t) PROVE StepsOK'
  <2>1. \E from, to : to \in Steps \cup {"done"} /\ Goes(t, from, to)
    BY <1>2 DEF Step, List, Play, Measure, Test, Poll, After, Seek, Pause, Wait, PostTitle,
                Clear, PressPlay, Steps
  <2> QED
    BY <1>1, <2>1
<1>3. ASSUME UNCHANGED pc PROVE StepsOK'
  BY <1>3 DEF StepsOK
<1>4. CASE PressStop \/ ViewWillDisappear \/ ViewAppears \/ TitleBlock \/ ChildAdded
  BY <1>3, <1>4 DEF PressStop, ViewWillDisappear, ViewAppears, TitleBlock, ChildAdded
<1>5. ASSUME NEW p \in Player, BecomesReady(p) \/ Advances(p) PROVE StepsOK'
  BY <1>3, <1>5 DEF BecomesReady, Advances
<1> QED
  BY <1>2, <1>3, <1>4, <1>5 DEF Next, vars

LEMMA CountsNext == TypeOK /\ [Next]_vars => CountsOK'
<1> SUFFICES ASSUME CountsOK, [Next]_vars PROVE CountsOK'
  BY DEF TypeOK
<1> USE DEF CountsOK
<1>1. Signal => semaphore' \in 0..Enough
  BY EnoughNat DEF Signal
<1>2. ASSUME NEW t \in Pass, Poll(t) \/ After(t) PROVE CountsOK'
  BY <1>1, <1>2 DEF Poll, After, local, sound, screen
<1>3. ASSUME NEW t \in Pass, Wait(t) PROVE CountsOK'
  <2>1. semaphore' \in 0..Enough
    BY <1>3, EnoughNat DEF Wait
  <2>2. at[t] < last[t] => at[t] + 1 \in Player
    BY PlayAllAssumption DEF Player, PlayAllAssumption
  <2>3. at' \in [Pass -> Player]
    BY <1>3, <2>2 DEF Wait
  <2> QED
    BY <1>3, <2>1, <2>3 DEF Wait, sound, screen
<1>4. ASSUME NEW t \in Pass, List(t) PROVE CountsOK'
  <2>1. 1 \in Player
    BY PlayAllAssumption DEF Player, PlayAllAssumption
  <2> QED
    BY <1>4, <2>1 DEF List, sound, screen
<1>5. ASSUME NEW t \in Pass, PostTitle(t) PROVE CountsOK'
  <2>1. titles' = titles + 1
    BY <1>5 DEF PostTitle
  <2>2. titles' \in Nat
    BY <2>1
  <2> QED
    BY <1>5, <2>2 DEF PostTitle, local, sound
<1>6. ASSUME NEW t \in Pass,
             Play(t) \/ Measure(t) \/ Test(t) \/ Seek(t) \/ Pause(t) \/ Clear(t) \/ PressPlay(t)
      PROVE  CountsOK'
  BY <1>6 DEF Play, Measure, Test, Seek, Pause, Clear, PressPlay, local, sound, screen
<1>7. CASE TitleBlock
  <2>1. titles' = titles - 1 /\ titles > 0
    BY <1>7 DEF TitleBlock
  <2>2. titles' \in Nat
    BY <2>1
  <2> QED
    BY <1>7, <2>2 DEF TitleBlock, local, sound
<1>8. CASE ChildAdded
  <2>1. listed' \in Player
    BY <1>8, PlayAllAssumption DEF ChildAdded, Player, PlayAllAssumption
  <2> QED
    BY <1>8, <2>1 DEF ChildAdded, local, screen
<1>9. CASE PressStop \/ ViewWillDisappear \/ ViewAppears
  BY <1>9 DEF PressStop, ViewWillDisappear, ViewAppears, local, sound
<1>10. ASSUME NEW p \in Player, BecomesReady(p) \/ Advances(p) PROVE CountsOK'
  BY <1>10 DEF BecomesReady, Advances, local, screen
<1>11. CASE UNCHANGED vars
  BY <1>11 DEF vars, local, sound, screen
<1> QED
  BY <1>2, <1>3, <1>4, <1>5, <1>6, <1>7, <1>8, <1>9, <1>10, <1>11 DEF Next, Step

LEMMA TypeNext == TypeOK /\ [Next]_vars => TypeOK'
BY FlagsNext, PlayersNext, StepsNext, CountsNext DEF TypeOK

\* A pass moves on; the others stay where they are.
LEMMA OwnerNext == TypeOK /\ SoundHasOwner /\ [Next]_vars => SoundHasOwner'
<1> SUFFICES ASSUME PlayersOK, StepsOK, CountsOK, SoundHasOwner, [Next]_vars,
                    NEW p \in Player, rate'[p]
             PROVE  \E t \in Pass : at'[t] = p /\ pc'[t] \in Playing
  BY DEF SoundHasOwner, TypeOK
<1> USE DEF Playing, PlayersOK, StepsOK, CountsOK
<1>1. ASSUME UNCHANGED at, rate[p],
             \A t \in Pass : pc[t] \in Playing => pc'[t] \in Playing
      PROVE  \E t \in Pass : at'[t] = p /\ pc'[t] \in Playing
  BY <1>1 DEF SoundHasOwner
<1>2. ASSUME NEW t \in Pass, Step(t)
      PROVE  \E u \in Pass : at'[u] = p /\ pc'[u] \in Playing
  <2>1. CASE Play(t)
    <3>1. CASE p = at[t]
      BY <2>1, <3>1 DEF Play, Goes, local
    <3>2. CASE p # at[t]
      <4>1. rate[p] /\ UNCHANGED at
        BY <2>1, <3>2 DEF Play, local
      <4>2. \A u \in Pass : pc[u] \in Playing => pc'[u] \in Playing
        BY <2>1 DEF Play, Goes
      <4> QED
        BY <1>1, <4>1, <4>2
    <3> QED
      BY <3>1, <3>2
  <2>2. CASE Pause(t)
    <3>1. p # at[t] /\ rate[p] /\ UNCHANGED at
      BY <2>2 DEF Pause, local
    <3>2. PICK u \in Pass : at[u] = p /\ pc[u] \in Playing
      BY <3>1 DEF SoundHasOwner
    <3> QED
      BY <2>2, <3>1, <3>2 DEF Pause, Goes
  <2>3. CASE Measure(t) \/ Poll(t) \/ After(t) \/ Seek(t) \/ Test(t)
    <3>1. rate[p] /\ UNCHANGED at
      BY <2>3 DEF Measure, Poll, After, Seek, Test, sound, local
    <3>2. \A u \in Pass : pc[u] \in Playing => pc'[u] \in Playing
      BY <2>3 DEF Measure, Poll, After, Seek, Test, Goes
    <3> QED
      BY <1>1, <3>1, <3>2
  <2>4. CASE List(t) \/ Wait(t) \/ PostTitle(t) \/ Clear(t)
    <3>1. rate[p]
      BY <2>4 DEF List, Wait, PostTitle, Clear, sound
    <3>2. PICK u \in Pass : at[u] = p /\ pc[u] \in Playing
      BY <3>1 DEF SoundHasOwner
    <3>3. u # t
      BY <2>4, <3>2 DEF List, Wait, PostTitle, Clear, Goes
    <3>4. at'[u] = at[u] /\ pc'[u] = pc[u]
      BY <2>4, <3>3 DEF List, Wait, PostTitle, Clear, Goes, local
    <3> QED
      BY <3>2, <3>4
  <2> QED
    BY <1>2, <2>1, <2>2, <2>3, <2>4 DEF Step
<1>3. ASSUME NEW t \in Pass, PressPlay(t)
      PROVE  \E u \in Pass : at'[u] = p /\ pc'[u] \in Playing
  BY <1>1, <1>3 DEF PressPlay, Goes, local, sound
<1>4. CASE PressStop \/ ViewWillDisappear \/ ViewAppears \/ TitleBlock \/ ChildAdded
  BY <1>1, <1>4 DEF PressStop, ViewWillDisappear, ViewAppears, TitleBlock, ChildAdded,
                   local, sound
<1>5. ASSUME NEW q \in Player, BecomesReady(q) \/ Advances(q)
      PROVE  \E u \in Pass : at'[u] = p /\ pc'[u] \in Playing
  <2>1. rate[p] /\ UNCHANGED <<at, pc>>
    BY <1>5 DEF BecomesReady, Advances, local
  <2> QED
    BY <1>1, <2>1
<1>6. CASE UNCHANGED vars
  BY <1>1, <1>6 DEF vars, local, sound
<1> QED
  BY <1>2, <1>3, <1>4, <1>5, <1>6 DEF Next

LEMMA FlagOwnerNext == StepsOK /\ FlagHasOwner /\ [Next]_vars => FlagHasOwner'
<1> SUFFICES ASSUME StepsOK, FlagHasOwner, [Next]_vars, audioPlaying'
             PROVE  \E t \in Pass : pc'[t] \in Steps
  BY DEF FlagHasOwner
<1> USE DEF StepsOK, Steps
<1>1. ASSUME NEW t \in Pass, PressPlay(t) PROVE pc'[t] \in Steps
  BY <1>1 DEF PressPlay, Goes
<1>2. ASSUME NEW t \in Pass, Step(t), ~Clear(t) PROVE pc'[t] \in Steps
  BY <1>2 DEF Step, List, Play, Measure, Test, Poll, After, Seek, Pause, Wait, PostTitle, Goes
<1>3. ASSUME NEW t \in Pass, Clear(t) PROVE FALSE
  BY <1>3 DEF Clear
<1>4. ASSUME UNCHANGED <<pc, audioPlaying>> PROVE \E t \in Pass : pc'[t] \in Steps
  BY <1>4 DEF FlagHasOwner
<1>5. CASE PressStop \/ ViewWillDisappear
  BY <1>5 DEF PressStop, ViewWillDisappear
<1>6. CASE ViewAppears \/ TitleBlock \/ ChildAdded
  BY <1>4, <1>6 DEF ViewAppears, TitleBlock, ChildAdded
<1>7. ASSUME NEW p \in Player, BecomesReady(p) \/ Advances(p) PROVE UNCHANGED <<pc, audioPlaying>>
  BY <1>7 DEF BecomesReady, Advances
<1> QED
  BY <1>1, <1>2, <1>3, <1>4, <1>5, <1>6, <1>7 DEF Next, vars

LEMMA TitleOwnerNext == StepsOK /\ titles \in Nat /\ TitleHasOwner /\ [Next]_vars => TitleHasOwner'
<1> SUFFICES ASSUME StepsOK, titles \in Nat, TitleHasOwner, [Next]_vars, title' = "Stop All"
             PROVE  titles' > 0 \/ \E t \in Pass : pc'[t] \in Steps \ {"clear"}
  BY DEF TitleHasOwner
<1> USE DEF StepsOK, Steps
<1>1. ASSUME NEW t \in Pass, PressPlay(t) PROVE pc'[t] \in Steps \ {"clear"}
  BY <1>1 DEF PressPlay, Goes
<1>2. ASSUME NEW t \in Pass, Step(t), ~Clear(t), ~PostTitle(t)
      PROVE  pc'[t] \in Steps \ {"clear"}
  BY <1>2 DEF Step, List, Play, Measure, Test, Poll, After, Seek, Pause, Wait, Goes
<1>3. ASSUME NEW t \in Pass, PostTitle(t) PROVE titles' > 0
  <2>1. titles' = titles + 1
    BY <1>3 DEF PostTitle
  <2>2. titles \in Nat
    OBVIOUS
  <2> QED
    BY ONLY <2>1, <2>2
<1>4. ASSUME UNCHANGED <<title, titles>>,
             \A u \in Pass : pc[u] \in Steps \ {"clear"} => pc'[u] = pc[u]
      PROVE  titles' > 0 \/ \E t \in Pass : pc'[t] \in Steps \ {"clear"}
  BY <1>4 DEF TitleHasOwner
<1>5. ASSUME NEW t \in Pass, Clear(t)
      PROVE  titles' > 0 \/ \E u \in Pass : pc'[u] \in Steps \ {"clear"}
  <2>1. \A u \in Pass : pc[u] \in Steps \ {"clear"} => pc'[u] = pc[u]
    BY <1>5 DEF Clear, Goes
  <2> QED
    BY <1>4, <1>5, <2>1 DEF Clear, screen
<1>6. CASE PressStop \/ TitleBlock
  BY <1>6 DEF PressStop, TitleBlock
<1>7. CASE ViewWillDisappear \/ ViewAppears \/ ChildAdded
  BY <1>4, <1>7 DEF ViewWillDisappear, ViewAppears, ChildAdded, screen
<1>8. ASSUME NEW p \in Player, BecomesReady(p) \/ Advances(p)
      PROVE  UNCHANGED <<pc, title, titles>>
  BY <1>8 DEF BecomesReady, Advances, screen
<1>9. CASE UNCHANGED vars
  BY <1>4, <1>9 DEF vars, screen
<1> QED
  BY <1>1, <1>2, <1>3, <1>4, <1>5, <1>6, <1>7, <1>8, <1>9 DEF Next

LEMMA NextPlayAll == PlayAllInv /\ [Next]_vars => PlayAllInv'
BY TypeNext, OwnerNext, FlagOwnerNext, TitleOwnerNext DEF PlayAllInv, TypeOK, CountsOK

(* However many passes overlap on however many stories, none plays on that *)
(* no pass is going to pause.                                              *)
THEOREM OwnerSafety == Spec => []SoundHasOwner
<1>1. PlayAllInv => SoundHasOwner
  BY DEF PlayAllInv
<1> QED
  BY <1>1, InitPlayAll, NextPlayAll, PTL DEF Spec

(* However passes overlap, the button and the flag end up ready for the    *)
(* next press.                                                             *)
THEOREM RestSafety == Spec => []RestsReady
<1>1. PlayAllInv => RestsReady
  <2> SUFFICES ASSUME PlayAllInv, titles = 0, \A t \in Pass : pc[t] \in {"unused", "done"}
               PROVE  title = "Play All" /\ ~audioPlaying
    BY DEF RestsReady
  <2>1. ~\E t \in Pass : pc[t] \in Steps
    BY DEF Steps
  <2>2. ~audioPlaying
    BY <2>1 DEF PlayAllInv, FlagHasOwner
  <2>3. ~(titles > 0)
    OBVIOUS
  <2>4. title # "Stop All"
    BY <2>1, <2>3 DEF PlayAllInv, TitleHasOwner
  <2> QED
    BY <2>2, <2>4 DEF PlayAllInv, TypeOK, FlagsOK
<1> QED
  BY <1>1, InitPlayAll, NextPlayAll, PTL DEF Spec

(* Every variable keeps its type, for any number of passes and stories; no *)
(* wait finds the semaphore below zero.                                    *)
THEOREM PassTypes == Spec => []TypeOK
<1>1. PlayAllInv => TypeOK
  BY DEF PlayAllInv
<1> QED
  BY <1>1, InitPlayAll, NextPlayAll, PTL DEF Spec

-----------------------------------------------------------------------------
(* A pass that is stopped runs out *)

\* The steps a pass has left once the flag is down: eight for a player, one to
\* take the list and two to end.
Left(t) ==
    CASE pc[t] = "list"    -> 8 * MaxPlayer + 3
      [] pc[t] = "play"    -> 8 * (last[t] - at[t]) + 10
      [] pc[t] = "measure" -> 8 * (last[t] - at[t]) + 9
      [] pc[t] = "poll"    -> 8 * (last[t] - at[t]) + 8
      [] pc[t] = "test"    -> 8 * (last[t] - at[t]) + 7
      [] pc[t] = "after"   -> 8 * (last[t] - at[t]) + 6
      [] pc[t] = "seek"    -> 8 * (last[t] - at[t]) + 5
      [] pc[t] = "pause"   -> 8 * (last[t] - at[t]) + 4
      [] pc[t] = "wait"    -> 8 * (last[t] - at[t]) + 3
      [] pc[t] = "title"   -> 2
      [] pc[t] = "clear"   -> 1
      [] OTHER             -> 0

\* A pass stays within the list it took.
WithinList == \A t \in Pass : at[t] <= last[t]

\* What a step leaves of t when another thread makes it.
Unmoved(t) == pc'[t] = pc[t] /\ at'[t] = at[t] /\ last'[t] = last[t]

LEMMA OthersUnmoved ==
    ASSUME TypeOK, [Next]_vars, NEW t \in Pass, ~Step(t), ~PressPlay(t)
    PROVE  Unmoved(t)
<1>0. /\ pc \in [Pass -> Steps \cup {"unused", "done"}]
      /\ at \in [Pass -> Player] /\ last \in [Pass -> Player]
  BY DEF TypeOK, StepsOK, CountsOK
<1>1. ASSUME UNCHANGED <<pc, local>> PROVE Unmoved(t)
  BY <1>1 DEF local, Unmoved
<1>2. ASSUME NEW u \in Pass, u # t, NEW from, NEW to, Goes(u, from, to) PROVE pc'[t] = pc[t]
  BY <1>0, <1>2 DEF Goes
<1>3. ASSUME NEW u \in Pass, u # t, List(u) PROVE Unmoved(t)
  BY <1>0, <1>2, <1>3 DEF List, Unmoved
<1>4. ASSUME NEW u \in Pass, u # t, Wait(u) PROVE Unmoved(t)
  <2>1. pc'[t] = pc[t] /\ last' = last
    BY <1>2, <1>4 DEF Wait
  <2>2. at'[t] = at[t]
    BY <1>0, <1>4 DEF Wait
  <2> QED
    BY <2>1, <2>2 DEF Unmoved
<1>5. ASSUME NEW u \in Pass, u # t,
             \/ Play(u) \/ Measure(u) \/ Test(u) \/ Poll(u) \/ After(u) \/ Seek(u)
             \/ Pause(u) \/ PostTitle(u) \/ Clear(u) \/ PressPlay(u)
      PROVE  Unmoved(t)
  <2>1. UNCHANGED local /\ \E from, to : Goes(u, from, to)
    BY <1>5 DEF Play, Measure, Test, Poll, After, Seek, Pause, PostTitle, Clear, PressPlay
  <2> QED
    BY <1>2, <1>5, <2>1 DEF local, Unmoved
<1>6. CASE PressStop \/ ViewWillDisappear \/ ViewAppears \/ TitleBlock \/ ChildAdded
  BY <1>1, <1>6 DEF PressStop, ViewWillDisappear, ViewAppears, TitleBlock, ChildAdded
<1>7. ASSUME NEW p \in Player, BecomesReady(p) \/ Advances(p) PROVE Unmoved(t)
  BY <1>1, <1>7 DEF BecomesReady, Advances
<1>8. CASE UNCHANGED vars
  BY <1>1, <1>8 DEF vars
<1> QED
  BY <1>3, <1>4, <1>5, <1>6, <1>7, <1>8 DEF Next, Step

\* A step of t itself: what it tells of t afterwards.
LEMMA GoesTo ==
    ASSUME TypeOK, NEW t \in Pass, NEW from, NEW to, Goes(t, from, to)
    PROVE  pc[t] = from /\ pc'[t] = to
BY DEF Goes, TypeOK, StepsOK

LEMMA WithinNext == TypeOK /\ WithinList /\ [Next]_vars => WithinList'
<1> SUFFICES ASSUME TypeOK, WithinList, [Next]_vars, NEW t \in Pass PROVE at'[t] <= last'[t]
  BY DEF WithinList
<1>0. /\ at \in [Pass -> Player] /\ last \in [Pass -> Player] /\ listed \in Player
      /\ at[t] <= last[t] /\ MaxPlayer \in Nat \ {0}
  BY PlayAllAssumption DEF TypeOK, CountsOK, WithinList, PlayAllAssumption
<1>1. ASSUME UNCHANGED local PROVE at'[t] <= last'[t]
  BY <1>0, <1>1 DEF local
<1>2. CASE List(t)
  BY <1>0, <1>2 DEF List, Player
<1>3. CASE Wait(t)
  BY <1>0, <1>3 DEF Wait, Player
<1>4. CASE \/ Play(t) \/ Measure(t) \/ Test(t) \/ Poll(t) \/ After(t) \/ Seek(t)
           \/ Pause(t) \/ PostTitle(t) \/ Clear(t) \/ PressPlay(t)
  BY <1>1, <1>4 DEF Play, Measure, Test, Poll, After, Seek, Pause, PostTitle, Clear, PressPlay
<1>5. CASE ~Step(t) /\ ~PressPlay(t)
  BY <1>0, <1>5, OthersUnmoved DEF Unmoved
<1> QED
  BY <1>2, <1>3, <1>4, <1>5 DEF Step

LEMMA StepShortens ==
    ASSUME TypeOK, WithinList, NEW t \in Pass, ~audioPlaying, Step(t)
    PROVE  Left(t)' < Left(t) /\ Left(t)' <= Left(t)
<1>0. /\ at \in [Pass -> Player] /\ last \in [Pass -> Player] /\ listed \in Player
      /\ at[t] \in 1..MaxPlayer /\ last[t] \in 1..MaxPlayer /\ listed \in 1..MaxPlayer
      /\ at[t] <= last[t] /\ MaxPlayer \in Nat
  BY PlayAllAssumption DEF TypeOK, CountsOK, WithinList, PlayAllAssumption, Player
<1>1. CASE List(t)
  <2>1. pc[t] = "list" /\ pc'[t] = "play" /\ at'[t] = 1 /\ last'[t] = listed
    BY <1>0, <1>1, GoesTo DEF List
  <2> QED
    BY <1>0, <2>1 DEF Left
<1>2. CASE Wait(t)
  <2>1. pc[t] = "wait" /\ last'[t] = last[t]
    BY <1>2, GoesTo DEF Wait
  <2>2. CASE at[t] < last[t]
    <3>1. pc'[t] = "play" /\ at'[t] = at[t] + 1
      BY <1>0, <1>2, <2>2, GoesTo DEF Wait
    <3> QED
      BY <1>0, <2>1, <3>1 DEF Left
  <2>3. CASE ~(at[t] < last[t])
    <3>1. pc'[t] = "title"
      BY <1>0, <1>2, <2>3, GoesTo DEF Wait
    <3> QED
      BY <1>0, <2>1, <3>1 DEF Left
  <2> QED
    BY <2>2, <2>3
<1>3. ASSUME UNCHANGED local,
             <<pc[t], pc'[t]>> \in {<<"play", "measure">>, <<"measure", "test">>,
                 <<"measure", "after">>, <<"test", "after">>, <<"poll", "test">>,
                 <<"poll", "after">>, <<"after", "seek">>, <<"seek", "pause">>,
                 <<"pause", "wait">>, <<"title", "clear">>, <<"clear", "done">>}
      PROVE  Left(t)' < Left(t) /\ Left(t)' <= Left(t)
  <2>1. at'[t] = at[t] /\ last'[t] = last[t]
    BY <1>3 DEF local
  <2>2. PICK n \in Nat : n = last[t] - at[t]
    BY <1>0
  <2> QED
    BY <1>3, <2>1, <2>2 DEF Left
<1>4. CASE Play(t)
  BY <1>3, <1>4, GoesTo DEF Play
<1>5. CASE Measure(t)
  <2>1. pc[t] = "measure" /\ pc'[t] \in {"test", "after"}
    BY <1>5, GoesTo DEF Measure
  <2> QED
    BY <1>3, <1>5, <2>1 DEF Measure
<1>6. CASE Test(t)
  BY <1>3, <1>6, GoesTo DEF Test
<1>7. CASE Poll(t)
  <2>1. pc[t] = "poll" /\ pc'[t] \in {"test", "after"}
    BY <1>7, GoesTo DEF Poll
  <2> QED
    BY <1>3, <1>7, <2>1 DEF Poll
<1>8. CASE After(t) \/ Seek(t) \/ Pause(t)
  BY <1>3, <1>8, GoesTo DEF After, Seek, Pause
<1>9. CASE PostTitle(t) \/ Clear(t)
  BY <1>3, <1>9, GoesTo DEF PostTitle, Clear
<1> QED
  BY <1>1, <1>2, <1>4, <1>5, <1>6, <1>7, <1>8, <1>9 DEF Step

(* A pass that is stopped has at most 8 * MaxPlayer + 3 steps left, none   *)
(* only when it is over; each step it makes while the flag is down leaves  *)
(* it fewer, and nothing else, no button, player or other pass, gives it   *)
(* more, for any number of passes and stories: it never polls for ever,    *)
(* and only the semaphore can hold it.                                     *)
THEOREM StopsRunOut ==
    Spec => /\ [](\A t \in Pass :
                     /\ Left(t) \in 0..(8 * MaxPlayer + 3)
                     /\ Left(t) = 0 <=> pc[t] \in {"unused", "done"})
            /\ [][~audioPlaying =>
                     \A t \in Pass :
                        /\ Step(t) => Left(t)' < Left(t)
                        /\ ~PressPlay(t) => Left(t)' <= Left(t)]_vars
<1>1. Init => TypeOK /\ WithinList
  <2>1. Init => WithinList
    <3> SUFFICES ASSUME Init, NEW t \in Pass PROVE at[t] <= last[t]
      BY DEF WithinList
    <3>1. at[t] = 1 /\ last[t] = 1
      BY DEF Init
    <3> QED
      BY <3>1
  <2> QED
    BY <2>1, InitPlayAll DEF PlayAllInv
<1>2. TypeOK /\ WithinList /\ [Next]_vars => TypeOK' /\ WithinList'
  BY TypeNext, WithinNext
<1>3. TypeOK /\ WithinList =>
        \A t \in Pass : /\ Left(t) \in 0..(8 * MaxPlayer + 3)
                        /\ Left(t) = 0 <=> pc[t] \in {"unused", "done"}
  <2> SUFFICES ASSUME TypeOK, WithinList, NEW t \in Pass
               PROVE  /\ Left(t) \in 0..(8 * MaxPlayer + 3)
                      /\ Left(t) = 0 <=> pc[t] \in {"unused", "done"}
    OBVIOUS
  <2>1. /\ at[t] \in 1..MaxPlayer /\ last[t] \in 1..MaxPlayer /\ MaxPlayer \in Nat
        /\ at[t] <= last[t]
    BY PlayAllAssumption DEF TypeOK, CountsOK, WithinList, PlayAllAssumption, Player
  <2>2. PICK n \in 0..(MaxPlayer - 1) : n = last[t] - at[t]
    BY <2>1
  <2>3. pc[t] \in Steps \cup {"unused", "done"}
    BY DEF TypeOK, StepsOK
  <2>4. CASE pc[t] \in {"unused", "done", "list", "title", "clear"}
    <3>1. CASE pc[t] \in {"unused", "done"}
      <4>1. Left(t) = 0
        BY <3>1 DEF Left
      <4> QED
        BY <2>1, <3>1, <4>1
    <3>2. CASE pc[t] \in {"title", "clear"}
      <4>1. Left(t) \in {1, 2}
        BY <3>2 DEF Left
      <4> QED
        BY <2>1, <3>2, <4>1
    <3>3. CASE pc[t] = "list"
      <4>1. Left(t) = 8 * MaxPlayer + 3
        BY <3>3 DEF Left
      <4> QED
        BY <2>1, <3>3, <4>1
    <3> QED
      BY <2>4, <3>1, <3>2, <3>3
  <2>5. CASE pc[t] \in {"play", "measure", "poll", "test", "after", "seek", "pause", "wait"}
    <3>1. PICK r \in 3..10 : Left(t) = 8 * n + r
      BY <2>2, <2>5 DEF Left
    <3>2. Left(t) \in 1..(8 * MaxPlayer + 3)
      <4>1. 8 * n + r \in 1..(8 * MaxPlayer + 3)
        BY ONLY n \in 0..(MaxPlayer - 1), r \in 3..10, <2>1
      <4> QED
        BY <3>1, <4>1
    <3> QED
      BY <2>1, <2>5, <3>2
  <2> QED
    BY <2>3, <2>4, <2>5 DEF Steps
<1>4. TypeOK /\ WithinList /\ [Next]_vars =>
        [~audioPlaying =>
            \A t \in Pass : /\ Step(t) => Left(t)' < Left(t)
                            /\ ~PressPlay(t) => Left(t)' <= Left(t)]_vars
  <2> SUFFICES ASSUME TypeOK, WithinList, [Next]_vars, ~audioPlaying, NEW t \in Pass
               PROVE  /\ Step(t) => Left(t)' < Left(t)
                      /\ ~PressPlay(t) => Left(t)' <= Left(t)
    OBVIOUS
  <2>1. Left(t) \in Nat
    BY <1>3, PlayAllAssumption DEF PlayAllAssumption
  <2>3. CASE Step(t)
    BY <2>3, StepShortens
  <2>4. CASE ~Step(t) /\ ~PressPlay(t)
    <3>1. Unmoved(t)
      BY <2>4, OthersUnmoved
    <3>2. Left(t)' = Left(t)
      BY <3>1 DEF Unmoved, Left
    <3> QED
      BY <2>1, <2>4, <3>2
  <2>5. CASE ~Step(t) /\ PressPlay(t)
    BY <2>5
  <2> QED
    BY <2>3, <2>4, <2>5
<1> QED
  BY <1>1, <1>2, <1>3, <1>4, PTL DEF Spec

=============================================================================
