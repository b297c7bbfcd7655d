# Audio Stories: a TLA+ development

Audio Stories is an iOS client (Swift, UIKit, AVFoundation) over Firebase
Authentication, the Realtime Database and Storage. Users record stories of at
most 21 seconds, other users add their own recordings to a story, and "Play
All" plays a story with all that was added to it. There is no server code: the
rules the data obeys are the ones the clients follow, which is why the order of
the clients' steps is what has to be checked.

Paths below are relative to `src/src/AudioStories/` in the repository
listing used by PROJECT.json.

## Inventory

| Part | Code | State | Hard behaviour |
|---|---|---|---|
| Story recorder | CreateAudioVC, CreateAudioVC+handlers | recorder, take, timer and counter, player, buttons, alert | gestures, timer ticks, alerts and leaving in any order; a cancelled gesture; a failing audio session |
| Story feed | CreateAudioVC+handlers `sendStoryToDatabase`, HomeVC, ProfileVC, SingleFeedVC | database nodes `Feed/<id>`, `Stories/<id>`, storage files; per device the list shown | a chain of callbacks interrupted at any point; a non-atomic read-increment-write of the counter; writes queued while offline; deletion racing late writes; a killed app |
| Play All | SingleFeedVC | a semaphore, a shared flag, background threads, AVPlayers, the button's title | threads racing on the flag and on the semaphore; a player that is never ready |
| Single-story player | AudioPlayer, FeedTableViewCell, SingleFeedVC, HomeVC, ProfileVC, ContainerVC | one AVPlayer, one updater timer per cell and per story screen | which cell's updater belongs to the sound; links that outlive their screen; a nil timer |
| Profile | ProfileVC | own stories, list rows, delete alert | a row index used after the list has changed, before the swipe or under the alert |
| Accounts: session | AppDelegate, MainNavigationController, LoginVC, Utilities, Cache, BaseVC, ContainerVC, SideMenuVC | current user, cached details, root screen | details fetched for one account arriving under another; the cache emptied by the system |
| Accounts: registration | RegisterVC, RegisterVC+handlers | current user, Users node, screens | check-then-write of the username; a second press; deleting the wrong account |
| Profile image | EditProfileVC, EditProfileVC+handlers, UIImageViewExtension, Cache | image files, imageCache, image views | a late download after reuse or after an upload |
| Views, constants, alerts, models, storyboards, Pods | the rest | none of their own | left out |

What has to hold, part by part, whatever the order of the steps:

- **Story recorder**: exactly the take being recorded has a timer; the play and
  done buttons need a finished take; a fresh take starts its clock at zero;
  every recording ends, also when its gesture is cancelled.
- **Story feed**: nothing is listed whose audio was not stored; the counter of
  recordings is never more than was recorded; a device's rows are its view of
  the database; lists agree once everything is sent and heard; a deleted story
  does not come back; what the server has reaches every list.
- **Play All**: whatever plays has a pass that will pause it; when all passes
  are over the button and the flag are at rest; what is stopped or left falls
  silent.
- **Single-story player**: the button that started the sound, and no other,
  offers to stop it; a bar away from zero has a display link to draw it; the
  sound of a story screen stays on it, and those of the lists off it; bars are cleared when the sound is over.
- **Accounts** (session and registration): a registration deletes its anonymous
  user and nobody else; the screens act as the user who is signed in; usernames
  differ; nobody's details are cached who has none.
- **Profile**: the list is the user's own part of the feed, newest first; the story that is
  deleted is the user's own, and the one that was swiped where the list has not
  moved since; the table catches up with the list.
- **Profile image**: a cell shows the face of its row's user; a new picture
  takes the place of the former one everywhere; what is saved is what was
  picked (each of the three unless a download was under way that the code does
  not guard against); no view stays blank.

The inventory's hazards are listed one by one, at their lines and with the
properties that cover them, in PROJECT.json.

## Plan

| Order | Module | Instance and proofs | State |
|---|---|---|---|
| 1 | StoryRecorder | StoryRecorderProofs | done; every invariant is proved |
| 2 | StoryFeed | MCStoryFeed, StoryFeedProofs | done |
| 3 | StoryBoard, what StoryFeed implements | StoryBoardProofs | done; every invariant and action property of StoryFeed and the refinement are proved |
| 4 | PlayAll | PlayAllProofs | done; every invariant is proved |
| 5 | StoryPlayer | StoryPlayerProofs | done; every invariant is proved |
| 6 | Accounts | MCAccounts, AccountsProofs | done; every invariant is proved |
| 7 | ProfileList | ProfileListProofs | done; every invariant is proved |
| 8 | ProfileImages | MCProfileImages, ProfileImagesProofs | done; every invariant is proved |

The parts meet in few places. The recorder hands a finished take to
`sendStoryToDatabase`, which is StoryFeed's `SendStory` and `SendReply`; the list
hands the chosen story to the story screen, StoryFeed's `chosen`, StoryPlayer's
`OpenStory`; the story screen's players are shared by nothing with AudioPlayer
(PlayAll and StoryPlayer each model their own); every screen's `userInfo`
comes from Accounts' `cached`; ProfileList's `Yes` is StoryFeed's `DeleteStory`,
and its observers hear what StoryFeed's `Visible` holds; ProfileImages keeps the
pictures of users and rows that the others only name. The modules are therefore
checked apart, each with the others' calls as inputs that may come at any time.

## The modules

### StoryRecorder

CreateAudioVC on the main thread: one action per handler. `LongPressBegan` is
the `.began` branch with all of `setupRecorder` (or its failure), `TimerHandler`
one tick, `LongPressEnded` the lifted finger, `LongPressCancelled` a gesture
that the system cancels, for which the code has no branch. Variables are the
view controller's fields; `_fileName` and `_filePath` are always assigned
together and are one number, the `take`; `live` is the set of timers on the run
loop, which the code cannot see. Left out: the ring's animation, the content of
the takes.

### StoryFeed

`sendStoryToDatabase` is a chain of callbacks (`PutFile`, `DownloadURL`,
`ReadNoRecordings`, `CountRecording`), of which each may come late, or never
if the app is killed, and between any two of which other devices act. HomeVC's
three observers keep `rows` from events alone; ProfileVC's deletion removes the
story, its replies and the file in three requests. The database is external and
modelled as the code relies on it: a device's writes take effect at once in its
own `View`, wait in `out`, are applied by the server in order, are sent again
after a lost connection, and are forgotten by a killed app. A reply's counter
is read in one callback and written in the next, as the code does.

### StoryBoard

What StoryFeed promises, without callbacks, queues, inboxes, caches or
connections: stories are stored, published in their author's list, posted,
counted, agreed to be deleted and withdrawn, each in one step. It states what
users may rely on and what not. A list loses only stories whose author agreed,
the server drops nothing else, the number of recordings that the board states
is at most that of those counted, and a reply is counted once. It also states
what the code does not promise: `Relaunch`, an app that was killed shows what is
up and has lost its user's own stories that were `authored` and not posted yet;
`Tally` may set a smaller number than before
(two replies that race, a write that is sent again), and may set it for a story
that is not up (the counter written after a deletion); `Post` may repeat itself.
The mapping is at the end of StoryFeed: `Up` and `Tallies` come from the
server's nodes, `Stored` from the files, `Authored` and `AllCounted` from the
phases of the uploads, `Shown` from the rows. A write that is queued, echoed or answered is a
stutter; the server's own step is the abstract one.

### PlayAll

`playAllBtnPressed` statement by statement: each press that raises the flag
starts a `Pass`, a block of a background queue, whose `pc` walks through the
loop over the players (`List`, `Play`, `Measure`, `Test`, `Poll`, `After`,
`Seek`, `Pause`, `Wait`) and its end (`PostTitle`, `Clear`). The flag, the
players and the semaphore are shared without a lock, as in the code; the
semaphore's count is capped at `Enough`, beyond which a signal changes nothing.

### StoryPlayer

AudioPlayer, `pressPlay` of the cells, the parent's button, the display links
and the screens they live on. `opened` is the navigation stack above HomeVC,
whose screens are only pushed in one order: the profile, a story from it or from
HomeVC, the recording screen. An `updater` has three values, because the code
tests for nil where it means valid; `leaked` holds the links that are valid
though nothing refers to them. Each screen makes its own cells and each story
screen its own parent button; what links hold of them goes on when the screen
has gone. `Parent` is the button of the story screen opened last, `Former` that
of the earlier ones: a screen that has gone is told apart by nothing but its
link. A cell is a UITableViewCell and not a
story: the list may give it another one at any time (`CellForRow`), which
changes neither its link nor its bar nor its button. A forced unwrapping of nil sets
`crashed` and ends the behaviour.

### Accounts

The session of each device: `current` is Auth.currentUser, `cached` whose
details Cache holds, `asked` the calls of `getUserDetails` without an answer, in
order, each with or without the navigation that turns its answer into the
container screen. Registration is one chain of callbacks per press
(`RegisterBtnPressed`, `SignedInAnonymously`, `UsersRead`, `CreateUser`,
`ProfileImageUploaded`, `SendVerifcationEmail`, `Ok`). The actions of
`SignedIn`, `DetailsArrive`, `WillEnterForeground`, `Launch`, `SaveEnds` and
`SignOutAndGoToLoginVC` are LoginVC, Utilities, AppDelegate,
MainNavigationController, EditProfileVC and ContainerVC. Auth, the database and
NSCache are external. The constant `Hasty` holds the devices whose users go on
while something is under way; `GoesOn` is the guard that keeps the others from
it. The code itself stops nobody: `Hasty` is a fact about users, and what the
properties say of `Device \ Hasty` is what patience is enough for. Its two
halves are the theorem `Safety` and the finding `DeletesAnonymousUser`.

### ProfileList

ProfileVC's own list: the observers' filter on the user's `creatorID`
(`ChildAdded`, `ChildChanged`, `ChildRemoved`), the order in which stories were
heard of (`added`), the `reloadData` that each of them hands to the main queue (`reloading`, `ReloadData`), the rows as the table
last drew them (`drawn`), and the delete action, which keeps an index while an
alert is up (`CommitDelete`, `Yes`, `Cancel`). A touch acts on `drawn` and the
code reads `feedList`: an index past its end sets `crashed`. `asked`, `agreed`
and `steady` only record what the user was asked and whether the list has moved.

### ProfileImages

`loadImageUsingCache` and `downloadAndCacheImage` for the cells of a list, the
menu and EditProfileVC. A load is `asking` Storage for a URL or `fetching` the
image through Kingfisher; the view it was started for may by then belong to
another row, or to no screen. A picture is `<<whose, which upload>>`. The save
chain is `SaveBtnPressed`, `ImageStored`, `SaveEnds` (with `removeAllObjects`)
and `Redraw`, or `SaveFails`; a picked image of which no data can be made leaves
the button disabled for good (`save` = "stuck"). `redraw` is the block that
`SaveEnds` leaves on the main queue, before which the picker may answer and the
screen may go. `overtaken`, `late` and `calm` only record whether a load
was under way when a cell was used again, when the cache was cleared, or
when a picture was picked: the code has no guard there and does leave the wrong
face, the former picture in the cache, and the former picture in the place of the
picked one. The properties say what holds where none was under way. The completion handler's forced unwrapping of
a failed download ends the app (`ImageFails`).

## What the runs check

| Run | Question | Instance | Result |
|---|---|---|---|
| recorder | do takes, timer, buttons and clock agree in every order of handlers, which takes are not told to stop, and does every recording end | 3 takes | holds |
| feed | do two devices that publish, reply, count, select and delete keep the promises of the feed | 2 devices, 1 story, 2 replies, no faults | holds |
| feed_faults | the same with a lost connection or a killed app; do lists agree once all is sent and heard, does a deletion stand, does a story reach everyone, and is all of it a board of stories | 2 devices, 1 story, 1 reply, 1 fault | holds |
| feed_bare | can every row be drawn | 2 devices, 1 story, 1 reply | violated: a count written after a deletion leaves a node without a uniqueID |
| play_all | two overlapping passes and every interleaving of their statements: owners, rest, silence, the end of what is stopped | 2 passes, 2 stories | holds (about two minutes) |
| player | icons, bars and screens of the single-story player | 2 cells of the profile's list and of story screens, the parent, an earlier one | holds |
| player_nil | is what is unwrapped by force there | 1 home cell, 1 of the profile or a story screen | violated: press a reply, then the parent |
| accounts | whom does a registration delete, as whom do the screens act, do usernames differ | 1 patient resident, 1 hasty registrar, 2 attempts, 1 launch, 1 request | holds |
| accounts_deletes | is the deleted user anonymous | 1 hasty device | violated: a login answered before the registration's read |
| profile | do list, table and alert of the profile screen agree | 2 own stories, 1 of another user | holds |
| profile_delete | is the story deleted the one that was swiped | the same | violated: a story published before the swipe, on a table that lags behind, or under the alert moves the rows |
| images | do faces, cached images and the saved picture belong where they are shown | 1 cell, 2 rows, 2 users, 2 loads, 1 upload | holds (about two and a half minutes) |

### Bounds

- `MaxTake` = 3: handlers refer to the current take and its timer only; a fault
  needs a former take to be left over, and `MissedStopsComeFirst` one that was
  missed, one that was told to stop, and one after. The proofs cover every number.
- `Story`, `Reply`, `MaxFaults`: two replies are what two counters race with;
  stories do not touch each other's nodes, so one is enough to check and the
  theorems hold for any number. One fault is one lost connection or one killed
  app on either device at any step; a second fault meets the same queues.
- `Pass` = 2, `MaxPlayer` = 2: two passes overlap at the same player and at
  different ones; a player ends, is not ready, or is followed by another.
- Cells: two, each made by the profile's list or by a story screen, and left
  behind when it goes, make every pair of voices: two of a screen, one of each,
  one of a screen that has gone, and with the parent or an earlier parent. A
  cell of the home list is a cell of the profile's that is never left behind;
  `player` has none of its own, for a third cell takes TLC past its time,
  `player_nil` has one, and the theorems hold for any number of both.
- `Attempt` = 2, `Name` = 2, one member: two presses race with each other and
  with a login; a name is free or taken. `Resident` keeps the hasty device from
  logging in, which would only repeat what the patient device does in a larger
  space; the hasty login is checked by itself in `accounts_deletes`. `MaxAsked` =
  1 bounds the requests of returns to the foreground that wait at the same time
  (a login adds one more, so two of different users do meet); the theorems need
  no bound on it. `MaxLaunches` = 1.
- ProfileList: two own stories give an alert's row something to be exchanged
  with, the third is another user's, which the filter must keep out;
  `MaxCount` = 1 gives a row a counter to be behind with.
- ProfileImages: one cell used for two rows of two users, one of them `Me`, who
  uploads; `Load` = 2 puts a stale download beside a new one; `MaxUpload` = 2
  is the picture stored before and one upload, a former picture and a new one
  (the theorems hold for any number). One save at a time is a bound of the
  model (the code lets the button be pressed again); it is named in the module.

### Fairness

Safety needs none. For the liveness properties:

- `EveryRecordingEnds`: a scheduled timer fires (the run loop goes on).
  Nothing is assumed of the user.
- `StoryReachesEveryone`: the server takes what a device sends, a device hears
  what the server sends, and a callback that is due comes. Firebase resends until it is
  answered, so a lost connection delays and does not end it; a killed app is
  not owed anything but what the server already has.
- `FallsSilent`, `StoppedPassesEnd`: a block of the background queue, and the main
  queue, go on. A pass in `wait()` is not owed a signal, and players are not owed
  readiness.
- `SilenceClearsBars`: a valid display link fires.
- `TableCatchesUp`: a block on the main queue runs. New stories may come for ever
  and delay nothing: each block draws the list as it is.
- `NoViewStaysBlank`: Kingfisher calls its completion handler, with an image or
  without. Storage's answers are not fair: a view is not blank while they wait.

Neither presses nor network answers that may fail are fair in a chosen way: a
failure counts as an answer.

## What is proved

TLAPS proves the following for every value of the constants, from the named
assumption of each module (finite sets where they are counted, disjoint
identifiers, a `None` that is none of them, bounds that are numbers).

- **StoryRecorderProofs**: `RecorderTypes`, `TimerSafety`, `ClockSafety`, `ButtonSafety`,
  `StopSafety`, `TakesRunOut`.
  `stopAnimationAndRecording` invalidates the timer that `_timer` refers to and
  enables the buttons without looking at the take; it is right because of
  `RecordingIsCurrent`, which the invariant adds: while something records,
  `_timer` is that recording's timer and the current take is the one recorded.
  `StopSafety` adds `MissedInv`: takes are named in order, only the last one is
  recorded, and once one was told to stop there is a player, which the test asks
  for. `TakesRunOut` measures a recording by the ticks it may still get: it has a
  timer of its own and at most 21 of them, each tick takes one, no handler gives
  one back.
- **StoryFeedProofs**: `FeedTypes`, `AudioSafety`. The types need `AnswersMatch`:
  each write the server has applied has one answer on its way back, so that an
  answer always finds a write to answer. For the audio, a row or a node can come from
  many places, so `AudioInv` says of every place a write can be in (the
  queues, the inboxes, the caches, the server, the rows) that what it
  names has a file that was stored, and that an upload still before `PutFile` has
  none. A file is never "none" again, which makes it inductive.
- **StoryBoardProofs**: `CounterSafety`, `RowsSafety`, `FeedIsBoard`, `ListsConverge`,
  `DeletionSafety`, `NothingIsMissed`, `NothingIsLost`, `BareRowsComeLate`.
  The state of the feed is spread over nodes, caches, queues and inboxes, and the
  same writes wait in several of them at once. The proofs therefore rest on one
  lemma for all of them: `QueuesIn(W)` says that every write that waits anywhere is
  in the set `W`, and `NextQueues` that a step keeps it if the writes it adds are.
  - The counter: `AllWithin(C)` says that no number anywhere (nodes, caches, queued
    writes, rows, what a callback has read) exceeds `C`. It is kept by a step that
    writes nothing larger (`NextWithin`), and may be weakened as `C` grows;
    `C` is then the number of replies counted so far, which `CountRecording`
    raises by one just as it writes what it read plus one. Lost counts only lower
    what is stated, so nothing has to be said of them.
  - The rows: each row is its device's view after every event. The observers
    compare a node before and after, so the list follows
    (`ListFollows`) if a node that has a counter has a story, or else was removed on
    purpose. A counter written after its story must therefore never overtake
    the story's own write, on any path: `DeviceWhole` says so of a device's queue,
    inbox and cache, `AnswersInOrder` that the server's answers come in the order of
    the writes they answer (by counting them, `Rank`), and `CountsKnown` that a
    callback about to write a counter belongs to a device that knows the story.
  - The refinement: `BoardInv` joins the two with `AudioInv`, with the form of the
    writes (`FormedOp`) and with `RepliesStored`; every action of StoryFeed is then
    matched with a step of the board or with none (`UploadSteps`, `SaveStep`,
    `CountStep`, `AgreeStep`, `ServerSteps`, `RefreshSteps`, `RelaunchStep`), and
    `BoardStep` collects them. The hardest is `RefreshSteps`: what one event from
    the server does to a list amounts to new stories that are up and to the loss of
    agreed ones, whatever the device's own queue holds. `NothingIsLost` is what the
    refinement is good for: the board's steps plainly take nothing away that its
    author did not agree to, and therefore the feed's do not either. Its one exception is the list of
    an app that is killed (`StepOnBoard` shows that no other step takes the board's
    `Relaunch`), which starts again as the server's, without what its user published and
    it had not sent.
  - The lists: `InStep` says that what a device has heard of, with what its inbox
    holds applied to it, is the server's data. When the inbox and the device's own
    queue are empty its rows are the server's nodes, hence `ListsConverge`; when they
    are not, `NothingIsMissed`: what the server has is listed or in the inbox.
  - The deletion: only a story's author publishes or removes it (`OwnQueues`), and it is
    published once. No queue holds a publication behind the removal, and when
    writes are sent again both are; counts never set the story's
    body. The author's view is moreover what the server's node is going to be
    (`ViewsMeet`), so what is off the author's list is off the server once the author's writes
    have arrived. A killed app takes its queue with it, which is the exception
    that `DeletionStands` names.
  - The bare rows: until a reply of a story was counted no write of its counter waits
    anywhere (`CountingOp`) and its node is whole, and until the story is
    deleted a counter follows its body on every path (`DeviceWhole`). `BareRowsComeLate`
    therefore bounds the finding `feed_bare`: it takes a counted reply and a deletion.
- **PlayAllProofs**: `PassTypes`, `OwnerSafety`, `RestSafety`, `StopsRunOut`. A sounding player has a pass at
  it between `play()` and `pause()`, which is inductive with the types; for the
  rest, a raised flag has a pass that has not ended (`FlagHasOwner`), and the
  title "Stop All" a pass that has yet to post another or a block on the main
  queue that will set it (`TitleHasOwner`). `StopsRunOut` counts the statements a
  stopped pass has left, at most `8 * MaxPlayer + 3`: each one it executes is one
  fewer, and no other thread adds any.
- **StoryPlayerProofs**: `PlayerTypes`, `IconSafety`, `BarSafety`, `ScreenSafety`,
  `CrashSafety`. The invariant
  joins the three properties, which need each other, with where the cells are
  (`ListsApart`) and with the parent's link, which is valid only while the story
  screen is in front. `CrashSafety` bounds the finding `player_nil`: until a cell
  has played, the parent's link is there only while the parent plays
  and none of its links is leaked (`ParentAlone`), so neither its button nor its
  link unwraps a nil.
- **AccountsProofs**: `AccountTypes`, `Safety`, `RightUser`, `NameSafety`,
  `DetailsSafety`. The invariant `Patience` says of a device whose user waits: a registration that is under way
  is the only one and has its screen in front (so no login starts), and while it
  reads Users the anonymous user is signed in; a request that will open the
  container screen is the only one of its kind, belongs to a login or a launch
  that waits, and all requests from it on are for the user who is signed in;
  behind the login, requests, cache, form and uploads are all that user's. A
  step on another device changes nothing of it (`DeviceElsewhere`,
  `AttemptElsewhere`, `DeletedElsewhere`); a deletion that a device waits for was
  asked for by a hasty one. For the usernames, `Names` follows each of them from its check
  to its node: two attempts with the same checked name are `Apart`, which is to say
  that one is in the other's `unseen`, or that one is over without having written
  what it checked. Only three actions touch what it speaks of (`Quiet`). `Details`
  says of Cache, of the open form and of the uploads that all have a node in Users,
  which is never removed.
- **ProfileListProofs**: `ListTypes`, `ListSafety`, `EraseSafety`, `AlertSafety`,
  `TableSafety`. The list is a sequence without duplicates, newest first, that changes by a row in
  front, a row taken out and a counter; the lemmas state each once. No row is newer
  than the last story heard of, so that one put in front keeps the order. `Yes` takes
  whatever row the index has come to point at, which is the user's own because
  every row is.
- **ProfileImagesProofs**: `ImagesTypes`, `FaceSafety`, `CacheSafety`, `PickSafety`,
  `BlankViewsAreAwaited`. A
  cell's face is right because of `CellsFit`, which says the same of the downloads
  that are still under way for it; the cache because of `LoadsAreFresh`, of those for
  the user's own pictures. Of a cell used again while another creator's download was
  under way `FaceSafety` says nothing: the wrong face may stay. `PickIsKept` adds to
  what the save button stands for the loads and the block that may still draw on the
  edit screen: a calm pick has none of them, and of any other pick they
  leave an image of the user's own or none. A view that a load has blanked keeps that load, with
  the URL the view is due, until Kingfisher has called back.

Each follows the same plan: the invariant holds at first, every action keeps
every part of it, it implies the property, and a temporal step combines the
three. TLC checks each property on the runs' instances. `TakesRunOut`, `NothingIsMissed`,
`NothingIsLost`, `BareRowsComeLate`, `StopsRunOut`, `CrashSafety` and
`BlankViewsAreAwaited` are stated in the proof modules, where no run uses them:
they are the proved halves of the liveness properties, and the bounds of
two findings.

## What is only model-checked

- Liveness under fairness is out of the proof system's reach, as ENABLED is. What
  a theorem can say is that nothing stands in the way, the safety half that is left once
  the fair steps are taken for granted:

  | Checked by TLC | Proved |
  |---|---|
  | `EveryRecordingEnds` | `TakesRunOut`, `TimerSafety`: a recording has a timer, whose ticks run out |
  | `StoryReachesEveryone` | `NothingIsMissed`: the story is in the list or in the device's inbox |
  | `StoppedPassesEnd`, `FallsSilent` | `StopsRunOut`: a stopped pass runs out of statements; `OwnerSafety`: what sounds has a pass |
  | `SilenceClearsBars` | `BarSafety`: a bar away from zero has a link that will draw it |
  | `TableCatchesUp` | `TableSafety`: the table is the list when no reload is due |
  | `NoViewStaysBlank` | `BlankViewsAreAwaited`: the view has a load that waits for its image |

- What violations show needs no proof: each is a behaviour.

Every invariant and action property of the passing runs is proved, and so is the
refinement. Facts by induction over data,
and operators declared RECURSIVE, are out of the provers' reach too; no module
needs either.

## Where the code departs from what it says

1. `noRecordings` is written below a story that was deleted, and every list gets
   a row that cannot be drawn (`feed_bare`). It takes a deletion and a counted reply
   (`BareRowsComeLate`).
2. The parent's button pressed while a reply plays unwraps nil (`player_nil`). Where
   no cell has played it never does (`CrashSafety`).
3. "This deletes Anonymous User" deletes whoever is signed in when the database
   answers (`accounts_deletes`).
4. "This will permanently delete this story" deletes the story that has moved into
   the row by the time "Yes" is pressed (`profile_delete`).

Three more facts the modules show without a run of their own:

- `stopAnimationAndRecording` tests the player before it stops the recorder, so a
  take that ends before the first playback is released while it records.
  `MissedStopsComeFirst` says exactly which takes these are.
- "Stop All" and "Play All" again can play two stories at once, the stopped pass
  going on beside the new one. `SoundHasOwner` and `StoppedPassesEnd` say what is
  still true then.
- "already playing another audio" is printed only by cells that have never played;
  one that has stops the other's sound. `IconTellsSound` holds all the same.

## What is not modelled, and why

Password reset is one request and an alert. Text validation is sequential and
shares no state. Views, models and constants only draw or carry data, and two
files are reached by no screen. Pods is third-party code: Firebase, Kingfisher
and what they rest on, among which are all the C, C++ and Objective-C sources of
the repository (leveldb, nanopb, headers). The app's own code is Swift alone, so
that the map names no line of a C source. LevelDB would hold the database's
writes on disk, but the app never turns persistence on, which is why a killed app
forgets them in StoryFeed. What the app uses of Firebase and Kingfisher is modelled
from the calls, and marked external.

Some states of the modules are reached and judged by no property, because no text
of the repository says what should hold there: a reply below a deleted story, a
story whose file is gone, a take lost with a killed app, an account without
details at launch, an unverified account let in by the next launch. They are
listed with the hazards. The content of takes is not kept: that `play()` may play
the former take's player after `preparePlayer` failed is listed, not checked.
Two saves of a profile picture at the same time are beyond a bound of
ProfileImages.
