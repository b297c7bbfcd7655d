------------------------------ MODULE StoryFeed ------------------------------
(***************************************************************************)
(* How a story is published, replied to, counted, listed and deleted:      *)
(* sendStoryToDatabase, the feed observers of HomeVC, the delete action of *)
(* ProfileVC, and between them the Firebase database and storage, modelled *)
(* from what the code relies on.                                           *)
(*                                                                         *)
(* The database applies a write on the device at once, sends the writes of *)
(* a device in order, sends those it has no answer for again after a       *)
(* reconnection, and forgets them when the app is killed (persistence is   *)
(* not enabled).  A device sees the server's data as last heard of, with   *)
(* its own unanswered writes on top, and its observers are called with the *)
(* difference each time that view changes.                                 *)
(*                                                                         *)
(* One user per device.  The main queue is first-in first-out, so an       *)
(* observer's callback is taken together with the change that causes it.   *)
(***************************************************************************)
EXTENDS Integers, Sequences, FiniteSets, FiniteSetsExt

CONSTANTS
    Device,
    Story,     \* the keys childByAutoId hands out below Feed,
    Reply,     \* and those below Stories/<story>: one per upload
    None,      \* no device, no story
    MaxFaults  \* bound on lost connections and killed apps

Item == Story \cup Reply

ASSUME FeedAssumption ==
    /\ Story \cap Reply = {}
    /\ None \notin Item \cup Device
    /\ IsFiniteSet(Story) /\ IsFiniteSet(Reply)
    /\ MaxFaults \in Nat

VARIABLES
    phase,     \* of each upload, see Phase
    owner,     \* the device that uploads it
    parent,    \* the story a reply was recorded for
    seen,      \* the noRecordings a reply's client read, Absent for none
    file,      \* its audio file: "none", "stored", "erased"
    deleted,   \* stories whose deletion was confirmed
    feed,      \* the server's Feed node: a story's body and its counter
    stories,   \* the server's Stories node: the replies below each story
    out,       \* per device, its writes without an answer, oldest first
    arrived,   \* ... how many of them the server has applied
    inbox,     \* per device, the server's writes it has not heard of yet
    cache,     \* per device, Feed as last heard of
    rows,      \* per device and story, the rows of HomeVC's list
    bare,      \* per device, the rows without a uniqueID
    chosen,    \* per device, chosenFeed of the story screen
    faults

upVars   == <<phase, owner, parent, seen>>
fileVars == <<file, deleted>>
dbVars   == <<feed, stories>>
netVars  == <<out, arrived, inbox, cache>>
listVars == <<rows, bare>>
vars     == <<upVars, fileVars, dbVars, netVars, listVars, chosen, faults>>

Phase == {"unused", "putting", "linking", "reading", "counting", "done", "lost"}

Absent == -1

Node == [body : BOOLEAN, n : Nat \cup {Absent}]
Gone == [body |-> FALSE, n |-> Absent]
Exists(node) == node # Gone

Row == [count : Nat, n : Nat \cup {Absent}]

\* What a write does to Feed/<id>: "publish" sets every field, noRecordings
\* to "0"; "count" sets noRecordings alone; "remove" sets the node to nil.
\* "reply" and "clear" write below Stories.
FeedOps == {"publish", "count", "remove"}
Write   == {w \in [op : FeedOps \cup {"reply", "clear"}, id : Item,
                     n : Nat \cup {Absent}] : w.op = "reply" <=> w.id \in Reply}

PublishOp(i)  == [op |-> "publish", id |-> i, n |-> 0]
CountOp(s, v) == [op |-> "count", id |-> s, n |-> v]
RemoveOp(s)   == [op |-> "remove", id |-> s, n |-> Absent]
ReplyOp(i)    == [op |-> "reply", id |-> i, n |-> Absent]
ClearOp(s)    == [op |-> "clear", id |-> s, n |-> Absent]

Applied(nodes, w) ==
    [s \in Story |->
        IF w.op \notin FeedOps \/ w.id # s THEN nodes[s]
        ELSE [body |-> IF w.op = "count" THEN nodes[s].body ELSE w.op = "publish",
              n    |-> w.n]]

\* What a device sees: for each field the last of its own writes to it, or
\* else what it has heard.
View(heard, own) ==
    [s \in Story |->
        LET writes == {k \in 1..Len(own) : own[k].id = s /\ own[k].op \in FeedOps}
            whole  == {k \in writes : own[k].op # "count"}
        IN  [body |-> IF whole = {} THEN heard[s].body
                                    ELSE own[Max(whole)].op = "publish",
             n    |-> IF writes = {} THEN heard[s].n ELSE own[Max(writes)].n]]

Visible(d) == View(cache[d], out[d])

Init ==
    /\ phase = [i \in Item |-> "unused"]
    /\ owner = [i \in Item |-> None]
    /\ parent = [i \in Reply |-> None]
    /\ seen = [i \in Reply |-> Absent]
    /\ file = [i \in Item |-> "none"]
    /\ deleted = {}
    /\ feed = [s \in Story |-> Gone]
    /\ stories = [s \in Story |-> {}]
    /\ out = [d \in Device |-> <<>>]
    /\ arrived = [d \in Device |-> 0]
    /\ inbox = [d \in Device |-> <<>>]
    /\ cache = [d \in Device |-> [s \in Story |-> Gone]]
    /\ rows = [d \in Device |-> [s \in Story |-> [count |-> 0, n |-> Absent]]]
    /\ bare = [d \in Device |-> 0]
    /\ chosen = [d \in Device |-> None]
    /\ faults = 0

-----------------------------------------------------------------------------
(* The feed observers of HomeVC *)

Added(old, new, s)   == ~Exists(old[s]) /\ Exists(new[s])
Removed(old, new, s) == Exists(old[s]) /\ ~Exists(new[s])
Changed(old, new, s) == Exists(old[s]) /\ Exists(new[s]) /\ old[s] # new[s]

\* Seeded faults: the counter is not copied; new stories are not inserted.
RowAfter_KeepsCounter(row, old, new, s) ==
    [count |-> IF Added(old, new, s) /\ new[s].body THEN row.count + 1
               ELSE IF Removed(old, new, s) /\ old[s].body THEN 0
               ELSE row.count,
     n     |-> IF new[s].body /\ Added(old, new, s) THEN new[s].n ELSE row.n]

RowAfter_InsertsNothing(row, old, new, s) ==
    [count |-> IF Removed(old, new, s) /\ old[s].body THEN 0 ELSE row.count,
     n     |-> IF new[s].body THEN new[s].n ELSE row.n]

\* childAdded inserts a row, childRemoved filters out the rows with the
\* uniqueID of what was there, childChanged copies noRecordings to the row
\* with the uniqueID of what is there now.
RowAfter(row, old, new, s) ==
    [count |-> IF Added(old, new, s) /\ new[s].body THEN row.count + 1
               ELSE IF Removed(old, new, s) /\ old[s].body THEN 0
               ELSE row.count,
     n     |-> IF new[s].body /\ (Added(old, new, s) \/ Changed(old, new, s))
               THEN new[s].n ELSE row.n]

\* A node without a body has no uniqueID: its row has none, and when it goes
\* all the rows without one go.
BareAfter(b, old, new) ==
    IF \E s \in Story : Removed(old, new, s) /\ ~old[s].body THEN 0
    ELSE b + Cardinality({s \in Story : Added(old, new, s) /\ ~new[s].body})

ListOfFeedEvents(d, old, new) ==
    /\ rows' = [rows EXCEPT ![d] = [s \in Story |-> RowAfter(@[s], old, new, s)]]
    /\ bare' = [bare EXCEPT ![d] = BareAfter(@, old, new)]

\* The device writes: its view changes at once.
Writes(d, ops) ==
    /\ out' = [out EXCEPT ![d] = @ \o ops]
    /\ ListOfFeedEvents(d, Visible(d), View(cache[d], out[d] \o ops))
    /\ UNCHANGED <<arrived, inbox, cache>>

-----------------------------------------------------------------------------
(* sendStoryToDatabase *)

\* Done on the recording screen: the file starts to upload.
SendStory(d, i) ==
    /\ phase[i] = "unused"
    /\ phase' = [phase EXCEPT ![i] = "putting"]
    /\ owner' = [owner EXCEPT ![i] = d]
    /\ UNCHANGED <<parent, seen, fileVars, dbVars, netVars, listVars, chosen, faults>>

\* Seeded fault: the recording screen is opened without a chosen story.
SendReply_ForNoStory(d, i) ==
    /\ phase[i] = "unused"
    /\ phase' = [phase EXCEPT ![i] = "putting"]
    /\ owner' = [owner EXCEPT ![i] = d]
    /\ parent' = [parent EXCEPT ![i] = chosen[d]]
    /\ UNCHANGED <<seen, fileVars, dbVars, netVars, listVars, chosen, faults>>

SendReply(d, i) ==
    /\ phase[i] = "unused" /\ chosen[d] # None
    /\ phase' = [phase EXCEPT ![i] = "putting"]
    /\ owner' = [owner EXCEPT ![i] = d]
    /\ parent' = [parent EXCEPT ![i] = chosen[d]]
    /\ UNCHANGED <<seen, fileVars, dbVars, netVars, listVars, chosen, faults>>

\* putFile's completion asks for the download URL whatever its error says.
PutFile(i) ==
    /\ phase[i] = "putting"
    /\ phase' = [phase EXCEPT ![i] = "linking"]
    /\ \E f \in {"none", "stored"} : file' = [file EXCEPT ![i] = f]
    /\ UNCHANGED <<owner, parent, seen, deleted, dbVars, netVars, listVars, chosen, faults>>

\* guard let downloadURL: without one the story is dropped.
DownloadURLFails(i) ==
    /\ phase[i] = "linking"
    /\ phase' = [phase EXCEPT ![i] = "lost"]
    /\ UNCHANGED <<owner, parent, seen, fileVars, dbVars, netVars, listVars, chosen, faults>>

\* Seeded fault: the story is saved whether there is a URL or not.
DownloadURL_Unguarded(i) ==
    /\ phase[i] = "linking"
    /\ phase' = [phase EXCEPT ![i] = IF i \in Story THEN "done" ELSE "reading"]
    /\ Writes(owner[i], <<IF i \in Story THEN PublishOp(i) ELSE ReplyOp(i)>>)
    /\ UNCHANGED <<owner, parent, seen, fileVars, dbVars, chosen, faults>>

DownloadURL(i) ==
    /\ phase[i] = "linking" /\ file[i] = "stored"
    /\ phase' = [phase EXCEPT ![i] = IF i \in Story THEN "done" ELSE "reading"]
    /\ Writes(owner[i], <<IF i \in Story THEN PublishOp(i) ELSE ReplyOp(i)>>)
    /\ UNCHANGED <<owner, parent, seen, fileVars, dbVars, chosen, faults>>

\* observeSingleEvent on noRecordings, served from the view HomeVC's
\* observer keeps complete.  Its callback runs later on the main queue.
ReadNoRecordings(i) ==
    /\ phase[i] = "reading"
    /\ seen' = [seen EXCEPT ![i] = Visible(owner[i])[parent[i]].n]
    /\ phase' = [phase EXCEPT ![i] = "counting"]
    /\ UNCHANGED <<owner, parent, fileVars, dbVars, netVars, listVars, chosen, faults>>

\* Seeded fault: observe in the place of observeSingleEvent.
CountRecording_KeepsObserving(i) ==
    /\ phase[i] = "counting"
    /\ phase' = [phase EXCEPT ![i] = "reading"]
    /\ Writes(owner[i], IF seen[i] = Absent THEN <<>>
                        ELSE <<CountOp(parent[i], seen[i] + 1)>>)
    /\ UNCHANGED <<owner, parent, seen, fileVars, dbVars, chosen, faults>>

\* Seeded fault: the whole story is saved with its new counter.
CountRecording_SavesStory(i) ==
    /\ phase[i] = "counting"
    /\ phase' = [phase EXCEPT ![i] = "done"]
    /\ Writes(owner[i], IF seen[i] = Absent THEN <<>>
                        ELSE <<[PublishOp(parent[i]) EXCEPT !.n = seen[i] + 1]>>)
    /\ UNCHANGED <<owner, parent, seen, fileVars, dbVars, chosen, faults>>

\* The callback: if let value as String, write it back plus one.
CountRecording(i) ==
    /\ phase[i] = "counting"
    /\ phase' = [phase EXCEPT ![i] = "done"]
    /\ Writes(owner[i], IF seen[i] = Absent THEN <<>>
                        ELSE <<CountOp(parent[i], seen[i] + 1)>>)
    /\ UNCHANGED <<owner, parent, seen, fileVars, dbVars, chosen, faults>>

-----------------------------------------------------------------------------
(* The story screen and ProfileVC *)

DidSelectRow(d, s) ==
    /\ rows[d][s].count > 0
    /\ chosen' = [chosen EXCEPT ![d] = s]
    /\ UNCHANGED <<upVars, fileVars, dbVars, netVars, listVars, faults>>

\* "Yes" to the delete alert, on a row of the user's own list; it may be the
\* second, if the app was killed before the first was sent.
DeleteStory(d, s) ==
    /\ rows[d][s].count > 0 /\ owner[s] = d
    /\ deleted' = deleted \cup {s}
    /\ Writes(d, <<RemoveOp(s), ClearOp(s)>>)
    /\ UNCHANGED <<upVars, file, dbVars, chosen, faults>>

\* The storage request the deletion made; it may never succeed.
EraseFile(s) ==
    /\ s \in deleted /\ file[s] = "stored"
    /\ file' = [file EXCEPT ![s] = "erased"]
    /\ UNCHANGED <<upVars, deleted, dbVars, netVars, listVars, chosen, faults>>

-----------------------------------------------------------------------------
(* Firebase *)

\* The server applies the device's next write and tells every device.
ServerReceives(d) ==
    /\ arrived[d] < Len(out[d])
    /\ LET w == out[d][arrived[d] + 1] IN
        /\ feed' = Applied(feed, w)
        /\ stories' = [s \in Story |->
                        IF w.op = "reply" /\ parent[w.id] = s THEN stories[s] \cup {w.id}
                        ELSE IF w.op = "clear" /\ w.id = s THEN {}
                        ELSE stories[s]]
        /\ inbox' = [e \in Device |-> Append(inbox[e], [by |-> d, write |-> w])]
    /\ arrived' = [arrived EXCEPT ![d] = @ + 1]
    /\ UNCHANGED <<upVars, fileVars, out, cache, listVars, chosen, faults>>

\* The device hears of a write; its own is thereby answered.
DeviceHears(d) ==
    /\ inbox[d] # <<>>
    /\ LET m     == Head(inbox[d])
           heard == Applied(cache[d], m.write)
           own   == IF m.by = d THEN Tail(out[d]) ELSE out[d]
       IN  /\ cache' = [cache EXCEPT ![d] = heard]
           /\ out' = [out EXCEPT ![d] = own]
           /\ arrived' = [arrived EXCEPT ![d] = IF m.by = d THEN @ - 1 ELSE @]
           /\ ListOfFeedEvents(d, Visible(d), View(heard, own))
    /\ inbox' = [inbox EXCEPT ![d] = Tail(@)]
    /\ UNCHANGED <<upVars, fileVars, dbVars, chosen, faults>>

\* The connection was lost and is back: the observer gets the server's data
\* as it is now, and every write without an answer is sent again.
Reconnect(d) ==
    /\ faults < MaxFaults
    /\ faults' = faults + 1
    /\ cache' = [cache EXCEPT ![d] = feed]
    /\ inbox' = [inbox EXCEPT ![d] = <<>>]
    /\ arrived' = [arrived EXCEPT ![d] = 0]
    /\ ListOfFeedEvents(d, Visible(d), View(feed, out[d]))
    /\ UNCHANGED <<upVars, fileVars, dbVars, out, chosen>>

\* The app is killed and launched again: callbacks and unanswered writes are
\* gone, the list is built anew from the server's data.
Relaunch(d) ==
    /\ faults < MaxFaults
    /\ faults' = faults + 1
    /\ phase' = [i \in Item |->
                    IF owner[i] = d /\ phase[i] \notin {"unused", "done"}
                    THEN "lost" ELSE phase[i]]
    /\ out' = [out EXCEPT ![d] = <<>>]
    /\ arrived' = [arrived EXCEPT ![d] = 0]
    /\ inbox' = [inbox EXCEPT ![d] = <<>>]
    /\ cache' = [cache EXCEPT ![d] = feed]
    /\ rows' = [rows EXCEPT ![d] = [s \in Story |->
                    [count |-> IF feed[s].body THEN 1 ELSE 0, n |-> feed[s].n]]]
    /\ bare' = [bare EXCEPT ![d] =
                    Cardinality({s \in Story : Exists(feed[s]) /\ ~feed[s].body})]
    /\ chosen' = [chosen EXCEPT ![d] = None]
    /\ UNCHANGED <<owner, parent, seen, fileVars, dbVars>>

Next ==
    \/ \E d \in Device :
        \/ \E s \in Story : SendStory(d, s) \/ DidSelectRow(d, s) \/ DeleteStory(d, s)
        \/ \E i \in Reply : SendReply(d, i)
        \/ ServerReceives(d) \/ DeviceHears(d)
        \/ Reconnect(d) \/ Relaunch(d)
    \/ \E i \in Item : PutFile(i) \/ DownloadURLFails(i) \/ DownloadURL(i)
    \/ \E i \in Reply : ReadNoRecordings(i) \/ CountRecording(i)
    \/ \E s \in Story : EraseFile(s)

\* The database delivers: a write reaches the server and every device hears
\* of it.  Uploads get an answer, good or bad, and callbacks run.
Fairness ==
    /\ \A d \in Device : WF_vars(ServerReceives(d)) /\ WF_vars(DeviceHears(d))
    /\ \A i \in Item :
        /\ WF_vars(PutFile(i))
        /\ WF_vars(DownloadURL(i) \/ DownloadURLFails(i))
    /\ \A i \in Reply :
        /\ WF_vars(ReadNoRecordings(i))
        /\ WF_vars(CountRecording(i))

Spec == Init /\ [][Next]_vars /\ Fairness

-----------------------------------------------------------------------------
UploadsOK ==
    /\ phase \in [Item -> Phase]
    /\ owner \in [Item -> Device \cup {None}]
    /\ parent \in [Reply -> Story \cup {None}]
    /\ seen \in [Reply -> Nat \cup {Absent}]
    /\ file \in [Item -> {"none", "stored", "erased"}]
    /\ deleted \subseteq Story
    /\ \A i \in Item : phase[i] # "unused" => owner[i] # None
    /\ \A i \in Reply : phase[i] # "unused" => parent[i] # None

ServerOK ==
    /\ feed \in [Story -> Node]
    /\ stories \in [Story -> SUBSET Reply]

NetworkOK ==
    /\ out \in [Device -> Seq(Write)]
    /\ arrived \in [Device -> Nat]
    /\ \A d \in Device : arrived[d] <= Len(out[d])
    /\ inbox \in [Device -> Seq([by : Device, write : Write])]
    /\ cache \in [Device -> [Story -> Node]]

ListsOK ==
    /\ rows \in [Device -> [Story -> Row]]
    /\ bare \in [Device -> Nat]
    /\ chosen \in [Device -> Story \cup {None}]
    /\ faults \in 0..MaxFaults

(* Every variable has its type, an upload that started has a device, and a *)
(* reply a story.                                                          *)
TypeOK == UploadsOK /\ ServerOK /\ NetworkOK /\ ListsOK

(* Nobody is shown a story, and the database names none, whose recording   *)
(* was not stored first: however the upload, the writes and the list       *)
(* updates interleave, an upload that failed leaves nothing behind.        *)
AudioBeforeStory ==
    /\ \A s \in Story :
        feed[s].body \/ (\E d \in Device : rows[d][s].count > 0) => file[s] # "none"
    /\ \A s \in Story : \A i \in stories[s] : file[i] # "none"

\* The replies to s whose client has run the counter's callback and written.
Counted(s) ==
    {i \in Reply : parent[i] = s /\ phase[i] = "done" /\ seen[i] # Absent}

(* noRecordings never claims more recordings than were added, on the       *)
(* server or on any screen, although each client writes the value it read  *)
(* plus one without a transaction, over others' writes, and possibly twice *)
(* (line 137).  It may well claim fewer.                                   *)
CounterIsEarned ==
    \A s \in Story :
        /\ feed[s].n <= Cardinality(Counted(s))
        /\ \A d \in Device : rows[d][s].n <= Cardinality(Counted(s))

(* The list a device shows, built from childAdded, childChanged and        *)
(* childRemoved alone, is the device's view of Feed: each story once, with *)
(* its counter, and no other, until the story is deleted.                  *)
RowsFollowView ==
    \A d \in Device, s \in Story \ deleted :
        /\ rows[d][s].count = IF Visible(d)[s].body THEN 1 ELSE 0
        /\ Visible(d)[s].body => rows[d][s].n = Visible(d)[s].n

(* A device that has nothing to send and nothing to hear lists what the    *)
(* server has, and so what every other such device lists, each story with  *)
(* the same counter: whatever order they heard of their writes in, and     *)
(* whatever was sent again, no list is left behind for ever.               *)
SettledListsAgree ==
    \A d \in Device, s \in Story \ deleted :
        out[d] = <<>> /\ inbox[d] = <<>> =>
            /\ rows[d][s].count = IF feed[s].body THEN 1 ELSE 0
            /\ feed[s].body => rows[d][s].n = feed[s].n

\* s is off its author's list, and off the server too once the author's writes
\* have arrived.
TakenBack(s) ==
    \E d \in Device :
        /\ owner[s] = d
        /\ rows[d][s].count = 0
        /\ ~View(feed, out[d])[s].body /\ ~Visible(d)[s].body

(* A deletion, the first or a further one, stands: the story never comes   *)
(* back on its author's list, and publishing it again after a lost         *)
(* connection, or another device's counting, does not outlive the removal. *)
(* Only an author's app that is killed with the removal unsent forgets it  *)
(* (ProfileVC, line 164).                                                  *)
DeletionStands ==
    [][\A s \in deleted' :
          s \notin deleted \/ TakenBack(s) \/ (\E d \in Device : DeleteStory(d, s)) =>
              TakenBack(s)' \/ \E d \in Device : owner[s] = d /\ Relaunch(d)]_vars

(* A story that reached the server reaches every device's list, unless it  *)
(* is deleted first, whatever connections are lost and apps killed.        *)
StoryReachesEveryone ==
    \A s \in Story :
        feed[s].body ~> s \in deleted \/ \A d \in Device : rows[d][s].count = 1

(* Every row has the uniqueID that cellForRowAt unwraps by force.          *)
RowsHaveUniqueID == \A d \in Device : bare[d] = 0

-----------------------------------------------------------------------------
(* The board that the callbacks, the queues and the connections amount to *)

Stored      == {i \in Item : file[i] # "none"}
Up          == {s \in Story : feed[s].body}
Tallies     == [s \in Story |-> feed[s].n]
Authored    == [d \in Device |-> {s \in Story : owner[s] = d /\ phase[s] = "done"}]
AllCounted  == [s \in Story |-> Counted(s)]
Shown       == [d \in Device |-> {s \in Story : rows[d][s].count > 0}]

Board == INSTANCE StoryBoard WITH
    stored <- Stored, authored <- Authored, agreed <- deleted, up <- Up, tally <- Tallies,
    replies <- stories, counted <- AllCounted, shown <- Shown

(* The chain of callbacks, the queues, what is sent again and what is      *)
(* forgotten amount to a board: each step is one of its actions, at once,  *)
(* or shows nothing.  Above all no deletion reaches the server that its    *)
(* author did not ask for, and no list loses a story without, but for an   *)
(* author's own: an app that is killed forgets a story it has not sent.    *)
ImplementsBoard == Board!Spec

=============================================================================
