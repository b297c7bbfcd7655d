----------------------------- MODULE ProfileList -----------------------------
(***************************************************************************)
(* ProfileVC: the list of the user's own stories, kept by the observers of *)
(* Feed, the table that draws it a little later, and the delete alert.     *)
(*                                                                         *)
(* reloadData is handed to the main queue, so that touches and scrolling   *)
(* meet a table that is behind the list; the alert keeps the index of the  *)
(* row that was swiped and looks the story up when "Yes" is pressed, while *)
(* stories go on coming (an upload of this or of another device) and going.*)
(*                                                                         *)
(* Feed is the device's view of it, see StoryFeed.  The main queue is      *)
(* first-in first-out: an observer's callback is taken together with the   *)
(* change that causes it.  A node without a creatorID is never listed, and *)
(* is left out.                                                            *)
(***************************************************************************)
EXTENDS Integers, Sequences, SequencesExt

CONSTANTS
    Story,
    Own,      \* the stories whose creatorID is the user's
    None,     \* no story
    MaxCount  \* bound on noRecordings

ASSUME ListAssumption == Own \subseteq Story /\ None \notin Story /\ MaxCount \in Nat

VARIABLES
    published, \* the stories that have been in Feed
    heard,     \* how many childAdded there were ...
    added,     \* ... and which of them was each story's (both only recorded)
    count,     \* noRecordings of each
    deleted,   \* the stories taken out of Feed, here or elsewhere ...
    erased,    \* ... and those this screen deleted, their audio files too
    feedList,  \* _feedList, newest first
    drawn,     \* the stories of the table's rows, as last drawn
    reloading, \* a reloadData waits on the main queue
    alert,     \* indexPath.row the delete alert keeps, 0 without an alert
    asked,     \* the story in the row that was swiped (only recorded)
    steady,    \* since then the list has been as it was drawn (only recorded)
    agreed,    \* stories the user said "Yes" to (only recorded)
    chosen,    \* _chosenFeed
    crashed    \* an index was out of range

arrivals  == <<published, heard, added>>
feedVars  == <<arrivals, count, deleted, erased>>
tableVars == <<feedList, drawn, reloading>>
alertVars == <<alert, asked, steady, agreed>>
vars      == <<feedVars, tableVars, alertVars, chosen, crashed>>

There  == published \ deleted
Item   == [story : Story, n : 0..MaxCount]
Stories(list) == [i \in DOMAIN list |-> list[i].story]

Init ==
    /\ published = {} /\ heard = 0 /\ added = [s \in Story |-> 0]
    /\ count = [s \in Story |-> 0] /\ deleted = {} /\ erased = {}
    /\ feedList = <<>> /\ drawn = <<>> /\ reloading = FALSE
    /\ alert = 0 /\ asked = None /\ steady = TRUE /\ agreed = {}
    /\ chosen = None /\ crashed = FALSE

-----------------------------------------------------------------------------
(* listOfFeedEvents *)

IsListed(list, s) == \E i \in DOMAIN list : list[i].story = s
RowOf(list, s)    == CHOOSE i \in DOMAIN list : list[i].story = s

\* filter(){ $0.uniqueID != s }: a story has one row at most.
Without(list, s) == IF IsListed(list, s) THEN RemoveAt(list, RowOf(list, s)) ELSE list

\* The list changes; the table is told so by a block on the main queue.
Becomes(list) ==
    /\ feedList' = list
    /\ reloading' = TRUE
    /\ UNCHANGED drawn

\* An alert that is up stays; it is only recorded whether its row moved.
AlertStays(list) ==
    /\ steady' = (steady /\ Stories(list) = Stories(feedList))
    /\ UNCHANGED <<alert, asked, agreed>>

\* Feed has a story more.
Arrives(s) ==
    /\ published' = published \cup {s}
    /\ heard' = heard + 1
    /\ added' = [added EXCEPT ![s] = heard + 1]

\* Seeded fault: everybody's stories are listed.
ChildAdded_Everybody(s) ==
    /\ ~crashed /\ s \notin published
    /\ Arrives(s)
    /\ LET list == <<[story |-> s, n |-> count[s]]>> \o feedList
       IN  Becomes(list) /\ AlertStays(list)
    /\ UNCHANGED <<count, deleted, erased, chosen, crashed>>

ChildAdded(s) ==
    /\ ~crashed /\ s \notin published
    /\ Arrives(s)
    /\ LET list == IF s \in Own THEN <<[story |-> s, n |-> count[s]]>> \o feedList ELSE feedList
       IN  Becomes(list) /\ AlertStays(list)
    /\ UNCHANGED <<count, deleted, erased, chosen, crashed>>

\* Seeded fault: the counter is copied to the newest row.
ChildChanged_FirstRow(s) ==
    /\ ~crashed /\ s \in There /\ count[s] < MaxCount
    /\ count' = [count EXCEPT ![s] = @ + 1]
    /\ LET list == IF s \in Own /\ IsListed(feedList, s)
                   THEN [feedList EXCEPT ![1].n = count[s] + 1]
                   ELSE feedList
       IN  Becomes(list) /\ AlertStays(list)
    /\ UNCHANGED <<arrivals, deleted, erased, chosen, crashed>>

\* A recording was added to the story, here or elsewhere.
ChildChanged(s) ==
    /\ ~crashed /\ s \in There /\ count[s] < MaxCount
    /\ count' = [count EXCEPT ![s] = @ + 1]
    /\ LET list == IF s \in Own /\ IsListed(feedList, s)
                   THEN [feedList EXCEPT ![RowOf(feedList, s)].n = count[s] + 1]
                   ELSE feedList
       IN  Becomes(list) /\ AlertStays(list)
    /\ UNCHANGED <<arrivals, deleted, erased, chosen, crashed>>

\* Its user deleted it on another device.
ChildRemoved(s) ==
    /\ ~crashed /\ s \in There
    /\ deleted' = deleted \cup {s}
    /\ LET list == Without(feedList, s)
       IN  Becomes(list) /\ AlertStays(list)
    /\ UNCHANGED <<arrivals, count, erased, chosen, crashed>>

-----------------------------------------------------------------------------
(* The table *)

\* Seeded fault: the reload is dropped while the alert is up.
ReloadData_NotBehindAlert ==
    /\ ~crashed /\ reloading
    /\ reloading' = FALSE
    /\ drawn' = IF alert = 0 THEN Stories(feedList) ELSE drawn
    /\ UNCHANGED <<feedVars, feedList, alertVars, chosen, crashed>>

ReloadData ==
    /\ ~crashed /\ reloading
    /\ reloading' = FALSE
    /\ drawn' = Stories(feedList)
    /\ UNCHANGED <<feedVars, feedList, alertVars, chosen, crashed>>

\* showEmptyStateOrList hides the table of an empty list.
Touchable(i) == ~crashed /\ alert = 0 /\ feedList # <<>> /\ i \in DOMAIN drawn

\* Scrolling brings a row in.
CellForRowAt(i) ==
    /\ ~crashed /\ feedList # <<>> /\ i \in DOMAIN drawn
    /\ \/ /\ i \in DOMAIN feedList
          /\ drawn' = [drawn EXCEPT ![i] = feedList[i].story]
          /\ UNCHANGED crashed
       \/ /\ i \notin DOMAIN feedList
          /\ crashed' = TRUE
          /\ UNCHANGED drawn
    /\ UNCHANGED <<feedVars, feedList, reloading, alertVars, chosen>>

DidSelectRowAt(i) ==
    /\ Touchable(i)
    /\ \/ /\ i \in DOMAIN feedList
          /\ chosen' = feedList[i].story
          /\ UNCHANGED crashed
       \/ /\ i \notin DOMAIN feedList
          /\ crashed' = TRUE
          /\ UNCHANGED chosen
    /\ UNCHANGED <<feedVars, tableVars, alertVars>>

-----------------------------------------------------------------------------
(* The delete action *)

\* Seeded fault: the row is kept counted from zero.
CommitDelete_FromZero(i) ==
    /\ Touchable(i)
    /\ alert' = i - 1
    /\ asked' = drawn[i]
    /\ steady' = ~reloading
    /\ UNCHANGED <<feedVars, tableVars, agreed, chosen, crashed>>

CommitDelete(i) ==
    /\ Touchable(i)
    /\ alert' = i
    /\ asked' = drawn[i]
    /\ steady' = ~reloading
    /\ UNCHANGED <<feedVars, tableVars, agreed, chosen, crashed>>

Cancel ==
    /\ ~crashed /\ alert # 0
    /\ alert' = 0
    /\ UNCHANGED <<feedVars, tableVars, asked, steady, agreed, chosen, crashed>>

\* Seeded fault: the audio file is deleted, the node in Feed is not.
Yes_FileOnly ==
    /\ ~crashed /\ alert # 0
    /\ agreed' = agreed \cup {asked}
    /\ alert' = 0
    /\ \/ /\ alert \in DOMAIN feedList
          /\ erased' = erased \cup {feedList[alert].story}
          /\ UNCHANGED crashed
       \/ /\ alert \notin DOMAIN feedList
          /\ crashed' = TRUE
          /\ UNCHANGED erased
    /\ UNCHANGED <<arrivals, count, deleted, tableVars, asked, steady, chosen>>

\* "Yes": the story is looked up now.
Yes ==
    /\ ~crashed /\ alert # 0
    /\ agreed' = agreed \cup {asked}
    /\ alert' = 0
    /\ \/ /\ alert \in DOMAIN feedList
          /\ LET s == feedList[alert].story
             IN  /\ deleted' = deleted \cup {s}
                 /\ erased' = erased \cup {s}
                 /\ Becomes(Without(feedList, s))
          /\ UNCHANGED crashed
       \/ /\ alert \notin DOMAIN feedList
          /\ crashed' = TRUE
          /\ UNCHANGED <<deleted, erased, tableVars>>
    /\ UNCHANGED <<arrivals, count, asked, steady, chosen>>

Next ==
    \/ \E s \in Story : ChildAdded(s) \/ ChildChanged(s) \/ ChildRemoved(s)
    \/ \E i \in DOMAIN drawn : CellForRowAt(i) \/ DidSelectRowAt(i) \/ CommitDelete(i)
    \/ ReloadData \/ Cancel \/ Yes

\* A block on the main queue runs.
Fairness == WF_vars(ReloadData)

Spec == Init /\ [][Next]_vars /\ Fairness

-----------------------------------------------------------------------------
(* Every variable has its type. *)
TypeOK ==
    /\ published \subseteq Story /\ deleted \subseteq published
    /\ erased \subseteq deleted
    /\ heard \in Nat /\ added \in [Story -> 0..heard]
    /\ count \in [Story -> 0..MaxCount]
    /\ feedList \in Seq(Item) /\ drawn \in Seq(Story)
    /\ reloading \in BOOLEAN /\ steady \in BOOLEAN /\ crashed \in BOOLEAN
    /\ alert \in Nat
    /\ asked \in Story \cup {None} /\ (alert # 0 => asked \in Story)
    /\ agreed \subseteq Story
    /\ chosen \in Story \cup {None}

(* However stories come, change and go, the list holds the user's stories  *)
(* that are in Feed, each once, with its counter, the last to come first.  *)
ListIsOwnFeed ==
    /\ \A s \in Story : IsListed(feedList, s) <=> s \in Own /\ s \in There
    /\ \A i, j \in DOMAIN feedList : feedList[i].story = feedList[j].story => i = j
    /\ \A i \in DOMAIN feedList : feedList[i].n = count[feedList[i].story]
    /\ \A i, j \in DOMAIN feedList :
          i < j => added[feedList[i].story] > added[feedList[j].story]

(* However its index has shifted when "Yes" is pressed, an alert deletes   *)
(* the user's own stories and nobody else's.                               *)
OnlyOwnAreErased == erased \subseteq Own

(* An alert under which the list did not change, on a table that was up to *)
(* date, is about the story in the row that was swiped.                    *)
SteadyAlertIsRight ==
    alert # 0 /\ steady => alert \in DOMAIN feedList /\ feedList[alert].story = asked

(* A table with no reload on its way shows the list, row by row: an index  *)
(* out of range, or a tap that opens another story, needs a change that    *)
(* the main queue has not yet drawn.                                       *)
SettledTableIsTheList == ~reloading => drawn = Stories(feedList)

(* The table catches up with the list, unless the app ends.                *)
TableCatchesUp ==
    drawn # Stories(feedList) ~> (drawn = Stories(feedList) \/ crashed)

(* "This will permanently delete this story": what is deleted is a story   *)
(* the user was asked about and agreed to.                                 *)
OnlyAgreedAreErased == erased \subseteq agreed

=============================================================================
