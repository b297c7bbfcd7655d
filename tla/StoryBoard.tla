----------------------------- MODULE StoryBoard -----------------------------
(***************************************************************************)
(* What the feed promises, with no callbacks, queues or connections in it: *)
(* a board of stories.  Each action is one step that users can tell from   *)
(* the others.  StoryFeed implements it.                                   *)
(***************************************************************************)
EXTENDS Integers, FiniteSets

CONSTANTS
    Device,
    Story,
    Reply

VARIABLES
    stored,   \* the recordings that were taken into Storage
    authored, \* the stories that each device published
    agreed,   \* the stories whose author agreed to delete them
    up,       \* the stories on the board
    tally,    \* the number of recordings it states for each, -1 for none
    replies,  \* the replies on the board, below each story
    counted,  \* the replies that were counted for each story
    shown     \* the stories that each device lists

vars == <<stored, authored, agreed, up, tally, replies, counted, shown>>

Init ==
    /\ stored = {} /\ agreed = {} /\ up = {}
    /\ authored = [d \in Device |-> {}]
    /\ tally = [s \in Story |-> -1]
    /\ replies = [s \in Story |-> {}]
    /\ counted = [s \in Story |-> {}]
    /\ shown = [d \in Device |-> {}]

Store(i) ==
    /\ i \notin stored
    /\ stored' = stored \cup {i}
    /\ UNCHANGED <<authored, agreed, up, tally, replies, counted, shown>>

\* A story has one author, whose own list has it before the board has.
Publish(d, s) ==
    /\ s \in stored /\ \A e \in Device : s \notin authored[e]
    /\ authored' = [authored EXCEPT ![d] = @ \cup {s}]
    /\ shown' = [shown EXCEPT ![d] = @ \cup {s}]
    /\ UNCHANGED <<stored, agreed, up, tally, replies, counted>>

\* A client whose connection was lost may post again.
Post(s) ==
    /\ s \in stored
    /\ up' = up \cup {s}
    /\ tally' = [tally EXCEPT ![s] = 0]
    /\ UNCHANGED <<stored, authored, agreed, replies, counted, shown>>

Attach(s, i) ==
    /\ i \in stored
    /\ replies' = [replies EXCEPT ![s] = @ \cup {i}]
    /\ UNCHANGED <<stored, authored, agreed, up, tally, counted, shown>>

\* A reply is counted once, for one story.
Count(s, i) ==
    /\ i \in stored /\ \A t \in Story : i \notin counted[t]
    /\ counted' = [counted EXCEPT ![s] = @ \cup {i}]
    /\ UNCHANGED <<stored, authored, agreed, up, tally, replies, shown>>

\* The board may state fewer than were counted, never more.
Tally(s) ==
    /\ \E n \in 1..Cardinality(counted[s]) : tally' = [tally EXCEPT ![s] = n]
    /\ UNCHANGED <<stored, authored, agreed, up, replies, counted, shown>>

\* An author may have to agree again, see Relaunch.
Agree(d, s) ==
    /\ s \in shown[d] \cap authored[d]
    /\ agreed' = agreed \cup {s}
    /\ shown' = [shown EXCEPT ![d] = @ \ {s}]
    /\ UNCHANGED <<stored, authored, up, tally, replies, counted>>

Withdraw(s) ==
    /\ s \in agreed
    /\ up' = up \ {s}
    /\ tally' = [tally EXCEPT ![s] = -1]
    /\ UNCHANGED <<stored, authored, agreed, replies, counted, shown>>

Clear(s) ==
    /\ s \in agreed
    /\ replies' = [replies EXCEPT ![s] = {}]
    /\ UNCHANGED <<stored, authored, agreed, up, tally, counted, shown>>

\* A list gains stories that are, or were, on the board, and loses only those
\* that were agreed to be deleted.
Refresh(d) ==
    /\ \E list \in SUBSET Story :
          /\ list \ shown[d] \subseteq up \cup agreed
          /\ shown[d] \ list \subseteq agreed
          /\ shown' = [shown EXCEPT ![d] = list]
    /\ UNCHANGED <<stored, authored, agreed, up, tally, replies, counted>>

\* A killed app starts again with the board as it is, without its user's own
\* stories that never reached the board, and with those its user agreed to
\* delete that are still there.
Relaunch(d) ==
    /\ shown[d] \ up \subseteq agreed \cup authored[d]
    /\ shown' = [shown EXCEPT ![d] = up]
    /\ UNCHANGED <<stored, authored, agreed, up, tally, replies, counted>>

Next ==
    \/ \E i \in Story \cup Reply : Store(i)
    \/ \E s \in Story, i \in Reply : Attach(s, i) \/ Count(s, i)
    \/ \E s \in Story : Post(s) \/ Tally(s) \/ Withdraw(s) \/ Clear(s)
    \/ \E d \in Device, s \in Story : Publish(d, s) \/ Agree(d, s)
    \/ \E d \in Device : Refresh(d) \/ Relaunch(d)

Spec == Init /\ [][Next]_vars

=============================================================================
