-------------------------- MODULE StoryBoardProofs --------------------------
(***************************************************************************)
(* StoryFeed keeps its counters and its lists right, and implements        *)
(* StoryBoard, for any number of devices, stories, replies and faults.     *)
(***************************************************************************)
EXTENDS StoryFeedProofs

(* What is written and on its way *)

\* Every write that waits for an answer, or to be heard of, is one of W.
QueuesIn(W) ==
    \A d \in Device :
        /\ \A k \in 1..Len(out[d]) : out[d][k] \in W
        /\ \A k \in 1..Len(inbox[d]) : inbox[d][k].write \in W

LEMMA WritesIn ==
    ASSUME NetworkOK, NEW d \in Device, NEW ops \in Seq(Write), Writes(d, ops),
           NEW W, QueuesIn(W), \A k \in 1..Len(ops) : ops[k] \in W
    PROVE  QueuesIn(W)'
<1> DEFINE own == out[d] \o ops
<1>1. out[d] \in Seq(Write)
  BY DEF NetworkOK
<1>2. /\ own \in Seq(Write) /\ Len(own) = Len(out[d]) + Len(ops)
      /\ \A k \in 1..Len(own) :
            own[k] = IF k <= Len(out[d]) THEN out[d][k] ELSE ops[k - Len(out[d])]
  BY <1>1, ConcatProperties
<1>3. Len(out[d]) \in Nat /\ Len(ops) \in Nat
  BY <1>1, LenProperties
<1>4. out' = [out EXCEPT ![d] = own] /\ inbox' = inbox
  BY DEF Writes
<1> HIDE DEF own
<1>5. ASSUME NEW k \in 1..Len(own) PROVE own[k] \in W
  <2>1. CASE k <= Len(out[d])
    <3>1. k \in 1..Len(out[d]) /\ own[k] = out[d][k]
      BY <1>2, <1>3, <2>1
    <3> QED
      BY <3>1 DEF QueuesIn
  <2>2. CASE k > Len(out[d])
    <3>1. k - Len(out[d]) \in 1..Len(ops) /\ own[k] = ops[k - Len(out[d])]
      BY <1>2, <1>3, <2>2
    <3> QED
      BY <3>1
  <2> QED
    BY <1>2, <1>3, <2>1, <2>2
<1> QED
  BY <1>4, <1>5 DEF QueuesIn, NetworkOK

\* The write that the server applies next, and what it tells the devices.
Sent(d)    == out[d][arrived[d] + 1]
Telling(d) == [by |-> d, write |-> Sent(d)]
Message    == [by : Device, write : Write]

LEMMA SentFacts ==
    ASSUME NetworkOK, NEW d \in Device, ServerReceives(d)
    PROVE  /\ Sent(d) \in Write /\ Telling(d) \in Message
           /\ arrived[d] + 1 \in 1..Len(out[d]) /\ arrived[d] \in Nat
           /\ feed' = Applied(feed, Sent(d))
           /\ arrived' = [arrived EXCEPT ![d] = arrived[d] + 1]
           /\ UNCHANGED <<out, cache>>
           /\ \A e \in Device :
                /\ inbox'[e] = Append(inbox[e], Telling(d))
                /\ Len(inbox'[e]) = Len(inbox[e]) + 1 /\ Len(inbox[e]) \in Nat
                /\ \A k \in 1..Len(inbox[e]) : inbox'[e][k] = inbox[e][k]
                /\ inbox'[e][Len(inbox[e]) + 1] = Telling(d)
<1>1. out[d] \in Seq(Write) /\ Len(out[d]) \in Nat /\ arrived[d] \in Nat
  BY LenProperties DEF NetworkOK
<1>2. arrived[d] + 1 \in 1..Len(out[d])
  BY <1>1 DEF ServerReceives
<1>3. Sent(d) \in Write
  BY <1>1, <1>2, ElementOfSeq DEF Sent
<1>4. Telling(d) \in Message
  BY <1>3 DEF Telling, Message
<1>5. inbox' = [e \in Device |-> Append(inbox[e], Telling(d))]
  BY DEF ServerReceives, Sent, Telling
<1>6. /\ feed' = Applied(feed, Sent(d)) /\ arrived' = [arrived EXCEPT ![d] = arrived[d] + 1]
      /\ UNCHANGED <<out, cache>>
  BY DEF ServerReceives, Sent
<1>7. ASSUME NEW e \in Device
      PROVE  /\ inbox'[e] = Append(inbox[e], Telling(d))
             /\ Len(inbox'[e]) = Len(inbox[e]) + 1 /\ Len(inbox[e]) \in Nat
             /\ \A k \in 1..Len(inbox[e]) : inbox'[e][k] = inbox[e][k]
             /\ inbox'[e][Len(inbox[e]) + 1] = Telling(d)
  <2>1. inbox[e] \in Seq(Message)
    BY DEF NetworkOK, Message
  <2>2. inbox'[e] = Append(inbox[e], Telling(d))
    BY <1>5
  <2> QED
    BY <1>4, <2>1, <2>2, AppendProperties, LenProperties
<1> QED
  BY <1>1, <1>2, <1>3, <1>4, <1>6, <1>7

LEMMA ReceivesIn ==
    ASSUME NetworkOK, NEW d \in Device, ServerReceives(d), NEW W, QueuesIn(W)
    PROVE  QueuesIn(W)'
<1>1. Telling(d).write \in W
  BY SentFacts DEF QueuesIn, Sent, Telling
<1>2. ASSUME NEW e \in Device, NEW k \in 1..Len(inbox'[e])
      PROVE  inbox'[e][k].write \in W
  <2>1. /\ Len(inbox'[e]) = Len(inbox[e]) + 1 /\ Len(inbox[e]) \in Nat
        /\ \A j \in 1..Len(inbox[e]) : inbox'[e][j] = inbox[e][j]
        /\ inbox'[e][Len(inbox[e]) + 1] = Telling(d)
    BY SentFacts
  <2>2. CASE k \in 1..Len(inbox[e])
    <3>1. inbox'[e][k] = inbox[e][k]
      BY <2>1, <2>2
    <3> QED
      BY <2>2, <3>1 DEF QueuesIn
  <2>3. CASE k = Len(inbox[e]) + 1
    BY <1>1, <2>1, <2>3
  <2> QED
    BY <2>1, <2>2, <2>3
<1>3. out' = out
  BY SentFacts
<1> QED
  BY <1>2, <1>3 DEF QueuesIn

\* What d hears next, what it has then heard, and its writes without an answer.
Told(d)   == Head(inbox[d])
Heard(d)  == Applied(cache[d], Told(d).write)
Kept(d)   == IF Told(d).by = d THEN Tail(out[d]) ELSE out[d]
Shift(d)  == IF Told(d).by = d THEN 1 ELSE 0

LEMMA HearFacts ==
    ASSUME TypeInv, NEW d \in Device, DeviceHears(d)
    PROVE  /\ Told(d) \in Message /\ Told(d) = inbox[d][1]
           /\ Heard(d) \in [Story -> Node]
           /\ Len(inbox[d]) \in Nat \ {0}
           /\ Len(inbox'[d]) = Len(inbox[d]) - 1
           /\ \A k \in 1..Len(inbox'[d]) : inbox'[d][k] = inbox[d][k + 1]
           /\ Kept(d) \in Seq(Write) /\ Len(out[d]) \in Nat
           /\ Len(Kept(d)) = Len(out[d]) - Shift(d)
           /\ \A k \in 1..Len(Kept(d)) : Kept(d)[k] = out[d][k + Shift(d)]
           /\ cache' = [cache EXCEPT ![d] = Heard(d)]
           /\ out' = [out EXCEPT ![d] = Kept(d)]
           /\ arrived' = [arrived EXCEPT ![d] = arrived[d] - Shift(d)]
           /\ inbox' = [inbox EXCEPT ![d] = Tail(inbox[d])]
           /\ arrived[d] \in Nat /\ Shift(d) <= arrived[d] /\ arrived[d] <= Len(out[d])
           /\ ListOfFeedEvents(d, Visible(d), View(Heard(d), Kept(d)))
           /\ feed' = feed
<1> USE DEF TypeInv, TypeOK
<1>1. inbox[d] \in Seq(Message) /\ inbox[d] # <<>>
  BY DEF DeviceHears, NetworkOK, Message
<1>2. /\ Told(d) \in Message /\ Told(d) = inbox[d][1]
      /\ Len(inbox[d]) \in Nat \ {0} /\ Len(Tail(inbox[d])) = Len(inbox[d]) - 1
      /\ \A k \in 1..Len(Tail(inbox[d])) : Tail(inbox[d])[k] = inbox[d][k + 1]
  <2>1. Head(inbox[d]) \in Message
    BY <1>1, HeadTailProperties
  <2> QED
    BY <1>1, <2>1, HeadTailProperties, EmptySeq DEF Told
<1>3. /\ cache' = [cache EXCEPT ![d] = Heard(d)]
      /\ out' = [out EXCEPT ![d] = Kept(d)]
      /\ inbox' = [inbox EXCEPT ![d] = Tail(inbox[d])]
      /\ ListOfFeedEvents(d, Visible(d), View(Heard(d), Kept(d)))
      /\ feed' = feed
      /\ arrived' = [arrived EXCEPT ![d] = IF Told(d).by = d THEN arrived[d] - 1 ELSE arrived[d]]
  BY DEF DeviceHears, Heard, Kept, Told, dbVars
<1>4. inbox'[d] = Tail(inbox[d])
  BY <1>3 DEF NetworkOK
<1>5. Heard(d) \in [Story -> Node]
  BY <1>2, AppliedType DEF NetworkOK, Heard, Message
<1>6. /\ arrived[d] \in Nat /\ arrived[d] <= Len(out[d]) /\ out[d] \in Seq(Write)
      /\ Len(out[d]) \in Nat
  BY LenProperties DEF NetworkOK
<1>7. Shift(d) <= arrived[d]
  <2>1. Cardinality(Answers(d)) = arrived[d]
    BY DEF AnswersMatch
  <2>2. Told(d).by = d => Cardinality(Answers(d)) >= 1
    BY <1>1, TailAnswer DEF Answers, Told
  <2> QED
    BY <1>6, <2>1, <2>2 DEF Shift
<1>8. arrived' = [arrived EXCEPT ![d] = arrived[d] - Shift(d)]
  <2>1. (IF Told(d).by = d THEN arrived[d] - 1 ELSE arrived[d]) = arrived[d] - Shift(d)
    BY <1>6 DEF Shift
  <2> QED
    BY <1>3, <2>1
<1>9. /\ Kept(d) \in Seq(Write) /\ Len(Kept(d)) = Len(out[d]) - Shift(d)
      /\ \A k \in 1..Len(Kept(d)) : Kept(d)[k] = out[d][k + Shift(d)]
  <2>1. CASE Told(d).by = d
    <3>1. out[d] # <<>> /\ Shift(d) = 1 /\ Kept(d) = Tail(out[d])
      BY <1>6, <1>7, <2>1, EmptySeq DEF Shift, Kept
    <3> QED
      BY <1>6, <3>1, HeadTailProperties
  <2>2. CASE Told(d).by # d
    BY <1>6, <2>2 DEF Shift, Kept
  <2> QED
    BY <2>1, <2>2
<1> QED
  BY <1>2, <1>3, <1>4, <1>5, <1>6, <1>7, <1>8, <1>9

LEMMA HearsIn ==
    ASSUME TypeInv, NEW d \in Device, DeviceHears(d), NEW W, QueuesIn(W)
    PROVE  QueuesIn(W)'
<1>1. out'[d] = Kept(d) /\ \A e \in Device \ {d} : out'[e] = out[e] /\ inbox'[e] = inbox[e]
  <2>1. out \in [Device -> Seq(Write)] /\ inbox \in [Device -> Seq(Message)]
    BY DEF TypeInv, TypeOK, NetworkOK, Message
  <2>2. out' = [out EXCEPT ![d] = Kept(d)] /\ inbox' = [inbox EXCEPT ![d] = Tail(@)]
    BY DEF DeviceHears, Kept, Told
  <2> QED
    BY <2>1, <2>2
<1>2. \A k \in 1..Len(Kept(d)) : Kept(d)[k] \in W
  <2>1. /\ Len(out[d]) \in Nat /\ Len(Kept(d)) = Len(out[d]) - Shift(d)
        /\ \A k \in 1..Len(Kept(d)) : Kept(d)[k] = out[d][k + Shift(d)]
    BY HearFacts
  <2>2. Shift(d) \in {0, 1}
    BY DEF Shift
  <2>3. \A k \in 1..Len(Kept(d)) : k + Shift(d) \in 1..Len(out[d])
    <3>1. Len(out[d]) \in Nat /\ Len(Kept(d)) = Len(out[d]) - Shift(d)
      BY <2>1
    <3> QED
      BY ONLY <2>2, <3>1
  <2>4. \A k \in 1..Len(out[d]) : out[d][k] \in W
    BY DEF QueuesIn
  <2> QED
    BY <2>1, <2>3, <2>4
<1>3. ASSUME NEW k \in 1..Len(inbox'[d]) PROVE inbox'[d][k].write \in W
  <2>1. inbox'[d][k] = inbox[d][k + 1] /\ k + 1 \in 1..Len(inbox[d])
    BY HearFacts
  <2> QED
    BY <2>1 DEF QueuesIn
<1> QED
  BY <1>1, <1>2, <1>3 DEF QueuesIn

LEMMA ResetIn ==
    ASSUME NetworkOK, NEW d \in Device, Reconnect(d) \/ Relaunch(d), NEW W, QueuesIn(W)
    PROVE  QueuesIn(W)'
<1>1. /\ inbox' = [inbox EXCEPT ![d] = <<>>]
      /\ out' = out \/ out' = [out EXCEPT ![d] = <<>>]
  BY DEF Reconnect, Relaunch
<1>2. \A k \in 1..Len(<<>>) : FALSE
  OBVIOUS
<1> QED
  BY <1>1, <1>2 DEF QueuesIn, NetworkOK

\* The write that saves an upload, and the writes of a counter's callback.
SaveOp(i)   == IF i \in Story THEN PublishOp(i) ELSE ReplyOp(i)
CountOps(i) == IF seen[i] = Absent THEN <<>> ELSE <<CountOp(parent[i], seen[i] + 1)>>
DeleteOps(s) == <<RemoveOp(s), ClearOp(s)>>

LEMMA OpsFacts ==
    ASSUME TypeOK
    PROVE  /\ \A i \in Item : <<SaveOp(i)>> \in Seq(Write)
           /\ \A i \in Reply : parent[i] \in Story => CountOps(i) \in Seq(Write)
           /\ \A s \in Story : DeleteOps(s) \in Seq(Write)
<1>1. \A i \in Item : SaveOp(i) \in Write
  BY FeedAssumption, OpTypes, 0 \in Nat DEF Item, SaveOp
<1>2. ASSUME NEW i \in Reply, parent[i] \in Story PROVE CountOps(i) \in Seq(Write)
  <2>1. seen[i] \in Nat \cup {Absent}
    BY DEF TypeOK, UploadsOK
  <2> QED
    BY <1>2, <2>1, OpTypes, EmptySeq DEF CountOps
<1>3. \A s \in Story : DeleteOps(s) \in Seq(Write)
  BY OpTypes, 0 \in Nat DEF DeleteOps
<1> QED
  BY <1>1, <1>2, <1>3

(* Only saving, counting and deleting bring new writes. *)
LEMMA NextQueues ==
    ASSUME TypeInv, [Next]_vars, NEW W, QueuesIn(W),
           \A i \in Item : DownloadURL(i) => SaveOp(i) \in W,
           \A i \in Reply : CountRecording(i) => \A k \in 1..Len(CountOps(i)) : CountOps(i)[k] \in W,
           \A d \in Device, s \in Story : DeleteStory(d, s) => RemoveOp(s) \in W /\ ClearOp(s) \in W
    PROVE  QueuesIn(W)'
<1>0. TypeOK /\ NetworkOK
  BY DEF TypeInv, TypeOK
<1>1. ASSUME UNCHANGED netVars PROVE QueuesIn(W)'
  BY <1>1 DEF netVars, QueuesIn
<1>2. ASSUME NEW i \in Item, DownloadURL(i) PROVE QueuesIn(W)'
  <2>1. owner[i] \in Device /\ Writes(owner[i], <<SaveOp(i)>>)
    BY <1>0, <1>2 DEF DownloadURL, TypeOK, UploadsOK, SaveOp
  <2>2. \A k \in 1..Len(<<SaveOp(i)>>) : <<SaveOp(i)>>[k] \in W
    BY <1>2
  <2>3. <<SaveOp(i)>> \in Seq(Write)
    BY <1>0, OpsFacts
  <2> QED
    BY <1>0, <2>1, <2>2, <2>3, WritesIn
<1>3. ASSUME NEW i \in Reply, CountRecording(i) PROVE QueuesIn(W)'
  <2>1. owner[i] \in Device /\ parent[i] \in Story /\ Writes(owner[i], CountOps(i))
    BY <1>0, <1>3, FeedAssumption DEF CountRecording, TypeOK, UploadsOK, Item, CountOps
  <2> QED
    BY <1>0, <1>3, <2>1, OpsFacts, WritesIn
<1>4. ASSUME NEW d \in Device, NEW s \in Story, DeleteStory(d, s) PROVE QueuesIn(W)'
  <2>1. Writes(d, DeleteOps(s))
    BY <1>4 DEF DeleteStory, DeleteOps
  <2>2. \A k \in 1..Len(DeleteOps(s)) : DeleteOps(s)[k] \in W
    BY <1>4 DEF DeleteOps
  <2>3. DeleteOps(s) \in Seq(Write)
    BY <1>0, OpsFacts
  <2> QED
    BY <1>0, <2>1, <2>2, <2>3, WritesIn
<1>5. ASSUME NEW d \in Device,
             ServerReceives(d) \/ DeviceHears(d) \/ Reconnect(d) \/ Relaunch(d)
      PROVE  QueuesIn(W)'
  BY <1>0, <1>5, ReceivesIn, HearsIn, ResetIn
<1>6. ASSUME NEW d \in Device, NEW i \in Item,
             \/ i \in Story /\ (SendStory(d, i) \/ DidSelectRow(d, i) \/ EraseFile(i))
             \/ i \in Reply /\ (SendReply(d, i) \/ ReadNoRecordings(i))
      PROVE  QueuesIn(W)'
  BY <1>1, <1>6 DEF SendStory, DidSelectRow, EraseFile, SendReply, ReadNoRecordings
<1>7. ASSUME NEW i \in Item, PutFile(i) \/ DownloadURLFails(i) PROVE QueuesIn(W)'
  BY <1>1, <1>7 DEF PutFile, DownloadURLFails
<1>8. ASSUME NEW i \in Reply, ReadNoRecordings(i) PROVE QueuesIn(W)'
  BY <1>1, <1>8 DEF ReadNoRecordings
<1>9. ASSUME NEW s \in Story, EraseFile(s) PROVE QueuesIn(W)'
  BY <1>1, <1>9 DEF EraseFile
<1>10. CASE UNCHANGED vars
  BY <1>1, <1>10 DEF vars
<1> QED
  BY <1>2, <1>3, <1>4, <1>5, <1>6, <1>7, <1>8, <1>9, <1>10 DEF Next, Item

-----------------------------------------------------------------------------
(* The counter is earned *)

\* The writes that put at most C[s] recordings into the counter of s, and the
\* nodes and rows that state at most that.
WithinOp(C)      == {w \in Write : w.op \in FeedOps => w.n <= C[w.id]}
Within(nodes, C) == \A s \in Story : nodes[s].n <= C[s]
RowsWithin(C)    == \A d \in Device : Within(rows[d], C)
SeenWithin(C)    == \A i \in Reply : phase[i] = "counting" => seen[i] <= C[parent[i]]

AllWithin(C) ==
    /\ QueuesIn(WithinOp(C))
    /\ Within(feed, C)
    /\ \A d \in Device : Within(cache[d], C)
    /\ RowsWithin(C)
    /\ SeenWithin(C)

LEMMA AppliedWithin ==
    ASSUME NEW nodes \in [Story -> Node], NEW C \in [Story -> Nat], Within(nodes, C),
           NEW w \in WithinOp(C)
    PROVE  Within(Applied(nodes, w), C)
<1> SUFFICES ASSUME NEW s \in Story PROVE Applied(nodes, w)[s].n <= C[s]
  BY DEF Within
<1>1. CASE w.op \notin FeedOps \/ w.id # s
  BY <1>1 DEF Applied, Within
<1>2. CASE w.op \in FeedOps /\ w.id = s
  <2>1. Applied(nodes, w)[s].n = w.n
    BY <1>2 DEF Applied
  <2> QED
    BY <1>2, <2>1 DEF WithinOp
<1> QED
  BY <1>1, <1>2

LEMMA ViewWithin ==
    ASSUME NEW heard \in [Story -> Node], NEW own \in Seq(Write),
           NEW C \in [Story -> Nat], Within(heard, C),
           \A k \in 1..Len(own) : own[k] \in WithinOp(C)
    PROVE  Within(View(heard, own), C)
<1> SUFFICES ASSUME NEW s \in Story PROVE View(heard, own)[s].n <= C[s]
  BY DEF Within
<1> DEFINE writes == {k \in 1..Len(own) : own[k].id = s /\ own[k].op \in FeedOps}
<1>1. View(heard, own)[s].n = IF writes = {} THEN heard[s].n ELSE own[Max(writes)].n
  BY DEF View
<1>2. CASE writes = {}
  BY <1>1, <1>2 DEF Within
<1>3. CASE writes # {}
  <2>1. Max(writes) \in writes
    BY <1>3, LenProperties, LastPosition
  <2>2. own[Max(writes)].n <= C[own[Max(writes)].id] /\ own[Max(writes)].id = s
    BY <2>1 DEF WithinOp
  <2> QED
    BY <1>1, <1>3, <2>2
<1> QED
  BY <1>2, <1>3

LEMMA ListWithin ==
    ASSUME ListsOK, NEW d \in Device, NEW C \in [Story -> Nat], RowsWithin(C),
           NEW old, NEW new \in [Story -> Node], Within(new, C),
           ListOfFeedEvents(d, old, new)
    PROVE  RowsWithin(C)'
<1> SUFFICES ASSUME NEW e \in Device, NEW s \in Story PROVE rows'[e][s].n <= C[s]
  BY DEF RowsWithin, Within
<1>1. CASE e # d
  BY <1>1 DEF ListOfFeedEvents, ListsOK, RowsWithin, Within
<1>2. CASE e = d
  <2>1. rows'[d][s] = RowAfter(rows[d][s], old, new, s)
    BY DEF ListOfFeedEvents, ListsOK
  <2>2. rows'[d][s].n = new[s].n \/ rows'[d][s].n = rows[d][s].n
    BY <2>1 DEF RowAfter
  <2> QED
    BY <1>2, <2>2 DEF RowsWithin, Within
<1> QED
  BY <1>1, <1>2

(* A device that writes nothing above C keeps all within C. *)
LEMMA WritesWithin ==
    ASSUME TypeInv, NEW d \in Device, NEW ops \in Seq(Write), Writes(d, ops),
           UNCHANGED dbVars, NEW C \in [Story -> Nat], AllWithin(C), SeenWithin(C)',
           \A k \in 1..Len(ops) : ops[k] \in WithinOp(C)
    PROVE  AllWithin(C)'
<1>0. NetworkOK /\ ListsOK
  BY DEF TypeInv, TypeOK
<1> DEFINE own == out[d] \o ops
<1>1. QueuesIn(WithinOp(C))'
  BY <1>0, WritesIn DEF AllWithin
<1>2. out' = [out EXCEPT ![d] = own] /\ cache' = cache
      /\ ListOfFeedEvents(d, Visible(d), View(cache[d], own))
  BY DEF Writes
<1>3. own \in Seq(Write) /\ cache[d] \in [Story -> Node]
  BY <1>0, ConcatProperties DEF NetworkOK
<1> HIDE DEF own
<1>4. \A k \in 1..Len(own) : own[k] \in WithinOp(C)
  BY <1>0, <1>1, <1>2 DEF QueuesIn, NetworkOK
<1>5. Within(View(cache[d], own), C) /\ View(cache[d], own) \in [Story -> Node]
  BY <1>3, <1>4, ViewWithin, ViewType DEF AllWithin
<1>6. RowsWithin(C)'
  BY <1>0, <1>2, <1>5, ListWithin DEF AllWithin
<1> QED
  BY <1>1, <1>2, <1>6 DEF AllWithin, Within, dbVars

LEMMA ReceivesWithin ==
    ASSUME TypeInv, NEW d \in Device, ServerReceives(d),
           NEW C \in [Story -> Nat], AllWithin(C)
    PROVE  AllWithin(C)'
<1>0. NetworkOK /\ ServerOK
  BY DEF TypeInv, TypeOK
<1>1. QueuesIn(WithinOp(C))'
  BY <1>0, ReceivesIn DEF AllWithin
<1>2. Sent(d) \in WithinOp(C) /\ feed' = Applied(feed, Sent(d)) /\ cache' = cache
  BY <1>0, SentFacts DEF AllWithin, QueuesIn, Sent
<1>3. Within(feed, C)'
  <2>1. Within(Applied(feed, Sent(d)), C)
    BY <1>0, <1>2, AppliedWithin DEF AllWithin, ServerOK
  <2> QED
    BY <1>2, <2>1 DEF Within
<1>4. UNCHANGED <<rows, phase, seen, parent>>
  BY DEF ServerReceives, listVars, upVars
<1> QED
  BY <1>1, <1>2, <1>3, <1>4 DEF AllWithin, RowsWithin, SeenWithin, Within

LEMMA HearsWithin ==
    ASSUME TypeInv, NEW d \in Device, DeviceHears(d),
           NEW C \in [Story -> Nat], AllWithin(C)
    PROVE  AllWithin(C)'
<1>0. NetworkOK /\ ListsOK
  BY DEF TypeInv, TypeOK
<1>1. QueuesIn(WithinOp(C))'
  BY HearsIn DEF AllWithin
<1>2. Told(d).write \in WithinOp(C)
  <2>1. Told(d) = inbox[d][1] /\ 1 \in 1..Len(inbox[d])
    BY HearFacts
  <2> QED
    BY <2>1 DEF AllWithin, QueuesIn
<1>3. Within(Heard(d), C)
  BY <1>0, <1>2, AppliedWithin DEF AllWithin, Heard, NetworkOK
<1>4. /\ cache' = [cache EXCEPT ![d] = Heard(d)] /\ out' = [out EXCEPT ![d] = Kept(d)]
      /\ Heard(d) \in [Story -> Node] /\ Kept(d) \in Seq(Write) /\ feed' = feed
      /\ ListOfFeedEvents(d, Visible(d), View(Heard(d), Kept(d)))
  BY HearFacts
<1>5. \A k \in 1..Len(Kept(d)) : Kept(d)[k] \in WithinOp(C)
  <2>1. out'[d] = Kept(d)
    BY <1>0, <1>4 DEF NetworkOK
  <2> QED
    BY <1>1, <2>1 DEF QueuesIn
<1>6. RowsWithin(C)'
  BY <1>0, <1>3, <1>4, <1>5, ViewWithin, ViewType, ListWithin DEF AllWithin
<1>7. UNCHANGED <<phase, seen, parent>>
  BY DEF DeviceHears, upVars
<1>8. \A e \in Device : Within(cache'[e], C)
  BY <1>0, <1>3, <1>4 DEF AllWithin, NetworkOK
<1> QED
  BY <1>1, <1>4, <1>6, <1>7, <1>8 DEF AllWithin, SeenWithin, Within

LEMMA ResetWithin ==
    ASSUME TypeInv, NEW d \in Device, Reconnect(d) \/ Relaunch(d),
           NEW C \in [Story -> Nat], AllWithin(C)
    PROVE  AllWithin(C)'
<1>0. NetworkOK /\ ListsOK /\ ServerOK
  BY DEF TypeInv, TypeOK
<1>1. QueuesIn(WithinOp(C))'
  BY <1>0, ResetIn DEF AllWithin
<1>2. cache' = [cache EXCEPT ![d] = feed] /\ UNCHANGED <<feed, seen, parent>>
  BY DEF Reconnect, Relaunch, dbVars, upVars
<1>3. \A e \in Device : Within(cache'[e], C)
  BY <1>0, <1>2 DEF AllWithin, NetworkOK
<1>4. SeenWithin(C)'
  <2>1. \A i \in Reply : phase'[i] = "counting" => phase[i] = "counting"
    BY DEF Reconnect, Relaunch, upVars, Item, TypeInv, TypeOK, UploadsOK
  <2> QED
    BY <1>2, <2>1 DEF AllWithin, SeenWithin
<1>5. RowsWithin(C)'
  <2>1. CASE Reconnect(d)
    <3>1. ListOfFeedEvents(d, Visible(d), View(feed, out[d]))
      BY <2>1 DEF Reconnect
    <3>2. feed \in [Story -> Node] /\ out[d] \in Seq(Write)
      BY <1>0 DEF ServerOK, NetworkOK
    <3>3. \A k \in 1..Len(out[d]) : out[d][k] \in WithinOp(C)
      BY DEF AllWithin, QueuesIn
    <3> QED
      BY <1>0, <3>1, <3>2, <3>3, ViewWithin, ViewType, ListWithin DEF AllWithin
  <2>2. CASE Relaunch(d)
    <3> DEFINE r == [s \in Story |-> [count |-> IF feed[s].body THEN 1 ELSE 0,
                                       n |-> feed[s].n]]
    <3>1. rows' = [rows EXCEPT ![d] = r]
      BY <2>2 DEF Relaunch
    <3>2. Within(r, C)
      BY DEF AllWithin, Within
    <3> HIDE DEF r
    <3> QED
      BY <1>0, <3>1, <3>2 DEF AllWithin, RowsWithin, ListsOK, Within
  <2> QED
    BY <2>1, <2>2
<1> QED
  BY <1>1, <1>2, <1>3, <1>4, <1>5 DEF AllWithin, Within

\* A step that starts no counting keeps what was seen within bounds.
LEMMA SeenKept ==
    ASSUME TypeInv, NEW C \in [Story -> Nat], SeenWithin(C),
           NEW i \in Item, NEW p, p # "counting", phase' = [phase EXCEPT ![i] = p],
           UNCHANGED seen, \A j \in Reply \ {i} : parent'[j] = parent[j]
    PROVE  SeenWithin(C)'
BY DEF SeenWithin, Item, TypeInv, TypeOK, UploadsOK

LEMMA NextWithin ==
    ASSUME TypeInv, [Next]_vars, NEW C \in [Story -> Nat], AllWithin(C),
           \A i \in Reply : CountRecording(i) /\ seen[i] # Absent =>
                                seen[i] + 1 <= C[parent[i]]
    PROVE  AllWithin(C)'
<1>0. UploadsOK /\ NetworkOK /\ TypeOK
  BY DEF TypeInv, TypeOK
<1>1. ASSUME UNCHANGED <<dbVars, netVars, listVars>>, SeenWithin(C)'
      PROVE  AllWithin(C)'
  BY <1>1 DEF dbVars, netVars, listVars, AllWithin, QueuesIn, RowsWithin, Within
<1>2. ASSUME NEW i \in Item, DownloadURL(i) PROVE AllWithin(C)'
  <2>1. owner[i] \in Device /\ Writes(owner[i], <<SaveOp(i)>>) /\ UNCHANGED dbVars
    BY <1>0, <1>2 DEF DownloadURL, UploadsOK, SaveOp
  <2> DEFINE ops == <<SaveOp(i)>>
  <2>2. ops \in Seq(Write) /\ SaveOp(i) \in Write
    BY <1>0, OpsFacts
  <2>3. SaveOp(i) \in WithinOp(C)
    <3>1. CASE i \in Story
      <4>1. SaveOp(i).id = i /\ SaveOp(i).n = 0 /\ 0 <= C[i]
        BY <3>1 DEF SaveOp, PublishOp
      <4> QED
        BY <2>2, <4>1 DEF WithinOp
    <3>2. CASE i \notin Story
      BY <2>2, <3>2 DEF SaveOp, ReplyOp, WithinOp, FeedOps
    <3> QED
      BY <3>1, <3>2
  <2>4. \A k \in 1..Len(ops) : ops[k] \in WithinOp(C)
    BY <2>3
  <2>5. SeenWithin(C)'
    BY <1>2, SeenKept DEF DownloadURL, AllWithin
  <2> HIDE DEF ops
  <2>6. Writes(owner[i], ops)
    BY <2>1 DEF ops
  <2> QED
    BY <2>1, <2>2, <2>4, <2>5, <2>6, WritesWithin
<1>3. ASSUME NEW i \in Reply, CountRecording(i) PROVE AllWithin(C)'
  <2>1. /\ owner[i] \in Device /\ parent[i] \in Story /\ seen[i] \in Nat \cup {Absent}
        /\ Writes(owner[i], CountOps(i)) /\ UNCHANGED dbVars
    BY <1>0, <1>3 DEF CountRecording, UploadsOK, Item, CountOps
  <2>2. CountOps(i) \in Seq(Write)
    BY <1>0, <2>1, OpsFacts
  <2>3. \A k \in 1..Len(CountOps(i)) : CountOps(i)[k] \in WithinOp(C)
    <3>1. CASE seen[i] = Absent
      BY <3>1 DEF CountOps
    <3>2. CASE seen[i] # Absent
      <4>1. CountOp(parent[i], seen[i] + 1) \in Write
        BY <2>1, <3>2, OpTypes
      <4>2. CountOp(parent[i], seen[i] + 1) \in WithinOp(C)
        BY <1>3, <3>2, <4>1 DEF WithinOp, CountOp
      <4> QED
        BY <3>2, <4>2 DEF CountOps
    <3> QED
      BY <3>1, <3>2
  <2>4. SeenWithin(C)'
    BY <1>3, SeenKept DEF CountRecording, AllWithin, Item
  <2> QED
    BY <2>1, <2>2, <2>3, <2>4, WritesWithin
<1>4. ASSUME NEW d \in Device, NEW s \in Story, DeleteStory(d, s) PROVE AllWithin(C)'
  <2>1. Writes(d, DeleteOps(s)) /\ UNCHANGED dbVars /\ UNCHANGED upVars
    BY <1>4 DEF DeleteStory, DeleteOps
  <2>2. DeleteOps(s) \in Seq(Write) /\ RemoveOp(s) \in Write /\ ClearOp(s) \in Write
    BY <1>0, OpsFacts, OpTypes, 0 \in Nat
  <2>3. RemoveOp(s) \in WithinOp(C) /\ ClearOp(s) \in WithinOp(C)
    BY <2>2 DEF WithinOp, RemoveOp, ClearOp, FeedOps, Absent
  <2>4. \A k \in 1..Len(DeleteOps(s)) : DeleteOps(s)[k] \in WithinOp(C)
    BY <2>3 DEF DeleteOps
  <2>5. SeenWithin(C)'
    BY <2>1 DEF AllWithin, SeenWithin, upVars
  <2> QED
    BY <2>1, <2>2, <2>4, <2>5, WritesWithin
<1>5. ASSUME NEW d \in Device,
             ServerReceives(d) \/ DeviceHears(d) \/ Reconnect(d) \/ Relaunch(d)
      PROVE  AllWithin(C)'
  BY <1>5, ReceivesWithin, HearsWithin, ResetWithin
<1>6. ASSUME NEW d \in Device, NEW s \in Story, SendStory(d, s) PROVE AllWithin(C)'
  <2>1. SeenWithin(C)'
    BY <1>6, SeenKept DEF SendStory, AllWithin, Item
  <2> QED
    BY <1>1, <1>6, <2>1 DEF SendStory
<1>7. ASSUME NEW d \in Device, NEW i \in Reply, SendReply(d, i) PROVE AllWithin(C)'
  <2>1. \A j \in Reply \ {i} : parent'[j] = parent[j]
    BY <1>0, <1>7 DEF SendReply, UploadsOK
  <2>2. SeenWithin(C)'
    BY <1>7, <2>1, SeenKept DEF SendReply, AllWithin, Item
  <2> QED
    BY <1>1, <1>7, <2>2 DEF SendReply
<1>8. ASSUME NEW i \in Item, PutFile(i) \/ DownloadURLFails(i) PROVE AllWithin(C)'
  <2>1. SeenWithin(C)'
    BY <1>8, SeenKept DEF PutFile, DownloadURLFails, AllWithin
  <2> QED
    BY <1>1, <1>8, <2>1 DEF PutFile, DownloadURLFails
<1>9. ASSUME NEW i \in Reply, ReadNoRecordings(i) PROVE AllWithin(C)'
  <2>1. owner[i] \in Device /\ parent[i] \in Story
    BY <1>0, <1>9 DEF ReadNoRecordings, UploadsOK, Item
  <2>2. Within(Visible(owner[i]), C)
    BY <1>0, <2>1, ViewWithin DEF Visible, AllWithin, QueuesIn, NetworkOK
  <2>3. seen' = [seen EXCEPT ![i] = Visible(owner[i])[parent[i]].n]
        /\ phase' = [phase EXCEPT ![i] = "counting"] /\ parent' = parent
    BY <1>9 DEF ReadNoRecordings
  <2>4. seen'[i] <= C[parent[i]]
    BY <1>0, <2>1, <2>2, <2>3 DEF Within, UploadsOK
  <2>5. SeenWithin(C)'
    BY <1>0, <2>3, <2>4 DEF AllWithin, SeenWithin, UploadsOK, Item
  <2> QED
    BY <1>1, <1>9, <2>5 DEF ReadNoRecordings
<1>10. ASSUME NEW s \in Story, EraseFile(s) \/ \E d \in Device : DidSelectRow(d, s)
       PROVE  AllWithin(C)'
  <2>1. SeenWithin(C)'
    BY <1>10 DEF EraseFile, DidSelectRow, upVars, AllWithin, SeenWithin
  <2> QED
    BY <1>1, <1>10, <2>1 DEF EraseFile, DidSelectRow
<1>11. CASE UNCHANGED vars
  BY <1>1, <1>11 DEF vars, upVars, AllWithin, SeenWithin
<1> QED
  BY <1>2, <1>3, <1>4, <1>5, <1>6, <1>7, <1>8, <1>9, <1>10, <1>11 DEF Next

Counts == [s \in Story |-> Cardinality(Counted(s))]

(* What was counted stays counted, and a client that counts adds one.      *)
LEMMA CountsGrow ==
    ASSUME TypeInv, [Next]_vars
    PROVE  /\ Counts \in [Story -> Nat] /\ Counts' \in [Story -> Nat]
           /\ \A s \in Story : Counted(s) \subseteq Counted(s)' /\ Counts[s] <= Counts'[s]
           /\ \A i \in Reply : CountRecording(i) /\ seen[i] # Absent =>
                    Counts[parent[i]] + 1 <= Counts'[parent[i]]
<1>0. UploadsOK
  BY DEF TypeInv, TypeOK
<1>1. ASSUME NEW s \in Story
      PROVE  IsFiniteSet(Counted(s)) /\ IsFiniteSet(Counted(s)')
  BY FeedAssumption, FS_Subset DEF Counted
<1>2. Counts \in [Story -> Nat] /\ Counts' \in [Story -> Nat]
  BY <1>1, FS_CardinalityType DEF Counts
<1>3. \A i \in Reply : phase[i] = "done" =>
            phase'[i] = "done" /\ parent'[i] = parent[i] /\ seen'[i] = seen[i]
  <2> SUFFICES ASSUME NEW i \in Reply, phase[i] = "done"
               PROVE  phase'[i] = "done" /\ parent'[i] = parent[i] /\ seen'[i] = seen[i]
    OBVIOUS
  <2>1. ASSUME NEW d \in Device, NEW s \in Story,
               SendStory(d, s) \/ DidSelectRow(d, s) \/ DeleteStory(d, s) \/ EraseFile(s)
        PROVE  phase'[i] = "done" /\ parent'[i] = parent[i] /\ seen'[i] = seen[i]
    BY <1>0, <2>1, FeedAssumption
       DEF SendStory, DidSelectRow, DeleteStory, EraseFile, upVars, UploadsOK, Item
  <2>2. ASSUME NEW d \in Device, NEW j \in Reply, SendReply(d, j)
        PROVE  phase'[i] = "done" /\ parent'[i] = parent[i] /\ seen'[i] = seen[i]
    BY <1>0, <2>2 DEF SendReply, UploadsOK, Item
  <2>3. ASSUME NEW d \in Device,
               ServerReceives(d) \/ DeviceHears(d) \/ Reconnect(d) \/ Relaunch(d)
        PROVE  phase'[i] = "done" /\ parent'[i] = parent[i] /\ seen'[i] = seen[i]
    BY <1>0, <2>3 DEF ServerReceives, DeviceHears, Reconnect, Relaunch, upVars, UploadsOK, Item
  <2>4. ASSUME NEW j \in Item, PutFile(j) \/ DownloadURLFails(j) \/ DownloadURL(j)
        PROVE  phase'[i] = "done" /\ parent'[i] = parent[i] /\ seen'[i] = seen[i]
    BY <1>0, <2>4 DEF PutFile, DownloadURLFails, DownloadURL, UploadsOK, Item
  <2>5. ASSUME NEW j \in Reply, ReadNoRecordings(j) \/ CountRecording(j)
        PROVE  phase'[i] = "done" /\ parent'[i] = parent[i] /\ seen'[i] = seen[i]
    BY <1>0, <2>5 DEF ReadNoRecordings, CountRecording, UploadsOK, Item
  <2>6. ASSUME NEW s \in Story, EraseFile(s)
        PROVE  phase'[i] = "done" /\ parent'[i] = parent[i] /\ seen'[i] = seen[i]
    BY <2>6 DEF EraseFile, upVars
  <2>7. CASE UNCHANGED vars
    BY <2>7 DEF vars, upVars
  <2> QED
    BY <2>1, <2>2, <2>3, <2>4, <2>5, <2>6, <2>7 DEF Next
<1>4. ASSUME NEW s \in Story
      PROVE  Counted(s) \subseteq Counted(s)' /\ Counts[s] <= Counts'[s]
  <2>1. Counted(s) \subseteq Counted(s)'
    BY <1>3 DEF Counted
  <2> QED
    BY <1>1, <2>1, FS_Subset DEF Counts
<1>5. ASSUME NEW i \in Reply, CountRecording(i), seen[i] # Absent
      PROVE  Counts[parent[i]] + 1 <= Counts'[parent[i]]
  <2>1. PICK s \in Story : s = parent[i]
    BY <1>0, <1>5 DEF CountRecording, UploadsOK, Item
  <2>2. i \notin Counted(s) /\ i \in Counted(s)'
    BY <1>0, <1>5, <2>1 DEF CountRecording, Counted, UploadsOK, Item
  <2>3. Cardinality(Counted(s) \cup {i}) = Cardinality(Counted(s)) + 1
    BY <1>1, <2>2, FS_AddElement
  <2>4. Cardinality(Counted(s) \cup {i}) <= Cardinality(Counted(s)')
    BY <1>1, <1>4, <2>2, FS_Subset
  <2> QED
    BY <2>1, <2>3, <2>4 DEF Counts
<1> QED
  BY <1>2, <1>4, <1>5

(* More counted recordings allow what fewer did. *)
LEMMA WithinGrows ==
    ASSUME TypeInv, NEW C \in [Story -> Nat], NEW D \in [Story -> Nat],
           \A s \in Story : C[s] <= D[s], AllWithin(C)
    PROVE  AllWithin(D)
<1>0. UploadsOK /\ ServerOK /\ NetworkOK /\ ListsOK
  BY DEF TypeInv, TypeOK
<1>1. WithinOp(C) \subseteq WithinOp(D)
  <2> SUFFICES ASSUME NEW w \in WithinOp(C), w.op \in FeedOps PROVE w.n <= D[w.id]
    BY DEF WithinOp
  <2>1. w.id \in Story /\ w.n \in Nat \cup {Absent} /\ w.n <= C[w.id]
    BY DEF WithinOp, Write, FeedOps, Item
  <2> QED
    BY <2>1 DEF Absent
<1>2. QueuesIn(WithinOp(D))
  BY <1>1 DEF AllWithin, QueuesIn
<1>3. ASSUME NEW nodes, \A s \in Story : nodes[s].n \in Nat \cup {Absent}, Within(nodes, C)
      PROVE  Within(nodes, D)
  BY <1>3 DEF Within, Absent
<1>4. Within(feed, D) /\ \A d \in Device : Within(cache[d], D)
  BY <1>0, <1>3 DEF AllWithin, ServerOK, NetworkOK, Node
<1>5. RowsWithin(D)
  BY <1>0, <1>3 DEF AllWithin, RowsWithin, ListsOK, Row
<1>6. SeenWithin(D)
  <2> SUFFICES ASSUME NEW i \in Reply, phase[i] = "counting" PROVE seen[i] <= D[parent[i]]
    BY DEF SeenWithin
  <2>1. parent[i] \in Story /\ seen[i] \in Nat \cup {Absent} /\ seen[i] <= C[parent[i]]
    BY <1>0 DEF AllWithin, SeenWithin, UploadsOK, Item
  <2> QED
    BY <2>1 DEF Absent
<1> QED
  BY <1>2, <1>4, <1>5, <1>6 DEF AllWithin

CounterInv == TypeInv /\ AllWithin(Counts)

LEMMA InitCounter == Init => CounterInv
<1> SUFFICES ASSUME Init PROVE AllWithin(Counts)
  BY InitTypes DEF CounterInv
<1>1. Counts \in [Story -> Nat]
  BY FeedAssumption, FS_Subset, FS_CardinalityType DEF Counts, Counted
<1>2. \A s \in Story : Absent <= Counts[s]
  BY <1>1 DEF Absent
<1> HIDE DEF Counts
<1>3. QueuesIn(WithinOp(Counts))
  BY DEF Init, QueuesIn
<1>4. /\ Within(feed, Counts) /\ \A d \in Device : Within(cache[d], Counts)
      /\ RowsWithin(Counts)
  BY <1>2 DEF Init, Within, RowsWithin, Gone
<1>5. SeenWithin(Counts)
  BY DEF Init, SeenWithin, Item
<1> QED
  BY <1>3, <1>4, <1>5 DEF AllWithin

LEMMA NextCounter == CounterInv /\ [Next]_vars => CounterInv'
<1> SUFFICES ASSUME CounterInv, [Next]_vars PROVE CounterInv'
  OBVIOUS
<1>1. PICK C : C = Counts
  OBVIOUS
<1>2. PICK D : D = Counts'
  OBVIOUS
<1>3. /\ C \in [Story -> Nat] /\ D \in [Story -> Nat]
      /\ \A s \in Story : C[s] <= D[s]
      /\ \A i \in Reply : CountRecording(i) /\ seen[i] # Absent => C[parent[i]] + 1 <= D[parent[i]]
  BY <1>1, <1>2, CountsGrow DEF CounterInv
<1>4. AllWithin(D)
  BY <1>1, <1>3, WithinGrows DEF CounterInv
<1>5. ASSUME NEW i \in Reply, CountRecording(i), seen[i] # Absent
      PROVE  seen[i] + 1 <= D[parent[i]]
  <2>1. seen[i] <= C[parent[i]] /\ seen[i] \in Nat /\ parent[i] \in Story
    BY <1>1, <1>5 DEF CounterInv, AllWithin, SeenWithin, CountRecording, TypeInv, TypeOK,
                      UploadsOK, Item
  <2> QED
    BY <1>3, <1>5, <2>1
<1>6. AllWithin(D)'
  BY <1>3, <1>4, <1>5, NextWithin DEF CounterInv
<1>7. AllWithin(Counts)'
  BY <1>2, <1>6 DEF AllWithin, QueuesIn, WithinOp, Within, RowsWithin, SeenWithin
<1> QED
  BY <1>7, NextTypes DEF CounterInv

(* No interleaving of clients that each write what they read plus one, no  *)
(* repeated write and no lost connection makes noRecordings claim more     *)
(* recordings than were added, for any number of devices and stories.      *)
THEOREM CounterSafety == Spec => []CounterIsEarned
<1>1. CounterInv => CounterIsEarned
  BY DEF CounterInv, AllWithin, RowsWithin, Within, Counts, CounterIsEarned
<1> QED
  BY <1>1, InitCounter, NextCounter, PTL DEF Spec

-----------------------------------------------------------------------------
(* Answers come in order *)

\* The place among the answers to d of the one at k.
UpTo(d, k) == {j \in Answers(d) : j <= k}
Rank(d, k) == Cardinality(UpTo(d, k))

(* The n-th answer on its way to a device is to the n-th of the writes the *)
(* device waits for.                                                       *)
OrderAt(d) == \A k \in Answers(d) : inbox[d][k].write = out[d][Rank(d, k)]
AnswersInOrder == \A d \in Device : OrderAt(d)

LEMMA Places ==
    ASSUME NEW n \in Nat, NEW A \in SUBSET (1..n)
    PROVE  /\ IsFiniteSet(A)
           /\ \A k \in A : Cardinality({j \in A : j <= k}) \in Nat \ {0}
<1>1. IsFiniteSet(1..n)
  BY FS_Interval
<1>2. IsFiniteSet(A)
  BY <1>1, FS_Subset
<1>3. ASSUME NEW k \in A PROVE Cardinality({j \in A : j <= k}) \in Nat \ {0}
  <2>1. IsFiniteSet({j \in A : j <= k})
    BY <1>2, FS_Subset
  <2>2. k \in {j \in A : j <= k}
    OBVIOUS
  <2> QED
    BY <2>1, <2>2, FS_EmptySet, FS_CardinalityType
<1> QED
  BY <1>2, <1>3

LEMMA RankBounds ==
    ASSUME TypeInv, NEW d \in Device, NEW k \in Answers(d)
    PROVE  Rank(d, k) \in 1..arrived[d] /\ Rank(d, k) \in 1..Len(out[d])
<1>1. /\ Cardinality(Answers(d)) = arrived[d] /\ arrived[d] \in Nat
      /\ arrived[d] <= Len(out[d]) /\ Len(out[d]) \in Nat /\ Len(inbox[d]) \in Nat
  BY LenProperties DEF TypeInv, TypeOK, AnswersMatch, NetworkOK
<1>2. IsFiniteSet(Answers(d))
  <2>1. Answers(d) \in SUBSET (1..Len(inbox[d]))
    BY DEF Answers
  <2> QED
    BY <1>1, <2>1, Places
<1>3. UpTo(d, k) \subseteq Answers(d) /\ UpTo(d, k) # {}
  BY <1>1 DEF UpTo, Answers
<1>4. /\ IsFiniteSet(UpTo(d, k)) /\ Rank(d, k) \in Nat /\ Rank(d, k) # 0
      /\ Rank(d, k) <= Cardinality(Answers(d))
  BY <1>2, <1>3, FS_Subset, FS_CardinalityType, FS_EmptySet DEF Rank
<1> QED
  BY <1>1, <1>4

(* The places move down by one when the first is taken. *)
LEMMA ShiftDown ==
    ASSUME NEW n \in Nat, NEW A \in SUBSET (1..n)
    PROVE  LET B == {k \in 1..(n - 1) : k + 1 \in A}
           IN  Cardinality(B) = IF 1 \in A THEN Cardinality(A) - 1 ELSE Cardinality(A)
<1> DEFINE B == {k \in 1..(n - 1) : k + 1 \in A}
           C == A \ {1}
           f == [k \in C |-> k - 1]
<1>1. IsFiniteSet(A)
  BY Places
<1>2. f \in Bijection(C, B)
  <2>1. f \in [C -> B]
    OBVIOUS
  <2>2. \A j, k \in C : f[j] = f[k] => j = k
    OBVIOUS
  <2>3. ASSUME NEW b \in B PROVE \E k \in C : f[k] = b
    <3>1. b + 1 \in C /\ f[b + 1] = b
      OBVIOUS
    <3> QED
      BY <3>1
  <2> HIDE DEF f, B, C
  <2> QED
    BY <2>1, <2>2, <2>3, Fun_IsBij
<1>3. IsFiniteSet(C) /\ Cardinality(C) = IF 1 \in A THEN Cardinality(A) - 1 ELSE Cardinality(A)
  BY <1>1, FS_RemoveElement
<1> HIDE DEF f, C, B
<1>4. Cardinality(B) = Cardinality(C)
  BY <1>2, <1>3, FS_Bijection DEF ExistsBijection
<1> QED
  BY <1>3, <1>4 DEF B

LEMMA ReceivesOrder ==
    ASSUME TypeInv, AnswersInOrder, NEW d \in Device, ServerReceives(d)
    PROVE  AnswersInOrder'
<1>0. NetworkOK
  BY DEF TypeInv, TypeOK
<1>1. SUFFICES ASSUME NEW e \in Device, NEW k \in Answers(e)'
               PROVE  inbox'[e][k].write = out'[e][Rank(e, k)']
  BY DEF AnswersInOrder, OrderAt
<1>2. /\ Len(inbox'[e]) = Len(inbox[e]) + 1 /\ Len(inbox[e]) \in Nat
      /\ \A j \in 1..Len(inbox[e]) : inbox'[e][j] = inbox[e][j]
      /\ inbox'[e][Len(inbox[e]) + 1] = Telling(d) /\ out' = out
  BY <1>0, SentFacts
<1>3. Telling(d).by = d /\ Telling(d).write = Sent(d)
  BY DEF Telling
<1>4. Answers(e)' = Answers(e) \cup (IF e = d THEN {Len(inbox[e]) + 1} ELSE {})
  BY <1>2, <1>3 DEF Answers
<1>5. CASE k \in Answers(e)
  <2>1. k \in 1..Len(inbox[e])
    BY <1>5 DEF Answers
  <2>2. UpTo(e, k)' = UpTo(e, k)
    BY <1>2, <1>4, <2>1 DEF UpTo, Answers
  <2> QED
    BY <1>2, <1>5, <2>1, <2>2 DEF AnswersInOrder, OrderAt, Rank
<1>6. CASE e = d /\ k = Len(inbox[e]) + 1
  <2>1. UpTo(e, k)' = Answers(e) \cup {Len(inbox[e]) + 1}
    BY <1>2, <1>4, <1>6 DEF UpTo, Answers
  <2>2. IsFiniteSet(Answers(e)) /\ Len(inbox[e]) + 1 \notin Answers(e)
    <3>1. Answers(e) \in SUBSET (1..Len(inbox[e]))
      BY DEF Answers
    <3>2. Len(inbox[e]) \in Nat
      BY <1>2
    <3>3. IsFiniteSet(Answers(e))
      BY ONLY <3>1, <3>2, Places
    <3> QED
      BY <3>1, <3>2, <3>3
  <2>3. Rank(e, k)' = arrived[d] + 1
    BY <1>6, <2>1, <2>2, FS_AddElement DEF Rank, TypeInv, AnswersMatch
  <2> QED
    BY <1>2, <1>3, <1>6, <2>3 DEF Sent
<1> QED
  BY <1>4, <1>5, <1>6

LEMMA HearsOrder ==
    ASSUME TypeInv, AnswersInOrder, NEW d \in Device, DeviceHears(d)
    PROVE  AnswersInOrder' /\ (Told(d).by = d => Told(d).write = out[d][1])
<1>0. NetworkOK
  BY DEF TypeInv, TypeOK
<1>1. /\ Told(d) = inbox[d][1] /\ Len(inbox[d]) \in Nat \ {0}
      /\ Len(inbox'[d]) = Len(inbox[d]) - 1
      /\ \A k \in 1..Len(inbox'[d]) : inbox'[d][k] = inbox[d][k + 1]
      /\ Len(out[d]) \in Nat /\ Len(Kept(d)) = Len(out[d]) - Shift(d)
      /\ \A k \in 1..Len(Kept(d)) : Kept(d)[k] = out[d][k + Shift(d)]
      /\ out' = [out EXCEPT ![d] = Kept(d)]
      /\ inbox' = [inbox EXCEPT ![d] = Tail(inbox[d])]
  BY HearFacts
<1>2. /\ out'[d] = Kept(d)
      /\ \A e \in Device \ {d} : out'[e] = out[e] /\ inbox'[e] = inbox[e]
  BY <1>0, <1>1 DEF NetworkOK
<1>3. 1 \in Answers(d) <=> Told(d).by = d
  BY <1>1 DEF Answers
<1>4. ASSUME NEW k \in Answers(d)'
      PROVE  k + 1 \in Answers(d) /\ Rank(d, k)' = Rank(d, k + 1) - Shift(d)
  <2>1. /\ k \in 1..(Len(inbox[d]) - 1) /\ k + 1 \in Answers(d)
    BY <1>1 DEF Answers
  <2>2. UpTo(d, k + 1) \in SUBSET (1..Len(inbox[d]))
    BY DEF UpTo, Answers
  <2>3. UpTo(d, k)' = {j \in 1..(Len(inbox[d]) - 1) : j + 1 \in UpTo(d, k + 1)}
    <3>1. Answers(d)' = {j \in 1..(Len(inbox[d]) - 1) : j + 1 \in Answers(d)}
      BY <1>1 DEF Answers
    <3> QED
      BY <1>1, <2>1, <3>1 DEF UpTo
  <2>4. 1 \in UpTo(d, k + 1) <=> Told(d).by = d
    BY <1>3, <2>1 DEF UpTo
  <2>5. Rank(d, k + 1) \in Nat
    BY <2>1, RankBounds
  <2>6. Cardinality(UpTo(d, k)') = IF 1 \in UpTo(d, k + 1) THEN Cardinality(UpTo(d, k + 1)) - 1
                                   ELSE Cardinality(UpTo(d, k + 1))
    <3>1. Len(inbox[d]) \in Nat
      BY <1>1
    <3>2. Cardinality({j \in 1..(Len(inbox[d]) - 1) : j + 1 \in UpTo(d, k + 1)}) =
              IF 1 \in UpTo(d, k + 1) THEN Cardinality(UpTo(d, k + 1)) - 1
              ELSE Cardinality(UpTo(d, k + 1))
      BY ONLY <2>2, <3>1, ShiftDown
    <3> QED
      BY ONLY <2>3, <3>2
  <2> QED
    BY <2>1, <2>4, <2>5, <2>6 DEF Rank, Shift
<1>5. ASSUME NEW k \in Answers(d)' PROVE inbox'[d][k].write = out'[d][Rank(d, k)']
  <2>1. k + 1 \in Answers(d) /\ Rank(d, k)' = Rank(d, k + 1) - Shift(d)
    BY <1>4
  <2>2. inbox'[d][k] = inbox[d][k + 1]
    BY <1>1 DEF Answers
  <2>3. inbox[d][k + 1].write = out[d][Rank(d, k + 1)]
    BY <2>1 DEF AnswersInOrder, OrderAt
  <2>4. Rank(d, k + 1) \in 1..Len(out[d])
    BY <2>1, RankBounds
  <2>5. Rank(d, k)' >= 1
    <3>1. Answers(d)' \in SUBSET (1..Len(inbox'[d])) /\ Len(inbox'[d]) \in Nat
      BY <1>1 DEF Answers
    <3>2. Cardinality({j \in Answers(d)' : j <= k}) \in Nat \ {0}
      BY <3>1, Places
    <3> QED
      BY <3>2 DEF Rank, UpTo
  <2>6. Shift(d) \in {0, 1}
    BY DEF Shift
  <2>7. out'[d][Rank(d, k)'] = out[d][Rank(d, k + 1)]
    BY <1>1, <1>2, <2>1, <2>4, <2>5, <2>6
  <2> QED
    BY <2>2, <2>3, <2>7
<1>6. ASSUME NEW e \in Device \ {d} PROVE OrderAt(e)'
  <2>1. Answers(e)' = Answers(e) /\ \A k \in Answers(e) : Rank(e, k)' = Rank(e, k)
    BY <1>2 DEF Answers, Rank, UpTo
  <2> QED
    BY <1>2, <2>1 DEF AnswersInOrder, OrderAt
<1>7. ASSUME Told(d).by = d PROVE Told(d).write = out[d][1]
  <2>1. 1 \in Answers(d) /\ UpTo(d, 1) = {1}
    BY <1>1, <1>3, <1>7 DEF UpTo, Answers
  <2>2. Rank(d, 1) = 1
    BY <2>1, FS_Singleton DEF Rank
  <2> QED
    BY <1>1, <2>1, <2>2 DEF AnswersInOrder, OrderAt
<1> QED
  BY <1>5, <1>6, <1>7 DEF AnswersInOrder, OrderAt

LEMMA WritesOrder ==
    ASSUME TypeInv, AnswersInOrder, NEW d \in Device, NEW ops \in Seq(Write), Writes(d, ops)
    PROVE  AnswersInOrder'
<1>0. NetworkOK
  BY DEF TypeInv, TypeOK
<1>1. SUFFICES ASSUME NEW e \in Device, NEW k \in Answers(e)'
               PROVE  inbox'[e][k].write = out'[e][Rank(e, k)']
  BY DEF AnswersInOrder, OrderAt
<1>2. inbox' = inbox /\ out' = [out EXCEPT ![d] = out[d] \o ops]
  BY DEF Writes
<1>3. k \in Answers(e) /\ Rank(e, k)' = Rank(e, k)
  BY <1>2 DEF Answers, Rank, UpTo
<1>4. Rank(e, k) \in 1..Len(out[e])
  BY <1>3, RankBounds
<1>5. out[e] \in Seq(Write) /\ Len(out[e]) \in Nat
  BY <1>0, LenProperties DEF NetworkOK
<1>6. out'[e][Rank(e, k)] = out[e][Rank(e, k)]
  <2>1. CASE e = d
    <3> DEFINE own == out[d] \o ops
    <3>1. own[Rank(e, k)] = out[e][Rank(e, k)]
      <4>1. \A j \in 1..Len(own) :
               own[j] = IF j <= Len(out[d]) THEN out[d][j] ELSE ops[j - Len(out[d])]
        BY <1>5, <2>1, ConcatProperties
      <4>2. Len(own) = Len(out[d]) + Len(ops) /\ Len(ops) \in Nat
        BY <1>5, <2>1, ConcatProperties, LenProperties
      <4> HIDE DEF own
      <4>3. Rank(e, k) \in 1..Len(own) /\ Rank(e, k) <= Len(out[d])
        BY <1>4, <1>5, <2>1, <4>2
      <4> QED
        BY <2>1, <4>1, <4>3
    <3>2. out'[e] = own
      BY <1>0, <1>2, <2>1 DEF NetworkOK
    <3> HIDE DEF own
    <3> QED
      BY <3>1, <3>2
  <2>2. CASE e # d
    BY <1>0, <1>2, <2>2 DEF NetworkOK
  <2> QED
    BY <2>1, <2>2
<1> QED
  BY <1>2, <1>3, <1>6 DEF AnswersInOrder, OrderAt

(* Lost connections and killed apps drop what was on its way. *)
LEMMA ResetOrder ==
    ASSUME TypeInv, AnswersInOrder, NEW d \in Device, Reconnect(d) \/ Relaunch(d)
    PROVE  AnswersInOrder'
<1>0. NetworkOK
  BY DEF TypeInv, TypeOK
<1>1. /\ inbox' = [inbox EXCEPT ![d] = <<>>]
      /\ out' = out \/ out' = [out EXCEPT ![d] = <<>>]
  BY DEF Reconnect, Relaunch
<1>2. Answers(d)' = {}
  BY <1>0, <1>1 DEF Answers, NetworkOK
<1>3. ASSUME NEW e \in Device \ {d} PROVE OrderAt(e)'
  <2>1. inbox'[e] = inbox[e] /\ out'[e] = out[e]
    BY <1>0, <1>1 DEF NetworkOK
  <2>2. Answers(e)' = Answers(e) /\ \A k \in Answers(e) : Rank(e, k)' = Rank(e, k)
    BY <2>1 DEF Answers, Rank, UpTo
  <2> QED
    BY <2>1, <2>2 DEF AnswersInOrder, OrderAt
<1> QED
  BY <1>2, <1>3 DEF AnswersInOrder, OrderAt

-----------------------------------------------------------------------------
(* Lists follow views *)

Publishes(w, s)  == w.op = "publish" /\ w.id = s
Recounts(w, s)   == w.op = "count" /\ w.id = s
KeepingOp(s)     == {w \in Write : ~(w.op = "remove" /\ w.id = s)}

\* A node with a counter has a body.
NodeWhole(node) == node.n # Absent => node.body

LEMMA NodeGone ==
    ASSUME NEW node \in Node, ~node.body, node.n = Absent
    PROVE  node = Gone
<1>1. node.body \in BOOLEAN /\ node = [body |-> node.body, n |-> node.n]
  BY DEF Node
<1>2. node.body = FALSE
  BY <1>1
<1> QED
  BY <1>1, <1>2 DEF Gone

LEMMA AppliedWhole ==
    ASSUME NEW nodes \in [Story -> Node], NEW s \in Story, NEW w \in KeepingOp(s)
    PROVE  /\ Applied(nodes, w)[s].body <=> nodes[s].body \/ Publishes(w, s)
           /\ NodeWhole(nodes[s]) /\ (Recounts(w, s) => nodes[s].body)
                => NodeWhole(Applied(nodes, w)[s])
<1>1. w \in Write /\ ~(w.op = "remove" /\ w.id = s)
  BY DEF KeepingOp
<1>2. nodes[s].body \in BOOLEAN
  BY DEF Node
<1>3. CASE w.op \notin FeedOps \/ w.id # s
  <2>1. Applied(nodes, w)[s] = nodes[s] /\ ~Publishes(w, s)
    BY <1>3 DEF Applied, Publishes, FeedOps
  <2> QED
    BY <2>1
<1>4. CASE Recounts(w, s)
  <2>1. Applied(nodes, w)[s].body = nodes[s].body /\ ~Publishes(w, s)
    BY <1>4 DEF Applied, Publishes, FeedOps, Recounts
  <2> QED
    BY <1>4, <2>1 DEF NodeWhole
<1>5. CASE Publishes(w, s)
  <2>1. Applied(nodes, w)[s].body = TRUE
    BY <1>5 DEF Applied, Publishes, FeedOps
  <2> QED
    BY <1>5, <2>1 DEF NodeWhole
<1> QED
  BY <1>1, <1>3, <1>4, <1>5 DEF FeedOps, Publishes, Recounts

(* Without removals a view shows a story that was heard of or published,   *)
(* and no counter without one.                                             *)
LEMMA ViewBody ==
    ASSUME NEW heard \in [Story -> Node], NEW own \in Seq(Write), NEW s \in Story,
           \A k \in 1..Len(own) : own[k] \in KeepingOp(s)
    PROVE  View(heard, own)[s].body <=>
               heard[s].body \/ \E k \in 1..Len(own) : Publishes(own[k], s)
<1> DEFINE writes == {k \in 1..Len(own) : own[k].id = s /\ own[k].op \in FeedOps}
           whole  == {k \in writes : own[k].op # "count"}
<1>1. View(heard, own)[s].body = IF whole = {} THEN heard[s].body
                                 ELSE own[Max(whole)].op = "publish"
  BY DEF View
<1>2. \A k \in 1..Len(own) : k \in whole <=> Publishes(own[k], s)
  BY DEF KeepingOp, Publishes, FeedOps
<1>3. whole # {} => Max(whole) \in whole
  BY LenProperties, LastPosition
<1>4. heard[s].body \in BOOLEAN
  BY DEF Node
<1> HIDE DEF writes
<1>5. CASE whole = {}
  BY <1>1, <1>2, <1>5
<1>6. CASE whole # {}
  <2>1. Publishes(own[Max(whole)], s) /\ Max(whole) \in 1..Len(own)
    BY <1>2, <1>3, <1>6 DEF writes
  <2>2. View(heard, own)[s].body = TRUE
    BY <1>1, <1>6, <2>1 DEF Publishes
  <2> QED
    BY <2>1, <2>2
<1> QED
  BY <1>5, <1>6

LEMMA ViewWhole ==
    ASSUME NEW heard \in [Story -> Node], NEW own \in Seq(Write), NEW s \in Story,
           \A k \in 1..Len(own) : own[k] \in KeepingOp(s), NodeWhole(heard[s]),
           \A k \in 1..Len(own) : Recounts(own[k], s) =>
               heard[s].body \/ \E j \in 1..Len(own) : Publishes(own[j], s)
    PROVE  NodeWhole(View(heard, own)[s])
<1> DEFINE writes == {k \in 1..Len(own) : own[k].id = s /\ own[k].op \in FeedOps}
<1>1. View(heard, own)[s].n = IF writes = {} THEN heard[s].n ELSE own[Max(writes)].n
  BY DEF View
<1>2. View(heard, own)[s].body <=>
          heard[s].body \/ \E k \in 1..Len(own) : Publishes(own[k], s)
  BY ViewBody
<1>3. CASE writes = {}
  BY <1>1, <1>2, <1>3 DEF NodeWhole
<1>4. CASE writes # {}
  <2>1. Max(writes) \in writes
    BY <1>4, LenProperties, LastPosition
  <2>2. Publishes(own[Max(writes)], s) \/ Recounts(own[Max(writes)], s)
    BY <2>1 DEF KeepingOp, Publishes, Recounts, FeedOps
  <2>3. View(heard, own)[s].body
    BY <1>2, <2>1, <2>2
  <2> QED
    BY <2>3 DEF NodeWhole
<1> QED
  BY <1>3, <1>4

\* The row of a story states what a node does.
RowIs(row, node) ==
    /\ row.count = IF node.body THEN 1 ELSE 0
    /\ node.body => row.n = node.n

(* The three handlers take a row from what was seen to what is seen now,   *)
(* if neither is a counter without a story.                                *)
LEMMA RowFollows ==
    ASSUME NEW old \in [Story -> Node], NEW new \in [Story -> Node], NEW s \in Story,
           NodeWhole(old[s]), NodeWhole(new[s]), NEW row, RowIs(row, old[s])
    PROVE  RowIs(RowAfter(row, old, new, s), new[s])
<1> DEFINE r == RowAfter(row, old, new, s)
<1>1. /\ Exists(old[s]) <=> old[s].body
      /\ Exists(new[s]) <=> new[s].body
  BY NodeGone DEF Exists, Gone, NodeWhole
<1>2. CASE old[s].body /\ new[s].body
  <2>1. r.count = row.count
    BY <1>1, <1>2 DEF RowAfter, Added, Removed
  <2>2. r.n = IF old[s] # new[s] THEN new[s].n ELSE row.n
    BY <1>1, <1>2 DEF RowAfter, Added, Changed
  <2> QED
    BY <1>2, <2>1, <2>2 DEF RowIs
<1>3. CASE old[s].body /\ ~new[s].body
  <2>1. r.count = 0
    BY <1>1, <1>3 DEF RowAfter, Added, Removed
  <2> QED
    BY <1>3, <2>1 DEF RowIs
<1>4. CASE ~old[s].body /\ new[s].body
  <2>1. r.count = row.count + 1 /\ r.n = new[s].n
    BY <1>1, <1>4 DEF RowAfter, Added
  <2> QED
    BY <1>4, <2>1 DEF RowIs
<1>5. CASE ~old[s].body /\ ~new[s].body
  <2>1. r.count = row.count
    BY <1>1, <1>5 DEF RowAfter, Added, Removed
  <2> QED
    BY <1>5, <2>1 DEF RowIs
<1> QED
  BY <1>2, <1>3, <1>4, <1>5

LEMMA ListFollows ==
    ASSUME ListsOK, NEW d \in Device, NEW s \in Story,
           NEW old \in [Story -> Node], NEW new \in [Story -> Node],
           NodeWhole(old[s]), NodeWhole(new[s]),
           RowIs(rows[d][s], old[s]), ListOfFeedEvents(d, old, new)
    PROVE  RowIs(rows'[d][s], new[s])
<1>1. rows'[d][s] = RowAfter(rows[d][s], old, new, s)
  BY DEF ListOfFeedEvents, ListsOK
<1> QED
  BY <1>1, RowFollows

\* What a device knows of a story: it has heard of it or published it.
Known(d, s)    == cache[d][s].body \/ \E k \in 1..Len(out[d]) : Publishes(out[d][k], s)
OnItsWay(d, s) == \E k \in 1..Len(inbox[d]) : Publishes(inbox[d][k].write, s)

\* Every counter that is written, or was heard of, follows its story.
DeviceWhole(d, s) ==
    /\ NodeWhole(cache[d][s])
    /\ feed[s].body <=> cache[d][s].body \/ OnItsWay(d, s)
    /\ \A k \in 1..arrived[d] : Publishes(out[d][k], s) => feed[s].body
    /\ \A k \in 1..Len(out[d]) : Recounts(out[d][k], s) =>
            cache[d][s].body \/ \E j \in 1..(k - 1) : Publishes(out[d][j], s)
    /\ \A k \in 1..Len(inbox[d]) : Recounts(inbox[d][k].write, s) =>
            cache[d][s].body \/ \E j \in 1..(k - 1) : Publishes(inbox[d][j].write, s)
    /\ RowIs(rows[d][s], Visible(d)[s])

StoryWhole(s) == NodeWhole(feed[s]) /\ \A d \in Device : DeviceWhole(d, s)

LEMMA VisibleWhole ==
    ASSUME NetworkOK, NEW d \in Device, NEW s \in Story, DeviceWhole(d, s),
           QueuesIn(KeepingOp(s))
    PROVE  /\ NodeWhole(Visible(d)[s]) /\ (Visible(d)[s].body <=> Known(d, s))
           /\ cache[d] \in [Story -> Node] /\ out[d] \in Seq(Write)
           /\ \A k \in 1..Len(out[d]) : out[d][k] \in KeepingOp(s)
           /\ Len(out[d]) \in Nat /\ Len(inbox[d]) \in Nat /\ arrived[d] \in Nat
<1>1. /\ cache[d] \in [Story -> Node] /\ out[d] \in Seq(Write)
      /\ \A k \in 1..Len(out[d]) : out[d][k] \in KeepingOp(s)
      /\ Len(out[d]) \in Nat /\ Len(inbox[d]) \in Nat /\ arrived[d] \in Nat
  BY LenProperties DEF NetworkOK, QueuesIn
<1>2. \A k \in 1..Len(out[d]) : Recounts(out[d][k], s) =>
          cache[d][s].body \/ \E j \in 1..Len(out[d]) : Publishes(out[d][j], s)
  BY <1>1 DEF DeviceWhole
<1>3. NodeWhole(cache[d][s])
  BY DEF DeviceWhole
<1>4. NodeWhole(View(cache[d], out[d])[s])
  BY <1>1, <1>2, <1>3, ViewWhole
<1>5. View(cache[d], out[d])[s].body <=>
          cache[d][s].body \/ \E k \in 1..Len(out[d]) : Publishes(out[d][k], s)
  BY <1>1, ViewBody
<1> QED
  BY <1>1, <1>4, <1>5 DEF Visible, Known

(* A device that writes a counter only of a story it knows, and removes    *)
(* none, keeps the story whole.                                            *)
LEMMA WritesWhole ==
    ASSUME TypeInv, NEW d \in Device, NEW ops \in Seq(Write), Writes(d, ops), UNCHANGED dbVars,
           NEW s \in Story, QueuesIn(KeepingOp(s)), StoryWhole(s),
           \A k \in 1..Len(ops) : ops[k] \in KeepingOp(s),
           \A k \in 1..Len(ops) : Recounts(ops[k], s) => Known(d, s)
    PROVE  StoryWhole(s)' /\ \A e \in Device : Known(e, s) => Known(e, s)'
<1>0. NetworkOK /\ ListsOK
  BY DEF TypeInv, TypeOK
<1> DEFINE own == out[d] \o ops
<1>1. /\ cache[d] \in [Story -> Node] /\ out[d] \in Seq(Write) /\ DeviceWhole(d, s)
      /\ NodeWhole(Visible(d)[s]) /\ Visible(d) \in [Story -> Node]
      /\ Len(out[d]) \in Nat /\ Len(ops) \in Nat /\ arrived[d] \in Nat /\ arrived[d] <= Len(out[d])
  BY <1>0, VisibleWhole, VisibleType, LenProperties DEF StoryWhole, NetworkOK
<1>2. /\ own \in Seq(Write) /\ Len(own) = Len(out[d]) + Len(ops)
      /\ \A k \in 1..Len(own) :
            own[k] = IF k <= Len(out[d]) THEN out[d][k] ELSE ops[k - Len(out[d])]
  BY <1>1, ConcatProperties
<1>3. /\ out' = [out EXCEPT ![d] = own] /\ inbox' = inbox /\ cache' = cache
      /\ arrived' = arrived /\ feed' = feed
      /\ ListOfFeedEvents(d, Visible(d), View(cache[d], own))
  BY DEF Writes, dbVars
<1> HIDE DEF own
<1>4. out'[d] = own /\ \A e \in Device \ {d} : out'[e] = out[e] /\ rows'[e] = rows[e]
  BY <1>0, <1>3 DEF NetworkOK, ListsOK, ListOfFeedEvents
<1>5. \A k \in 1..Len(out[d]) : k \in 1..Len(own) /\ own[k] = out[d][k]
  BY <1>1, <1>2
<1>6. \A e \in Device : Known(e, s) => Known(e, s)'
  <2>1. Known(d, s) => Known(d, s)'
    BY <1>3, <1>4, <1>5 DEF Known
  <2>2. \A e \in Device \ {d} : Known(e, s) => Known(e, s)'
    BY <1>3, <1>4 DEF Known
  <2> QED
    BY <2>1, <2>2
<1>7. ASSUME NEW k \in 1..Len(own), Recounts(own[k], s)
      PROVE  cache[d][s].body \/ \E j \in 1..(k - 1) : Publishes(own[j], s)
  <2>1. CASE k <= Len(out[d])
    <3>1. k \in 1..Len(out[d]) /\ Recounts(out[d][k], s)
      BY <1>1, <1>2, <1>7, <2>1
    <3>2. cache[d][s].body \/ \E j \in 1..(k - 1) : Publishes(out[d][j], s)
      BY <1>1, <3>1 DEF DeviceWhole
    <3>3. \A j \in 1..(k - 1) : own[j] = out[d][j]
      BY <1>1, <1>5, <3>1
    <3> QED
      BY <3>2, <3>3
  <2>2. CASE k > Len(out[d])
    <3>1. k - Len(out[d]) \in 1..Len(ops) /\ Recounts(ops[k - Len(out[d])], s)
      BY <1>1, <1>2, <1>7, <2>2
    <3>2. Known(d, s)
      BY <3>1
    <3>3. \A j \in 1..Len(out[d]) : j \in 1..(k - 1) /\ own[j] = out[d][j]
      BY <1>1, <1>2, <1>5, <2>2
    <3> QED
      BY <3>2, <3>3 DEF Known
  <2> QED
    BY <1>1, <1>2, <2>1, <2>2
<1>8. \A k \in 1..Len(own) : own[k] \in KeepingOp(s)
  <2>1. \A k \in 1..Len(out[d]) : out[d][k] \in KeepingOp(s)
    BY DEF QueuesIn
  <2>2. ASSUME NEW k \in 1..Len(own) PROVE own[k] \in KeepingOp(s)
    <3>1. CASE k <= Len(out[d])
      BY <1>1, <1>2, <2>1, <3>1
    <3>2. CASE k > Len(out[d])
      <4>1. k - Len(out[d]) \in 1..Len(ops) /\ own[k] = ops[k - Len(out[d])]
        BY <1>1, <1>2, <3>2
      <4> QED
        BY <4>1
    <3> QED
      BY <1>1, <1>2, <3>1, <3>2
  <2> QED
    BY <2>2
<1>9. RowIs(rows'[d][s], View(cache[d], own)[s])
  <2>1. View(cache[d], own) \in [Story -> Node]
    BY <1>1, <1>2, ViewType
  <2>2. \A k \in 1..Len(own) : Recounts(own[k], s) =>
            cache[d][s].body \/ \E j \in 1..Len(own) : Publishes(own[j], s)
    BY <1>1, <1>2, <1>7
  <2>3. NodeWhole(View(cache[d], own)[s])
    BY <1>1, <1>2, <1>8, <2>2, ViewWhole DEF DeviceWhole
  <2>4. RowIs(rows[d][s], Visible(d)[s])
    BY <1>1 DEF DeviceWhole
  <2> QED
    BY <1>0, <1>1, <1>3, <2>1, <2>3, <2>4, ListFollows
<1>10. DeviceWhole(d, s)'
  <2>1. \A k \in 1..arrived[d] : own[k] = out[d][k]
    BY <1>1, <1>5
  <2>2. Visible(d)' = View(cache[d], own)
    BY <1>3, <1>4 DEF Visible
  <2>3. DeviceWhole(d, s) /\ UNCHANGED <<cache, feed, inbox, arrived>>
    BY <1>1, <1>3
  <2>4. \A k \in 1..arrived[d] : Publishes(own[k], s) => feed[s].body
    BY <2>1, <2>3 DEF DeviceWhole
  <2>5. RowIs(rows'[d][s], Visible(d)'[s])
    BY <1>9, <2>2
  <2> QED
    BY <1>4, <1>7, <2>3, <2>4, <2>5 DEF DeviceWhole, OnItsWay
<1>11. ASSUME NEW e \in Device \ {d} PROVE DeviceWhole(e, s)'
  <2>1. DeviceWhole(e, s) /\ Visible(e)' = Visible(e)
    BY <1>3, <1>4 DEF StoryWhole, Visible
  <2> QED
    BY <1>3, <1>4, <2>1 DEF DeviceWhole, OnItsWay
<1> QED
  BY <1>3, <1>6, <1>10, <1>11 DEF StoryWhole

LEMMA ReceivesWhole ==
    ASSUME TypeInv, NEW d \in Device, ServerReceives(d),
           NEW s \in Story, QueuesIn(KeepingOp(s)), StoryWhole(s)
    PROVE  StoryWhole(s)' /\ \A e \in Device : Known(e, s) => Known(e, s)'
<1>0. NetworkOK /\ ListsOK /\ ServerOK
  BY DEF TypeInv, TypeOK
<1>1. /\ arrived[d] + 1 \in 1..Len(out[d]) /\ arrived[d] \in Nat
      /\ feed' = Applied(feed, Sent(d))
      /\ arrived' = [arrived EXCEPT ![d] = arrived[d] + 1]
      /\ UNCHANGED <<out, cache>>
      /\ \A e \in Device :
           /\ Len(inbox'[e]) = Len(inbox[e]) + 1 /\ Len(inbox[e]) \in Nat
           /\ \A k \in 1..Len(inbox[e]) : inbox'[e][k] = inbox[e][k]
           /\ inbox'[e][Len(inbox[e]) + 1] = Telling(d)
  BY <1>0, SentFacts
<1>2. Telling(d).write = Sent(d) /\ Sent(d) \in KeepingOp(s) /\ rows' = rows
  BY <1>1 DEF Telling, Sent, QueuesIn, ServerReceives, listVars
<1>3. \A e \in Device : DeviceWhole(e, s)
  BY DEF StoryWhole
<1>4. Recounts(Sent(d), s) => feed[s].body
  <2> SUFFICES ASSUME Recounts(Sent(d), s) PROVE feed[s].body
    OBVIOUS
  <2>1. cache[d][s].body \/ \E j \in 1..arrived[d] : Publishes(out[d][j], s)
    <3>1. cache[d][s].body \/ \E j \in 1..((arrived[d] + 1) - 1) : Publishes(out[d][j], s)
      BY <1>1, <1>3 DEF DeviceWhole, Sent
    <3> QED
      BY <1>1, <3>1
  <2> QED
    BY <1>3, <2>1 DEF DeviceWhole
<1>5. /\ feed'[s].body <=> feed[s].body \/ Publishes(Sent(d), s)
      /\ NodeWhole(feed'[s])
  BY <1>0, <1>1, <1>2, <1>4, AppliedWhole DEF ServerOK, StoryWhole
<1>6. ASSUME NEW e \in Device PROVE DeviceWhole(e, s)'
  <2> DEFINE len == Len(inbox[e])
  <2>1. /\ Len(inbox'[e]) = len + 1 /\ len \in Nat
        /\ \A k \in 1..len : inbox'[e][k] = inbox[e][k]
        /\ inbox'[e][len + 1].write = Sent(d)
    BY <1>1, <1>2
  <2> HIDE DEF len
  <2>2. OnItsWay(e, s)' <=> OnItsWay(e, s) \/ Publishes(Sent(d), s)
    <3>1. \A k \in 1..Len(inbox'[e]) : k \in 1..len \/ k = len + 1
      BY <2>1
    <3>2. len + 1 \in 1..Len(inbox'[e]) /\ \A k \in 1..len : k \in 1..Len(inbox'[e])
      BY <2>1
    <3> QED
      BY <2>1, <3>1, <3>2 DEF OnItsWay, len
  <2>3. feed'[s].body <=> cache'[e][s].body \/ OnItsWay(e, s)'
    BY <1>1, <1>3, <1>5, <2>2 DEF DeviceWhole
  <2>4. \A k \in 1..arrived'[e] : Publishes(out[e][k], s) => feed'[s].body
    <3>1. CASE e = d
      <4>1. \A k \in 1..arrived'[e] : k \in 1..arrived[d] \/ k = arrived[d] + 1
        BY <1>0, <1>1, <3>1 DEF NetworkOK
      <4> QED
        BY <1>3, <1>5, <3>1, <4>1 DEF DeviceWhole, Sent
    <3>2. CASE e # d
      BY <1>0, <1>1, <1>3, <1>5, <3>2 DEF DeviceWhole, NetworkOK
    <3> QED
      BY <3>1, <3>2
  <2>5. ASSUME NEW k \in 1..Len(inbox'[e]), Recounts(inbox'[e][k].write, s)
        PROVE  cache[e][s].body \/ \E j \in 1..(k - 1) : Publishes(inbox'[e][j].write, s)
    <3>1. CASE k \in 1..len
      <4>1. cache[e][s].body \/ \E j \in 1..(k - 1) : Publishes(inbox[e][j].write, s)
        BY <1>3, <2>1, <2>5, <3>1 DEF DeviceWhole, len
      <4>2. \A j \in 1..(k - 1) : inbox'[e][j] = inbox[e][j]
        BY <2>1, <3>1
      <4> QED
        BY <4>1, <4>2
    <3>2. CASE k = len + 1
      <4>1. cache[e][s].body \/ OnItsWay(e, s)
        BY <1>3, <1>4, <2>1, <2>5, <3>2 DEF DeviceWhole
      <4>2. \A j \in 1..len : j \in 1..(k - 1) /\ inbox'[e][j] = inbox[e][j]
        BY <2>1, <3>2
      <4> QED
        BY <4>1, <4>2 DEF OnItsWay, len
    <3> QED
      BY <2>1, <3>1, <3>2
  <2>6. Visible(e)' = Visible(e)
    BY <1>1 DEF Visible
  <2> QED
    BY <1>1, <1>2, <1>3, <2>3, <2>4, <2>5, <2>6 DEF DeviceWhole
<1> QED
  BY <1>1, <1>5, <1>6 DEF StoryWhole, Known

LEMMA HearsWhole ==
    ASSUME TypeInv, AnswersInOrder, NEW d \in Device, DeviceHears(d),
           NEW s \in Story, QueuesIn(KeepingOp(s)), StoryWhole(s)
    PROVE  StoryWhole(s)' /\ \A e \in Device : Known(e, s) => Known(e, s)'
<1>0. NetworkOK /\ ListsOK
  BY DEF TypeInv, TypeOK
<1> DEFINE w == Told(d).write
<1>1. /\ Told(d) = inbox[d][1] /\ Heard(d) \in [Story -> Node]
      /\ Len(inbox[d]) \in Nat \ {0}
      /\ Len(inbox'[d]) = Len(inbox[d]) - 1
      /\ \A k \in 1..Len(inbox'[d]) : inbox'[d][k] = inbox[d][k + 1]
      /\ Kept(d) \in Seq(Write) /\ Len(out[d]) \in Nat
      /\ Len(Kept(d)) = Len(out[d]) - Shift(d)
      /\ \A k \in 1..Len(Kept(d)) : Kept(d)[k] = out[d][k + Shift(d)]
      /\ arrived[d] \in Nat /\ Shift(d) <= arrived[d] /\ arrived[d] <= Len(out[d])
  BY HearFacts
<1>2. /\ cache' = [cache EXCEPT ![d] = Heard(d)]
      /\ out' = [out EXCEPT ![d] = Kept(d)]
      /\ arrived' = [arrived EXCEPT ![d] = arrived[d] - Shift(d)]
      /\ inbox' = [inbox EXCEPT ![d] = Tail(inbox[d])]
      /\ ListOfFeedEvents(d, Visible(d), View(Heard(d), Kept(d)))
      /\ feed' = feed
  BY HearFacts
<1>3. /\ cache'[d] = Heard(d) /\ out'[d] = Kept(d) /\ arrived'[d] = arrived[d] - Shift(d)
      /\ \A e \in Device \ {d} : /\ cache'[e] = cache[e] /\ out'[e] = out[e]
                                 /\ arrived'[e] = arrived[e] /\ inbox'[e] = inbox[e]
                                 /\ rows'[e] = rows[e]
  BY <1>0, <1>2 DEF NetworkOK, ListsOK, ListOfFeedEvents
<1>4. DeviceWhole(d, s) /\ cache[d] \in [Story -> Node] /\ w \in KeepingOp(s)
  <2>1. DeviceWhole(d, s) /\ cache[d] \in [Story -> Node]
    BY <1>0 DEF StoryWhole, NetworkOK
  <2>2. 1 \in 1..Len(inbox[d]) /\ w = inbox[d][1].write
    BY <1>1
  <2> QED
    BY <2>1, <2>2 DEF QueuesIn
<1>5. Recounts(w, s) => cache[d][s].body
  <2> SUFFICES ASSUME Recounts(w, s) PROVE cache[d][s].body
    OBVIOUS
  <2>1. 1 \in 1..Len(inbox[d]) /\ 1..(1 - 1) = {}
    BY <1>1
  <2> QED
    BY <1>1, <1>4, <2>1 DEF DeviceWhole
<1>6. /\ Heard(d)[s].body <=> cache[d][s].body \/ Publishes(w, s)
      /\ NodeWhole(Heard(d)[s])
  BY <1>4, <1>5, AppliedWhole DEF DeviceWhole, Heard
<1>7. Shift(d) = 0 \/ (Shift(d) = 1 /\ w = out[d][1])
  BY HearsOrder DEF Shift
<1> HIDE DEF w
<1>8. ASSUME NEW k \in 1..Len(out[d]), Publishes(out[d][k], s), ~Heard(d)[s].body
      PROVE  k - Shift(d) \in 1..Len(Kept(d)) /\ Publishes(Kept(d)[k - Shift(d)], s)
  <2>1. k # Shift(d)
    BY <1>6, <1>7, <1>8
  <2>2. k - Shift(d) \in 1..Len(Kept(d))
    BY <1>1, <1>7, <2>1
  <2>3. Kept(d)[k - Shift(d)] = out[d][k]
    <3>1. (k - Shift(d)) + Shift(d) = k
      BY <1>7
    <3> QED
      BY <1>1, <2>2, <3>1
  <2> QED
    BY <1>8, <2>2, <2>3
<1>9. ASSUME NEW k \in 1..Len(Kept(d)), Recounts(Kept(d)[k], s), ~Heard(d)[s].body
      PROVE  \E j \in 1..(k - 1) : Publishes(Kept(d)[j], s)
  <2>1. k + Shift(d) \in 1..Len(out[d]) /\ Recounts(out[d][k + Shift(d)], s)
    BY <1>1, <1>7, <1>9
  <2>2. PICK j \in 1..((k + Shift(d)) - 1) : Publishes(out[d][j], s)
    <3>1. ~cache[d][s].body
      BY <1>6, <1>9
    <3> QED
      BY <1>4, <2>1, <3>1 DEF DeviceWhole
  <2>3. j \in 1..Len(out[d])
    BY <1>1, <1>7, <2>1
  <2>4. j - Shift(d) \in 1..Len(Kept(d)) /\ Publishes(Kept(d)[j - Shift(d)], s)
    BY <1>8, <1>9, <2>2, <2>3
  <2>5. j - Shift(d) \in 1..(k - 1)
    BY <1>7, <2>2, <2>4
  <2> QED
    BY <2>4, <2>5
<1>10. feed[s].body <=> Heard(d)[s].body \/ OnItsWay(d, s)'
  <2>1. OnItsWay(d, s) <=> Publishes(w, s) \/ OnItsWay(d, s)'
    <3>1. \A k \in 1..Len(inbox[d]) : k = 1 \/ k - 1 \in 1..Len(inbox'[d])
      BY <1>1
    <3>2. 1 \in 1..Len(inbox[d]) /\ \A k \in 1..Len(inbox'[d]) : k + 1 \in 1..Len(inbox[d])
      BY <1>1
    <3>3. OnItsWay(d, s) => Publishes(w, s) \/ OnItsWay(d, s)'
      <4> SUFFICES ASSUME NEW k \in 1..Len(inbox[d]), Publishes(inbox[d][k].write, s), k # 1
                   PROVE  OnItsWay(d, s)'
        BY <1>1 DEF OnItsWay, w
      <4>1. k - 1 \in 1..Len(inbox'[d]) /\ (k - 1) + 1 = k
        BY <3>1
      <4>2. inbox'[d][k - 1] = inbox[d][k]
        BY <1>1, <4>1
      <4> QED
        BY <4>1, <4>2 DEF OnItsWay
    <3> QED
      BY <1>1, <3>2, <3>3 DEF OnItsWay, w
  <2> QED
    BY <1>4, <1>6, <2>1 DEF DeviceWhole
<1>11. ASSUME NEW k \in 1..Len(inbox'[d]), Recounts(inbox'[d][k].write, s), ~Heard(d)[s].body
       PROVE  \E j \in 1..(k - 1) : Publishes(inbox'[d][j].write, s)
  <2>1. k + 1 \in 1..Len(inbox[d]) /\ inbox'[d][k] = inbox[d][k + 1] /\ (k + 1) - 1 = k
    BY <1>1
  <2>2. PICK j \in 1..k : Publishes(inbox[d][j].write, s)
    BY <1>4, <1>6, <1>11, <2>1 DEF DeviceWhole
  <2>3. j # 1
    BY <1>1, <1>6, <1>11, <2>2 DEF w
  <2>4. j - 1 \in 1..Len(inbox'[d]) /\ j - 1 \in 1..(k - 1) /\ (j - 1) + 1 = j
    BY <1>1, <2>2, <2>3
  <2>5. inbox'[d][j - 1] = inbox[d][j]
    BY <1>1, <2>4
  <2> QED
    BY <2>2, <2>4, <2>5
<1>12. \A k \in 1..Len(Kept(d)) : Kept(d)[k] \in KeepingOp(s)
  <2>1. QueuesIn(KeepingOp(s))'
    BY HearsIn
  <2> QED
    BY <1>3, <2>1 DEF QueuesIn
<1>13. RowIs(rows'[d][s], View(Heard(d), Kept(d))[s])
  <2>1. View(Heard(d), Kept(d)) \in [Story -> Node]
    BY <1>1, ViewType
  <2>2. \A k \in 1..Len(Kept(d)) : Recounts(Kept(d)[k], s) =>
            Heard(d)[s].body \/ \E j \in 1..Len(Kept(d)) : Publishes(Kept(d)[j], s)
    BY <1>9
  <2>3. NodeWhole(View(Heard(d), Kept(d))[s])
    BY <1>1, <1>6, <1>12, <2>2, ViewWhole
  <2>4. NodeWhole(Visible(d)[s]) /\ Visible(d) \in [Story -> Node]
    BY <1>0, <1>4, VisibleWhole, VisibleType
  <2>5. RowIs(rows[d][s], Visible(d)[s])
    BY <1>4 DEF DeviceWhole
  <2> QED
    BY <1>0, <1>2, <2>1, <2>3, <2>4, <2>5, ListFollows
<1>14. \A k \in 1..arrived'[d] : Publishes(Kept(d)[k], s) => feed[s].body
  <2>1. ASSUME NEW k \in 1..arrived'[d] PROVE k \in 1..Len(Kept(d)) /\ k + Shift(d) \in 1..arrived[d]
    BY <1>1, <1>3, <1>7
  <2> QED
    BY <1>1, <1>4, <2>1 DEF DeviceWhole
<1>15. DeviceWhole(d, s)'
  <2>1. Visible(d)' = View(Heard(d), Kept(d))
    BY <1>3 DEF Visible
  <2> QED
    BY <1>2, <1>3, <1>6, <1>9, <1>10, <1>11, <1>13, <1>14, <2>1 DEF DeviceWhole
<1>16. ASSUME NEW e \in Device \ {d} PROVE DeviceWhole(e, s)'
  <2>1. DeviceWhole(e, s) /\ Visible(e)' = Visible(e) /\ OnItsWay(e, s)' = OnItsWay(e, s)
    BY <1>3 DEF StoryWhole, Visible, OnItsWay
  <2> QED
    BY <1>2, <1>3, <2>1 DEF DeviceWhole
<1>17. Known(d, s) => Known(d, s)'
  BY <1>3, <1>6, <1>8 DEF Known
<1>18. \A e \in Device \ {d} : Known(e, s) => Known(e, s)'
  BY <1>3 DEF Known
<1> QED
  BY <1>2, <1>15, <1>16, <1>17, <1>18 DEF StoryWhole

(* A device that starts anew has the server's data, which is whole. *)
LEMMA ResetWhole ==
    ASSUME TypeInv, NEW d \in Device, Reconnect(d) \/ Relaunch(d),
           NEW s \in Story, QueuesIn(KeepingOp(s)), StoryWhole(s)
    PROVE  /\ StoryWhole(s)'
           /\ \A e \in Device : Known(e, s) /\ (e = d => Reconnect(d)) => Known(e, s)'
<1>0. NetworkOK /\ ListsOK /\ ServerOK
  BY DEF TypeInv, TypeOK
<1> DEFINE own == IF Reconnect(d) THEN out[d] ELSE <<>>
<1>1. /\ cache' = [cache EXCEPT ![d] = feed] /\ inbox' = [inbox EXCEPT ![d] = <<>>]
      /\ arrived' = [arrived EXCEPT ![d] = 0] /\ feed' = feed
  BY DEF Reconnect, Relaunch, dbVars
<1>2. out' = [out EXCEPT ![d] = own]
  <2>1. Reconnect(d) => out' = out
    BY DEF Reconnect
  <2>2. Relaunch(d) => out' = [out EXCEPT ![d] = <<>>]
    BY DEF Relaunch
  <2> QED
    BY <1>0, <2>1, <2>2 DEF NetworkOK
<1>3. \A e \in Device \ {d} : rows'[e] = rows[e]
  BY <1>0 DEF Reconnect, Relaunch, ListOfFeedEvents, ListsOK
<1>4. /\ cache[d] \in [Story -> Node] /\ out[d] \in Seq(Write) /\ feed \in [Story -> Node]
      /\ Visible(d) \in [Story -> Node] /\ NodeWhole(Visible(d)[s])
      /\ DeviceWhole(d, s) /\ NodeWhole(feed[s])
  BY <1>0, VisibleWhole, VisibleType DEF StoryWhole, NetworkOK, ServerOK
<1>5. /\ own \in Seq(Write) /\ \A k \in 1..Len(own) : own[k] \in KeepingOp(s)
      /\ own = out[d] \/ (own = <<>> /\ Len(own) = 0 /\ ~Reconnect(d))
  BY <1>4, EmptySeq DEF QueuesIn
<1> HIDE DEF own
<1>6. /\ cache'[d] = feed /\ out'[d] = own /\ arrived'[d] = 0 /\ inbox'[d] = <<>>
      /\ \A e \in Device \ {d} : /\ cache'[e] = cache[e] /\ out'[e] = out[e]
                                 /\ arrived'[e] = arrived[e] /\ inbox'[e] = inbox[e]
  BY <1>0, <1>1, <1>2 DEF NetworkOK
<1>7. cache[d][s].body => feed[s].body
  BY <1>4 DEF DeviceWhole
<1>8. \A k \in 1..Len(own) : Recounts(own[k], s) =>
          feed[s].body \/ \E j \in 1..(k - 1) : Publishes(own[j], s)
  BY <1>4, <1>5, <1>7 DEF DeviceWhole
<1>9. RowIs(rows'[d][s], View(feed, own)[s])
  <2>1. CASE Reconnect(d)
    <3>1. own = out[d] /\ ListOfFeedEvents(d, Visible(d), View(feed, own))
      BY <2>1 DEF Reconnect, own
    <3>2. View(feed, own) \in [Story -> Node]
      BY <1>4, <1>5, ViewType
    <3>3. \A k \in 1..Len(own) : Recounts(own[k], s) =>
              feed[s].body \/ \E j \in 1..Len(own) : Publishes(own[j], s)
      <4>1. Len(own) \in Nat
        BY <1>5, LenProperties
      <4> QED
        BY <1>8, <4>1
    <3>4. NodeWhole(View(feed, own)[s])
      BY <1>4, <1>5, <3>3, ViewWhole
    <3> QED
      BY <1>0, <1>4, <3>1, <3>2, <3>4, ListFollows DEF DeviceWhole
  <2>2. CASE Relaunch(d) /\ ~Reconnect(d)
    <3>1. own = <<>> /\ Len(own) = 0
      BY <2>2, EmptySeq DEF own
    <3>2. View(feed, own)[s].body <=> feed[s].body
      <4>1. View(feed, own)[s].body <=>
                feed[s].body \/ \E k \in 1..Len(own) : Publishes(own[k], s)
        BY <1>4, <1>5, ViewBody
      <4> QED
        BY <3>1, <4>1
    <3>3. View(feed, own)[s].n = feed[s].n
      BY <3>1 DEF View
    <3>4. rows'[d][s] = [count |-> IF feed[s].body THEN 1 ELSE 0, n |-> feed[s].n]
      BY <1>0, <2>2 DEF Relaunch, ListsOK
    <3> QED
      BY <3>2, <3>3, <3>4 DEF RowIs
  <2> QED
    BY <2>1, <2>2
<1>10. DeviceWhole(d, s)'
  <2>1. Visible(d)' = View(feed, own)
    BY <1>6 DEF Visible
  <2>2. 1..0 = {} /\ Len(<<>>) = 0
    OBVIOUS
  <2> QED
    BY <1>1, <1>4, <1>6, <1>8, <1>9, <2>1, <2>2 DEF DeviceWhole, OnItsWay
<1>11. ASSUME NEW e \in Device \ {d} PROVE DeviceWhole(e, s)'
  <2>1. DeviceWhole(e, s) /\ Visible(e)' = Visible(e) /\ OnItsWay(e, s)' = OnItsWay(e, s)
    BY <1>6 DEF StoryWhole, Visible, OnItsWay
  <2> QED
    BY <1>1, <1>3, <1>6, <2>1 DEF DeviceWhole
<1>12. ASSUME NEW e \in Device, Known(e, s), e = d => Reconnect(d) PROVE Known(e, s)'
  BY <1>5, <1>6, <1>7, <1>12 DEF Known
<1> QED
  BY <1>1, <1>4, <1>10, <1>11, <1>12 DEF StoryWhole

\* What a client is about to count, it knows.
CountsKnown(s) ==
    \A i \in Reply : phase[i] = "counting" /\ parent[i] = s /\ seen[i] # Absent =>
        Known(owner[i], s)

\* The writes that take stories away take only those of D.
AgreedOp(D) == {w \in Write : w.op \in {"remove", "clear"} => w.id \in D}

ListInv ==
    /\ TypeInv
    /\ AnswersInOrder
    /\ QueuesIn(AgreedOp(deleted))
    /\ \A s \in Story \ deleted : StoryWhole(s) /\ CountsKnown(s)

LEMMA KnownKept ==
    ASSUME TypeInv, NEW s \in Story, CountsKnown(s), NEW i \in Item, NEW p, p # "counting",
           phase' = [phase EXCEPT ![i] = p], UNCHANGED seen,
           \A j \in Reply \ {i} : parent'[j] = parent[j] /\ owner'[j] = owner[j],
           \A e \in Device : Known(e, s) => Known(e, s)'
    PROVE  CountsKnown(s)'
<1>0. UploadsOK
  BY DEF TypeInv, TypeOK
<1> SUFFICES ASSUME NEW j \in Reply, phase'[j] = "counting", parent'[j] = s, seen'[j] # Absent
             PROVE  Known(owner[j], s)'
  BY DEF CountsKnown
<1>1. j # i /\ phase[j] = "counting"
  BY <1>0 DEF UploadsOK, Item
<1>2. PICK e \in Device : e = owner[j]
  BY <1>0, <1>1 DEF UploadsOK, Item
<1>3. parent[j] = s /\ seen[j] # Absent /\ e = owner'[j]
  BY <1>1, <1>2
<1>4. Known(e, s)'
  BY <1>1, <1>2, <1>3 DEF CountsKnown
<1> QED
  BY <1>3, <1>4 DEF Known

LEMMA KnownUnmoved ==
    ASSUME UNCHANGED upVars, TypeInv, NEW s \in Story, CountsKnown(s),
           \A e \in Device : Known(e, s) => Known(e, s)'
    PROVE  CountsKnown(s)'
<1> SUFFICES ASSUME NEW j \in Reply, phase'[j] = "counting", parent'[j] = s, seen'[j] # Absent
             PROVE  Known(owner[j], s)'
  BY DEF CountsKnown
<1>1. phase[j] = "counting" /\ parent[j] = s /\ seen[j] # Absent /\ owner' = owner
  BY DEF upVars
<1>2. PICK e \in Device : e = owner[j]
  BY <1>1 DEF TypeInv, TypeOK, UploadsOK, Item
<1>3. Known(e, s)'
  BY <1>1, <1>2 DEF CountsKnown
<1> QED
  BY <1>1, <1>2, <1>3 DEF Known

LEMMA NextOrder == TypeInv /\ AnswersInOrder /\ [Next]_vars => AnswersInOrder'
<1> SUFFICES ASSUME TypeInv, AnswersInOrder, [Next]_vars PROVE AnswersInOrder'
  OBVIOUS
<1>0. TypeOK /\ UploadsOK /\ NetworkOK
  BY DEF TypeInv, TypeOK
<1>1. ASSUME UNCHANGED netVars PROVE AnswersInOrder'
  BY <1>1 DEF netVars, AnswersInOrder, OrderAt, Answers, Rank, UpTo
<1>2. ASSUME NEW i \in Item, DownloadURL(i) PROVE AnswersInOrder'
  <2>1. owner[i] \in Device /\ Writes(owner[i], <<SaveOp(i)>>)
    BY <1>0, <1>2 DEF DownloadURL, UploadsOK, SaveOp
  <2> QED
    BY <1>0, <2>1, OpsFacts, WritesOrder
<1>3. ASSUME NEW i \in Reply, CountRecording(i) PROVE AnswersInOrder'
  <2>1. owner[i] \in Device /\ parent[i] \in Story /\ Writes(owner[i], CountOps(i))
    BY <1>0, <1>3 DEF CountRecording, UploadsOK, Item, CountOps
  <2> QED
    BY <1>0, <2>1, OpsFacts, WritesOrder
<1>4. ASSUME NEW d \in Device, NEW s \in Story, DeleteStory(d, s) PROVE AnswersInOrder'
  <2>1. Writes(d, DeleteOps(s))
    BY <1>4 DEF DeleteStory, DeleteOps
  <2> QED
    BY <1>0, <2>1, OpsFacts, WritesOrder
<1>5. ASSUME NEW d \in Device,
             ServerReceives(d) \/ DeviceHears(d) \/ Reconnect(d) \/ Relaunch(d)
      PROVE  AnswersInOrder'
  BY <1>5, ReceivesOrder, HearsOrder, ResetOrder
<1>6. ASSUME NEW d \in Device, NEW s \in Story, SendStory(d, s) \/ DidSelectRow(d, s)
      PROVE  AnswersInOrder'
  BY <1>1, <1>6 DEF SendStory, DidSelectRow
<1>7. ASSUME NEW d \in Device, NEW i \in Reply, SendReply(d, i) PROVE AnswersInOrder'
  BY <1>1, <1>7 DEF SendReply
<1>8. ASSUME NEW i \in Item, PutFile(i) \/ DownloadURLFails(i) PROVE AnswersInOrder'
  BY <1>1, <1>8 DEF PutFile, DownloadURLFails
<1>9. ASSUME NEW i \in Reply, ReadNoRecordings(i) PROVE AnswersInOrder'
  BY <1>1, <1>9 DEF ReadNoRecordings
<1>10. ASSUME NEW s \in Story, EraseFile(s) PROVE AnswersInOrder'
  BY <1>1, <1>10 DEF EraseFile
<1>11. CASE UNCHANGED vars
  BY <1>1, <1>11 DEF vars
<1> QED
  BY <1>2, <1>3, <1>4, <1>5, <1>6, <1>7, <1>8, <1>9, <1>10, <1>11 DEF Next

(* Nobody takes away what was not agreed to be deleted. *)
LEMMA NextAgreed ==
    ASSUME TypeInv, [Next]_vars, QueuesIn(AgreedOp(deleted))
    PROVE  deleted \subseteq deleted' /\ QueuesIn(AgreedOp(deleted))'
<1>1. PICK D : D = deleted'
  OBVIOUS
<1>2. deleted \subseteq D /\ \A d \in Device, s \in Story : DeleteStory(d, s) => s \in D
  BY <1>1 DEF Next, SendStory, DidSelectRow, DeleteStory, SendReply, ServerReceives, DeviceHears,
        Reconnect, Relaunch, PutFile, DownloadURLFails, DownloadURL, ReadNoRecordings,
        CountRecording, EraseFile, vars, fileVars
<1>3. QueuesIn(AgreedOp(D))
  BY <1>2 DEF QueuesIn, AgreedOp
<1>4. ASSUME NEW i \in Item PROVE SaveOp(i) \in AgreedOp(D)
  <2>1. SaveOp(i) \in Write
    BY FeedAssumption, OpTypes, 0 \in Nat DEF Item, SaveOp
  <2> QED
    BY <2>1 DEF AgreedOp, SaveOp, PublishOp, ReplyOp
<1>5. ASSUME NEW i \in Reply, CountRecording(i), NEW k \in 1..Len(CountOps(i))
      PROVE  CountOps(i)[k] \in AgreedOp(D)
  <2>1. seen[i] \in Nat \cup {Absent} /\ parent[i] \in Story
    BY <1>5 DEF CountRecording, TypeInv, TypeOK, UploadsOK, Item
  <2>2. seen[i] # Absent /\ CountOps(i)[k] = CountOp(parent[i], seen[i] + 1)
    BY <1>5 DEF CountOps
  <2>3. CountOps(i)[k] \in Write
    BY <2>1, <2>2, OpTypes
  <2> QED
    BY <2>2, <2>3 DEF AgreedOp, CountOp
<1>6. ASSUME NEW d \in Device, NEW s \in Story, DeleteStory(d, s)
      PROVE  RemoveOp(s) \in AgreedOp(D) /\ ClearOp(s) \in AgreedOp(D)
  BY <1>2, <1>6, OpTypes, 0 \in Nat DEF AgreedOp, RemoveOp, ClearOp
<1>7. QueuesIn(AgreedOp(D))'
  BY <1>3, <1>4, <1>5, <1>6, NextQueues
<1> QED
  BY <1>1, <1>2, <1>7 DEF QueuesIn, AgreedOp

LEMMA NextWhole ==
    ASSUME ListInv, [Next]_vars, NEW s \in Story, s \notin deleted'
    PROVE  StoryWhole(s)' /\ CountsKnown(s)'
<1>0. TypeInv /\ AnswersInOrder /\ TypeOK /\ UploadsOK /\ NetworkOK /\ ListsOK /\ ServerOK
  BY DEF ListInv, TypeInv, TypeOK
<1>1. s \notin deleted /\ StoryWhole(s) /\ CountsKnown(s)
  BY NextAgreed DEF ListInv
<1>2. QueuesIn(KeepingOp(s))
  BY <1>1 DEF ListInv, QueuesIn, AgreedOp, KeepingOp
<1>3. ASSUME UNCHANGED <<dbVars, netVars, listVars>>
      PROVE  StoryWhole(s)' /\ \A e \in Device : Known(e, s) => Known(e, s)'
  BY <1>1, <1>3 DEF dbVars, netVars, listVars, StoryWhole, DeviceWhole, OnItsWay, Visible, Known
<1>4. ASSUME NEW i \in Item, DownloadURL(i) PROVE StoryWhole(s)' /\ CountsKnown(s)'
  <2>1. owner[i] \in Device /\ Writes(owner[i], <<SaveOp(i)>>) /\ UNCHANGED dbVars
    BY <1>0, <1>4 DEF DownloadURL, UploadsOK, SaveOp
  <2> DEFINE ops == <<SaveOp(i)>>
  <2>2. ops \in Seq(Write) /\ SaveOp(i) \in Write
    BY <1>0, OpsFacts
  <2>3. SaveOp(i) \in KeepingOp(s) /\ ~Recounts(SaveOp(i), s)
    BY <2>2 DEF KeepingOp, Recounts, SaveOp, PublishOp, ReplyOp
  <2>4. \A k \in 1..Len(ops) : ops[k] \in KeepingOp(s) /\ ~Recounts(ops[k], s)
    BY <2>3
  <2>5. Writes(owner[i], ops)
    BY <2>1
  <2> HIDE DEF ops
  <2>6. StoryWhole(s)' /\ \A e \in Device : Known(e, s) => Known(e, s)'
    BY <1>0, <1>1, <1>2, <2>1, <2>2, <2>4, <2>5, WritesWhole
  <2>7. CountsKnown(s)'
    BY <1>0, <1>1, <1>4, <2>6, KnownKept DEF DownloadURL
  <2> QED
    BY <2>6, <2>7
<1>5. ASSUME NEW i \in Reply, CountRecording(i) PROVE StoryWhole(s)' /\ CountsKnown(s)'
  <2>1. /\ owner[i] \in Device /\ parent[i] \in Story /\ seen[i] \in Nat \cup {Absent}
        /\ Writes(owner[i], CountOps(i)) /\ UNCHANGED dbVars
    BY <1>0, <1>5 DEF CountRecording, UploadsOK, Item, CountOps
  <2>2. CountOps(i) \in Seq(Write)
    BY <1>0, <2>1, OpsFacts
  <2>3. ASSUME NEW k \in 1..Len(CountOps(i))
        PROVE  /\ CountOps(i)[k] \in KeepingOp(s)
               /\ Recounts(CountOps(i)[k], s) => Known(owner[i], s)
    <3>1. seen[i] # Absent /\ CountOps(i)[k] = CountOp(parent[i], seen[i] + 1)
      BY DEF CountOps
    <3>2. CountOps(i)[k] \in Write
      BY <2>1, <3>1, OpTypes
    <3>3. Recounts(CountOps(i)[k], s) => parent[i] = s
      BY <3>1 DEF Recounts, CountOp
    <3>4. phase[i] = "counting"
      BY <1>5 DEF CountRecording
    <3>5. CountOps(i)[k] \in KeepingOp(s)
      BY <3>1, <3>2 DEF KeepingOp, CountOp
    <3> QED
      BY <1>1, <3>1, <3>3, <3>4, <3>5 DEF CountsKnown
  <2>4. StoryWhole(s)' /\ \A e \in Device : Known(e, s) => Known(e, s)'
    BY <1>0, <1>1, <1>2, <2>1, <2>2, <2>3, WritesWhole
  <2>5. CountsKnown(s)'
    BY <1>0, <1>1, <1>5, <2>4, KnownKept DEF CountRecording, Item
  <2> QED
    BY <2>4, <2>5
<1>6. ASSUME NEW d \in Device, NEW t \in Story, DeleteStory(d, t)
      PROVE  StoryWhole(s)' /\ CountsKnown(s)'
  <2>1. Writes(d, DeleteOps(t)) /\ UNCHANGED dbVars /\ UNCHANGED upVars /\ t # s
    BY <1>6 DEF DeleteStory, DeleteOps
  <2>2. DeleteOps(t) \in Seq(Write) /\ RemoveOp(t) \in Write /\ ClearOp(t) \in Write
    BY <1>0, OpsFacts, OpTypes, 0 \in Nat
  <2>3. /\ RemoveOp(t) \in KeepingOp(s) /\ ClearOp(t) \in KeepingOp(s)
        /\ ~Recounts(RemoveOp(t), s) /\ ~Recounts(ClearOp(t), s)
    BY <2>1, <2>2 DEF KeepingOp, RemoveOp, ClearOp, Recounts
  <2>4. \A k \in 1..Len(DeleteOps(t)) :
            DeleteOps(t)[k] \in KeepingOp(s) /\ ~Recounts(DeleteOps(t)[k], s)
    BY <2>3 DEF DeleteOps
  <2>5. StoryWhole(s)' /\ \A e \in Device : Known(e, s) => Known(e, s)'
    BY <1>0, <1>1, <1>2, <2>1, <2>2, <2>4, WritesWhole
  <2> QED
    BY <1>0, <1>1, <2>1, <2>5, KnownUnmoved
<1>7. ASSUME NEW d \in Device, ServerReceives(d) \/ DeviceHears(d)
      PROVE  StoryWhole(s)' /\ CountsKnown(s)'
  <2>1. StoryWhole(s)' /\ \A e \in Device : Known(e, s) => Known(e, s)'
    BY <1>0, <1>1, <1>2, <1>7, ReceivesWhole, HearsWhole
  <2>2. UNCHANGED upVars
    BY <1>7 DEF ServerReceives, DeviceHears
  <2> QED
    BY <1>0, <1>1, <2>1, <2>2, KnownUnmoved
<1>8. ASSUME NEW d \in Device, Reconnect(d) PROVE StoryWhole(s)' /\ CountsKnown(s)'
  <2>1. StoryWhole(s)' /\ \A e \in Device : Known(e, s) => Known(e, s)'
    BY <1>0, <1>1, <1>2, <1>8, ResetWhole
  <2>2. UNCHANGED upVars
    BY <1>8 DEF Reconnect
  <2> QED
    BY <1>0, <1>1, <2>1, <2>2, KnownUnmoved
<1>9. ASSUME NEW d \in Device, Relaunch(d) PROVE StoryWhole(s)' /\ CountsKnown(s)'
  <2>1. StoryWhole(s)' /\ \A e \in Device \ {d} : Known(e, s) => Known(e, s)'
    BY <1>0, <1>1, <1>2, <1>9, ResetWhole
  <2>2. CountsKnown(s)'
    <3> SUFFICES ASSUME NEW j \in Reply, phase'[j] = "counting", parent'[j] = s, seen'[j] # Absent
                 PROVE  Known(owner[j], s)'
      BY DEF CountsKnown
    <3>1. /\ phase[j] = "counting" /\ owner[j] # d /\ parent[j] = s /\ seen[j] # Absent
          /\ owner' = owner
      BY <1>0, <1>9 DEF Relaunch, UploadsOK, Item
    <3>2. PICK e \in Device \ {d} : e = owner[j]
      BY <1>0, <3>1 DEF UploadsOK, Item
    <3>3. Known(e, s)'
      BY <1>1, <2>1, <3>1, <3>2 DEF CountsKnown
    <3> QED
      BY <3>1, <3>2, <3>3 DEF Known
  <2> QED
    BY <2>1, <2>2
<1>10. ASSUME NEW d \in Device, NEW t \in Story, SendStory(d, t)
       PROVE  StoryWhole(s)' /\ CountsKnown(s)'
  <2>1. \A j \in Reply \ {t} : parent'[j] = parent[j] /\ owner'[j] = owner[j]
    BY <1>0, <1>10 DEF SendStory, UploadsOK, Item
  <2>2. StoryWhole(s)' /\ \A e \in Device : Known(e, s) => Known(e, s)'
    BY <1>3, <1>10 DEF SendStory
  <2>3. CountsKnown(s)'
    BY <1>0, <1>1, <1>10, <2>1, <2>2, KnownKept DEF SendStory, Item
  <2> QED
    BY <2>2, <2>3
<1>11. ASSUME NEW d \in Device, NEW i \in Reply, SendReply(d, i)
       PROVE  StoryWhole(s)' /\ CountsKnown(s)'
  <2>1. \A j \in Reply \ {i} : parent'[j] = parent[j] /\ owner'[j] = owner[j]
    BY <1>0, <1>11 DEF SendReply, UploadsOK, Item
  <2>2. StoryWhole(s)' /\ \A e \in Device : Known(e, s) => Known(e, s)'
    BY <1>3, <1>11 DEF SendReply
  <2>3. CountsKnown(s)'
    BY <1>0, <1>1, <1>11, <2>1, <2>2, KnownKept DEF SendReply, Item
  <2> QED
    BY <2>2, <2>3
<1>12. ASSUME NEW i \in Item, PutFile(i) \/ DownloadURLFails(i)
       PROVE  StoryWhole(s)' /\ CountsKnown(s)'
  <2>1. StoryWhole(s)' /\ \A e \in Device : Known(e, s) => Known(e, s)'
    BY <1>3, <1>12 DEF PutFile, DownloadURLFails
  <2>2. CountsKnown(s)'
    BY <1>0, <1>1, <1>12, <2>1, KnownKept DEF PutFile, DownloadURLFails
  <2> QED
    BY <2>1, <2>2
<1>13. ASSUME NEW i \in Reply, ReadNoRecordings(i) PROVE StoryWhole(s)' /\ CountsKnown(s)'
  <2>1. StoryWhole(s)' /\ \A e \in Device : Known(e, s) => Known(e, s)'
    BY <1>3, <1>13 DEF ReadNoRecordings
  <2>2. CountsKnown(s)'
    <3> SUFFICES ASSUME NEW j \in Reply, phase'[j] = "counting", parent'[j] = s, seen'[j] # Absent
                 PROVE  Known(owner[j], s)'
      BY DEF CountsKnown
    <3>1. /\ owner' = owner /\ parent' = parent
          /\ seen' = [seen EXCEPT ![i] = Visible(owner[i])[parent[i]].n]
          /\ phase' = [phase EXCEPT ![i] = "counting"]
      BY <1>13 DEF ReadNoRecordings
    <3>2. PICK e \in Device : e = owner[j]
      <4>1. phase[j] # "unused"
        BY <1>0, <1>13, <3>1 DEF ReadNoRecordings, UploadsOK, Item
      <4> QED
        BY <1>0, <4>1 DEF UploadsOK, Item
    <3>3. Known(e, s)
      <4>1. CASE j = i
        <5>1. Visible(e)[s].n # Absent
          BY <1>0, <3>1, <3>2, <4>1 DEF UploadsOK
        <5>2. NodeWhole(Visible(e)[s]) /\ (Visible(e)[s].body <=> Known(e, s))
          BY <1>0, <1>1, <1>2, VisibleWhole DEF StoryWhole
        <5> QED
          BY <5>1, <5>2 DEF NodeWhole
      <4>2. CASE j # i
        <5>1. phase[j] = "counting" /\ parent[j] = s /\ seen[j] # Absent
          BY <1>0, <3>1, <4>2 DEF UploadsOK, Item
        <5> QED
          BY <1>1, <3>2, <5>1 DEF CountsKnown
      <4> QED
        BY <4>1, <4>2
    <3>4. Known(e, s)'
      BY <2>1, <3>3
    <3> QED
      BY <3>1, <3>2, <3>4 DEF Known
  <2> QED
    BY <2>1, <2>2
<1>14. ASSUME NEW t \in Story, EraseFile(t) \/ \E d \in Device : DidSelectRow(d, t)
       PROVE  StoryWhole(s)' /\ CountsKnown(s)'
  <2>1. UNCHANGED upVars /\ StoryWhole(s)' /\ \A e \in Device : Known(e, s) => Known(e, s)'
    BY <1>3, <1>14 DEF EraseFile, DidSelectRow
  <2> QED
    BY <1>0, <1>1, <2>1, KnownUnmoved
<1>15. CASE UNCHANGED vars
  <2>1. UNCHANGED upVars /\ StoryWhole(s)' /\ \A e \in Device : Known(e, s) => Known(e, s)'
    BY <1>3, <1>15 DEF vars
  <2> QED
    BY <1>0, <1>1, <2>1, KnownUnmoved
<1> QED
  BY <1>4, <1>5, <1>6, <1>7, <1>8, <1>9, <1>10, <1>11, <1>12, <1>13, <1>14, <1>15 DEF Next

LEMMA InitList == Init => ListInv
<1> SUFFICES ASSUME Init PROVE ListInv
  OBVIOUS
<1>1. TypeInv
  BY InitTypes
<1>2. AnswersInOrder /\ QueuesIn(AgreedOp(deleted))
  BY DEF Init, AnswersInOrder, OrderAt, Answers, QueuesIn
<1>3. ASSUME NEW s \in Story PROVE StoryWhole(s)
  <2>1. NodeWhole(feed[s]) /\ \A d \in Device : NodeWhole(cache[d][s]) /\ ~cache[d][s].body
    BY DEF Init, NodeWhole, Gone
  <2>2. ~feed[s].body
    BY DEF Init, Gone
  <2>3. ASSUME NEW d \in Device PROVE RowIs(rows[d][s], Visible(d)[s])
    <3>1. out[d] = <<>> /\ out[d] \in Seq(Write) /\ cache[d] \in [Story -> Node] /\ Len(out[d]) = 0
      BY <1>1, EmptySeq DEF Init, TypeInv, TypeOK, NetworkOK
    <3>2. \A k \in 1..Len(out[d]) : FALSE
      BY <3>1
    <3>3. View(cache[d], out[d])[s].body = cache[d][s].body
      <4>1. {k \in 1..Len(out[d]) : out[d][k].id = s /\ out[d][k].op \in FeedOps} = {}
        BY <3>2
      <4> QED
        BY <4>1 DEF View
    <3>4. ~Visible(d)[s].body
      BY <2>1, <3>2, <3>3 DEF Visible
    <3>5. rows[d][s].count = 0
      BY DEF Init
    <3> QED
      BY <3>4, <3>5 DEF RowIs
  <2>4. \A d \in Device : Len(out[d]) = 0 /\ Len(inbox[d]) = 0 /\ arrived[d] = 0
    BY DEF Init
  <2> QED
    BY <2>1, <2>2, <2>3, <2>4 DEF StoryWhole, DeviceWhole, OnItsWay
<1>4. \A s \in Story : CountsKnown(s)
  BY DEF Init, CountsKnown, Item
<1> QED
  BY <1>1, <1>2, <1>3, <1>4 DEF ListInv

LEMMA NextList == ListInv /\ [Next]_vars => ListInv'
<1> SUFFICES ASSUME ListInv, [Next]_vars PROVE ListInv'
  OBVIOUS
<1>1. TypeInv' /\ AnswersInOrder' /\ QueuesIn(AgreedOp(deleted))'
  BY NextTypes, NextOrder, NextAgreed DEF ListInv
<1>2. \A s \in Story \ deleted' : StoryWhole(s)' /\ CountsKnown(s)'
  BY NextWhole
<1> QED
  BY <1>1, <1>2 DEF ListInv

(* Whatever the order in which devices write and hear of each other,       *)
(* whatever is sent again or forgotten, the lists that childAdded,         *)
(* childChanged and childRemoved keep are the devices' views, for any      *)
(* number of devices, stories and faults.                                  *)
THEOREM RowsSafety == Spec => []RowsFollowView
<1>1. ListInv => RowsFollowView
  BY DEF ListInv, StoryWhole, DeviceWhole, RowIs, RowsFollowView
<1> QED
  BY <1>1, InitList, NextList, PTL DEF Spec

-----------------------------------------------------------------------------
(* What a write does to a list *)

Touches(w, s) == w.op \in FeedOps /\ w.id = s

(* What a device sees after one more write is what it saw with the write   *)
(* applied to it.                                                          *)
LEMMA ViewApplied ==
    ASSUME NEW heard, NEW own, NEW w, NEW more,
           Len(own) \in Nat, Len(more) = Len(own) + 1, more[Len(own) + 1] = w,
           \A k \in 1..Len(own) : more[k] = own[k]
    PROVE  View(heard, more) = Applied(View(heard, own), w)
<1> SUFFICES ASSUME NEW s \in Story
             PROVE  View(heard, more)[s] = Applied(View(heard, own), w)[s]
  BY DEF View, Applied
<1> DEFINE len == Len(own)
           writes(q) == {k \in 1..Len(q) : q[k].id = s /\ q[k].op \in FeedOps}
           whole(q)  == {k \in writes(q) : q[k].op # "count"}
           body(q)   == IF whole(q) = {} THEN heard[s].body ELSE q[Max(whole(q))].op = "publish"
           n(q)      == IF writes(q) = {} THEN heard[s].n ELSE q[Max(writes(q))].n
<1>1. \A q : View(heard, q)[s] = [body |-> body(q), n |-> n(q)]
  BY DEF View
<1>2. /\ len \in Nat /\ Len(more) = len + 1 /\ more[len + 1] = w
      /\ \A k \in 1..len : more[k] = own[k]
      /\ \A k \in 1..Len(more) : k \in 1..len \/ k = len + 1
      /\ \A k \in 1..len : k \in 1..Len(more)
      /\ len + 1 \in 1..Len(more)
  OBVIOUS
<1>3. ASSUME NEW S \in SUBSET (1..(len + 1)), len + 1 \in S PROVE Max(S) = len + 1
  <2>1. len + 1 \in Nat /\ S # {}
    BY <1>2, <1>3
  <2>2. Max(S) \in S /\ \A k \in S : k <= Max(S)
    BY ONLY <2>1, S \in SUBSET (1..(len + 1)), LastPosition
  <2>3. Max(S) \in 1..(len + 1) /\ len + 1 <= Max(S)
    BY <1>3, <2>2
  <2> QED
    BY <1>2, <2>3
<1>4. writes(own) # {} => Max(writes(own)) \in writes(own)
  BY <1>2, LastPosition
<1>5. whole(own) # {} => Max(whole(own)) \in whole(own)
  BY <1>2, LastPosition
<1>6. CASE ~Touches(w, s)
  <2>1. writes(more) = writes(own)
    BY <1>2, <1>6 DEF Touches
  <2>2. whole(more) = whole(own)
    BY <1>2, <2>1
  <2>3. body(more) = body(own)
    BY <1>2, <1>5, <2>2
  <2>4. n(more) = n(own)
    BY <1>2, <1>4, <2>1
  <2>5. Applied(View(heard, own), w)[s] = View(heard, own)[s]
    BY <1>6 DEF Applied, Touches
  <2> HIDE DEF body, n
  <2> QED
    BY <1>1, <2>3, <2>4, <2>5
<1>7. CASE Touches(w, s)
  <2>1. len + 1 \in writes(more) /\ writes(more) \in SUBSET (1..(len + 1))
    BY <1>2, <1>7 DEF Touches
  <2>2. n(more) = w.n
    <3>1. Max(writes(more)) = len + 1
      BY <1>3, <2>1
    <3> HIDE DEF writes
    <3> QED
      BY <1>2, <2>1, <3>1
  <2>3. CASE w.op = "count"
    <3>1. whole(more) = whole(own)
      BY <1>2, <2>3
    <3>2. body(more) = body(own)
      BY <1>2, <1>5, <3>1
    <3>3. Applied(View(heard, own), w)[s] = [body |-> View(heard, own)[s].body, n |-> w.n]
      BY <1>7, <2>3 DEF Applied, Touches
    <3> HIDE DEF body, n
    <3>4. View(heard, own)[s].body = body(own)
      <4>1. View(heard, own)[s] = [body |-> body(own), n |-> n(own)]
        BY ONLY <1>1
      <4> QED
        BY ONLY <4>1
    <3> QED
      BY <1>1, <2>2, <3>2, <3>3, <3>4
  <2>4. CASE w.op # "count"
    <3>1. len + 1 \in whole(more) /\ whole(more) \in SUBSET (1..(len + 1))
      BY <1>2, <2>1, <2>4
    <3>2. body(more) = (w.op = "publish")
      <4>1. Max(whole(more)) = len + 1
        BY <1>3, <3>1
      <4> HIDE DEF whole
      <4> QED
        BY <1>2, <3>1, <4>1
    <3>3. Applied(View(heard, own), w)[s] = [body |-> w.op = "publish", n |-> w.n]
      BY <1>7, <2>4 DEF Applied, Touches
    <3> HIDE DEF body, n
    <3> QED
      BY <1>1, <2>2, <3>2, <3>3
  <2> QED
    BY <2>3, <2>4
<1> QED
  BY <1>6, <1>7

(* A write changes only the row of its story.  It shows one at most if it  *)
(* publishes it, and hides one only if it removes it.                      *)
LEMMA AppliedRow ==
    ASSUME NEW old \in [Story -> Node], NEW w \in Write, NEW s \in Story, NEW row \in Row
    PROVE  LET count == RowAfter(row, old, Applied(old, w), s).count
           IN  /\ ~Touches(w, s) => count = row.count
               /\ Recounts(w, s) /\ w.n # Absent => count = row.count
               /\ Publishes(w, s) => count = row.count \/ count = row.count + 1
               /\ w.op = "remove" /\ w.id = s /\ w.n = Absent /\ old[s].body => count = 0
<1> DEFINE new == Applied(old, w)
           count == RowAfter(row, old, new, s).count
<1>1. count = IF Added(old, new, s) /\ new[s].body THEN row.count + 1
              ELSE IF Removed(old, new, s) /\ old[s].body THEN 0 ELSE row.count
  BY DEF RowAfter
<1>2. ~Touches(w, s) => count = row.count
  <2> SUFFICES ASSUME ~Touches(w, s) PROVE count = row.count
    OBVIOUS
  <2>1. new[s] = old[s]
    BY DEF Applied, Touches
  <2> QED
    BY <1>1, <2>1 DEF Added, Removed
<1>3. Recounts(w, s) /\ w.n # Absent => count = row.count
  <2> SUFFICES ASSUME Recounts(w, s), w.n # Absent PROVE count = row.count
    OBVIOUS
  <2>1. new[s].body = old[s].body /\ new[s].n = w.n
    BY DEF Applied, Recounts, FeedOps
  <2>2. Exists(new[s])
    BY <2>1 DEF Exists, Gone
  <2>3. old[s].body => Exists(old[s])
    BY DEF Exists, Gone
  <2> QED
    BY <1>1, <2>1, <2>2, <2>3 DEF Added, Removed
<1>4. Publishes(w, s) => count = row.count \/ count = row.count + 1
  <2> SUFFICES ASSUME Publishes(w, s) PROVE count = row.count \/ count = row.count + 1
    OBVIOUS
  <2>1. new[s].body = TRUE
    BY DEF Applied, Publishes, FeedOps
  <2>2. Exists(new[s])
    BY <2>1 DEF Exists, Gone
  <2> QED
    BY <1>1, <2>2 DEF Removed
<1>5. w.op = "remove" /\ w.id = s /\ w.n = Absent /\ old[s].body => count = 0
  <2> SUFFICES ASSUME w.op = "remove", w.id = s, w.n = Absent, old[s].body PROVE count = 0
    OBVIOUS
  <2>1. new[s] = [body |-> w.op = "publish", n |-> w.n]
    BY DEF Applied, FeedOps
  <2>2. new[s] = Gone
    BY <2>1 DEF Gone
  <2>3. Exists(old[s])
    BY DEF Exists, Gone
  <2> QED
    BY <1>1, <2>2, <2>3 DEF Added, Removed, Exists
<1> QED
  BY <1>2, <1>3, <1>4, <1>5

LEMMA ListShown ==
    ASSUME ListsOK, NEW d \in Device, NEW old \in [Story -> Node], NEW w \in Write,
           ListOfFeedEvents(d, old, Applied(old, w))
    PROVE  /\ w.op \notin FeedOps => Shown' = Shown
           /\ w.op = "count" /\ w.n # Absent => Shown' = Shown
           /\ \A s \in Story : Publishes(w, s) =>
                Shown' = Shown \/ Shown' = [Shown EXCEPT ![d] = Shown[d] \cup {s}]
           /\ \A s \in Story : w.op = "remove" /\ w.id = s /\ w.n = Absent /\ old[s].body =>
                Shown' = [Shown EXCEPT ![d] = Shown[d] \ {s}]
<1> DEFINE count(s) == RowAfter(rows[d][s], old, Applied(old, w), s).count
<1>1. \A s \in Story : rows[d][s] \in Row /\ rows[d][s].count \in Nat
  BY DEF ListsOK, Row
<1>2. \A s \in Story : rows'[d][s].count = count(s)
  BY DEF ListOfFeedEvents, ListsOK
<1>3. \A e \in Device \ {d} : rows'[e] = rows[e]
  BY DEF ListOfFeedEvents, ListsOK
<1>4. \A s \in Story :
        /\ ~Touches(w, s) => count(s) = rows[d][s].count
        /\ Recounts(w, s) /\ w.n # Absent => count(s) = rows[d][s].count
        /\ Publishes(w, s) => count(s) = rows[d][s].count \/ count(s) = rows[d][s].count + 1
        /\ w.op = "remove" /\ w.id = s /\ w.n = Absent /\ old[s].body => count(s) = 0
  BY <1>1, AppliedRow
<1> HIDE DEF count
<1>5. Shown \in [Device -> SUBSET Story] /\ Shown' \in [Device -> SUBSET Story]
  BY DEF Shown
<1>6. \A e \in Device \ {d} : Shown'[e] = Shown[e]
  BY <1>3 DEF Shown
<1>7. \A s \in Story : /\ s \in Shown[d] <=> rows[d][s].count > 0
                       /\ s \in Shown'[d] <=> count(s) > 0
  BY <1>2 DEF Shown
<1>8. ASSUME \A s \in Story : count(s) = rows[d][s].count PROVE Shown' = Shown
  <2>1. Shown'[d] = Shown[d]
    BY <1>5, <1>7, <1>8
  <2> QED
    BY <1>5, <1>6, <2>1
<1>9. w.op \notin FeedOps => Shown' = Shown
  BY <1>4, <1>8 DEF Touches
<1>10. w.op = "count" /\ w.n # Absent => Shown' = Shown
  BY <1>4, <1>8 DEF Touches, Recounts
<1>11. ASSUME NEW s \in Story, Publishes(w, s)
       PROVE  Shown' = Shown \/ Shown' = [Shown EXCEPT ![d] = Shown[d] \cup {s}]
  <2>1. \A t \in Story \ {s} : count(t) = rows[d][t].count
    BY <1>4, <1>11 DEF Touches, Publishes
  <2>2. CASE count(s) = rows[d][s].count
    BY <1>8, <2>1, <2>2
  <2>3. CASE count(s) = rows[d][s].count + 1
    <3>1. count(s) > 0
      BY <1>1, <2>3
    <3>2. Shown'[d] = Shown[d] \cup {s}
      BY <1>5, <1>7, <2>1, <3>1
    <3> QED
      BY <1>5, <1>6, <3>2
  <2> QED
    BY <1>4, <1>11, <2>2, <2>3
<1>12. ASSUME NEW s \in Story, w.op = "remove", w.id = s, w.n = Absent, old[s].body
       PROVE  Shown' = [Shown EXCEPT ![d] = Shown[d] \ {s}]
  <2>1. \A t \in Story \ {s} : count(t) = rows[d][t].count
    BY <1>4, <1>12 DEF Touches
  <2>2. count(s) = 0
    BY <1>4, <1>12
  <2>3. Shown'[d] = Shown[d] \ {s}
    BY <1>5, <1>7, <2>1, <2>2
  <2> QED
    BY <1>5, <1>6, <2>3
<1> QED
  BY <1>9, <1>10, <1>11, <1>12

LEMMA WriteSeen ==
    ASSUME NetworkOK, NEW d \in Device, NEW w \in Write, Writes(d, <<w>>)
    PROVE  /\ ListOfFeedEvents(d, Visible(d), Applied(Visible(d), w))
           /\ Visible(d)' = Applied(Visible(d), w)
<1> DEFINE ops == <<w>>
           own == out[d] \o ops
<1>1. out[d] \in Seq(Write) /\ cache[d] \in [Story -> Node] /\ Len(out[d]) \in Nat
  BY LenProperties DEF NetworkOK
<1>2. ops \in Seq(Write) /\ Len(ops) = 1 /\ ops[1] = w
  OBVIOUS
<1>3. /\ ListOfFeedEvents(d, Visible(d), View(cache[d], own))
      /\ out' = [out EXCEPT ![d] = own] /\ cache' = cache
  BY DEF Writes
<1> HIDE DEF ops
<1>4. /\ own \in Seq(Write) /\ Len(own) = Len(out[d]) + Len(ops)
      /\ \A k \in 1..Len(own) :
            own[k] = IF k <= Len(out[d]) THEN out[d][k] ELSE ops[k - Len(out[d])]
  <2>1. out[d] \in Seq(Write) /\ ops \in Seq(Write)
    BY <1>1, <1>2
  <2> QED
    BY ONLY <2>1, ConcatProperties
<1> HIDE DEF own
<1>5. /\ Len(own) = Len(out[d]) + 1 /\ own[Len(out[d]) + 1] = w
      /\ \A k \in 1..Len(out[d]) : own[k] = out[d][k]
  <2>1. Len(out[d]) + 1 \in 1..Len(own) /\ (Len(out[d]) + 1) - Len(out[d]) = 1
    BY <1>1, <1>2, <1>4
  <2>2. \A k \in 1..Len(out[d]) : k \in 1..Len(own)
    BY <1>1, <1>2, <1>4
  <2> QED
    BY <1>1, <1>2, <1>4, <2>1, <2>2
<1>6. View(cache[d], own) = Applied(View(cache[d], out[d]), w)
  BY ONLY <1>1, <1>5, ViewApplied
<1>7. Visible(d)' = View(cache[d], own)
  BY <1>3 DEF Visible, NetworkOK
<1> QED
  BY <1>3, <1>6, <1>7 DEF Visible

LEMMA DeleteSeen ==
    ASSUME NetworkOK, NEW d \in Device, NEW s \in Story, Writes(d, DeleteOps(s))
    PROVE  /\ ListOfFeedEvents(d, Visible(d), Applied(Visible(d), RemoveOp(s)))
           /\ Visible(d)' = Applied(Visible(d), RemoveOp(s))
<1> DEFINE ops == DeleteOps(s)
           mid == Append(out[d], RemoveOp(s))
           own == out[d] \o ops
<1>1. out[d] \in Seq(Write) /\ cache[d] \in [Story -> Node] /\ Len(out[d]) \in Nat
  BY LenProperties DEF NetworkOK
<1>2. RemoveOp(s) \in Write /\ ClearOp(s) \in Write
  BY OpTypes, 0 \in Nat
<1>3. ops \in Seq(Write) /\ Len(ops) = 2 /\ ops[1] = RemoveOp(s) /\ ops[2] = ClearOp(s)
  BY <1>2 DEF DeleteOps
<1>4. /\ ListOfFeedEvents(d, Visible(d), View(cache[d], own))
      /\ Visible(d)' = View(cache[d], own)
  <2>1. out' = [out EXCEPT ![d] = own] /\ cache' = cache
    BY DEF Writes
  <2>2. out'[d] = own
    BY <2>1 DEF NetworkOK
  <2> QED
    BY <2>1, <2>2 DEF Writes, Visible
<1> HIDE DEF ops
<1>5. /\ own \in Seq(Write) /\ Len(own) = Len(out[d]) + Len(ops)
      /\ \A k \in 1..Len(own) :
            own[k] = IF k <= Len(out[d]) THEN out[d][k] ELSE ops[k - Len(out[d])]
  <2>1. out[d] \in Seq(Write) /\ ops \in Seq(Write)
    BY <1>1, <1>3
  <2> QED
    BY ONLY <2>1, ConcatProperties
<1>6. /\ mid \in Seq(Write) /\ Len(mid) = Len(out[d]) + 1 /\ mid[Len(out[d]) + 1] = RemoveOp(s)
      /\ \A k \in 1..Len(out[d]) : mid[k] = out[d][k]
  BY <1>1, <1>2, AppendProperties
<1> HIDE DEF own, mid
<1>7. /\ Len(own) = Len(mid) + 1 /\ own[Len(mid) + 1] = ClearOp(s)
      /\ \A k \in 1..Len(mid) : own[k] = mid[k]
  <2>1. /\ Len(mid) + 1 \in 1..Len(own) /\ (Len(mid) + 1) - Len(out[d]) = 2
        /\ Len(own) = Len(mid) + 1
    BY <1>1, <1>3, <1>5, <1>6
  <2>2. ASSUME NEW k \in 1..Len(mid) PROVE own[k] = mid[k]
    <3>1. CASE k \in 1..Len(out[d])
      <4>1. k \in 1..Len(own) /\ k <= Len(out[d])
        BY <1>1, <1>3, <1>5, <3>1
      <4>2. own[k] = out[d][k]
        BY <1>5, <4>1
      <4> QED
        BY <1>6, <3>1, <4>2
    <3>2. CASE k = Len(out[d]) + 1
      <4>1. k \in 1..Len(own) /\ k - Len(out[d]) = 1 /\ ~(k <= Len(out[d]))
        BY <1>1, <1>3, <1>5, <3>2
      <4> QED
        BY <1>3, <1>5, <1>6, <3>2, <4>1
    <3> QED
      BY <1>1, <1>6, <3>1, <3>2
  <2>3. ~(Len(mid) + 1 <= Len(out[d]))
    BY <1>1, <1>6
  <2> QED
    BY <1>3, <1>5, <2>1, <2>2, <2>3
<1>8. View(cache[d], mid) = Applied(Visible(d), RemoveOp(s))
  BY <1>1, <1>2, <1>6, ViewApplied DEF Visible
<1>9. View(cache[d], own) = Applied(View(cache[d], mid), ClearOp(s))
  BY <1>1, <1>2, <1>5, <1>6, <1>7, ViewApplied
<1>10. ClearOp(s).op \notin FeedOps
  BY DEF ClearOp, FeedOps
<1>11. Applied(View(cache[d], mid), ClearOp(s)) = View(cache[d], mid)
  <2>1. View(cache[d], mid) \in [Story -> Node]
    BY <1>1, <1>6, ViewType
  <2>2. Applied(View(cache[d], mid), ClearOp(s)) = [t \in Story |-> View(cache[d], mid)[t]]
    BY <1>10 DEF Applied
  <2> QED
    BY <2>1, <2>2
<1> QED
  BY <1>4, <1>8, <1>9, <1>11

-----------------------------------------------------------------------------
(* What a device has still to hear *)

\* The writes of a queue of messages.
WritesOf(q) == [k \in 1..Len(q) |-> q[k].write]

(* What a device has still to hear of brings it to the server's data. *)
InStep == \A d \in Device : View(cache[d], WritesOf(inbox[d])) = feed

LEMMA WritesOfFacts ==
    ASSUME NEW q, Len(q) \in Nat
    PROVE  Len(WritesOf(q)) = Len(q) /\ \A k \in 1..Len(q) : WritesOf(q)[k] = q[k].write
BY DEF WritesOf

LEMMA ViewNone ==
    ASSUME NEW heard \in [Story -> Node], NEW own, Len(own) = 0
    PROVE  View(heard, own) = heard
<1> SUFFICES ASSUME NEW s \in Story PROVE View(heard, own)[s] = heard[s]
  BY DEF View
<1>1. View(heard, own)[s] = [body |-> heard[s].body, n |-> heard[s].n]
  BY DEF View
<1>2. heard[s] = [body |-> heard[s].body, n |-> heard[s].n]
  BY DEF Node
<1> QED
  BY <1>1, <1>2

(* The last of some positions of a sequence, seen from one place further. *)
LEMMA LastShifted ==
    ASSUME NEW n \in Nat, NEW S \in SUBSET (1..n), NEW T \in SUBSET (1..(n + 1)),
           \A k \in 1..n : k \in S <=> k + 1 \in T
    PROVE  IF S = {} THEN T \in {{}, {1}} ELSE T # {} /\ Max(S) \in S /\ Max(T) = Max(S) + 1
<1>1. \A j \in T : j = 1 \/ (j - 1 \in S /\ j - 1 \in 1..n)
  OBVIOUS
<1>2. CASE S = {}
  BY <1>1, <1>2
<1>3. CASE S # {}
  <2>1. Max(S) \in S /\ \A k \in S : k <= Max(S)
    BY <1>3, LastPosition
  <2>2. Max(S) + 1 \in T
    BY <2>1
  <2>3. Max(T) \in T /\ \A k \in T : k <= Max(T)
    <3>1. n + 1 \in Nat /\ T # {}
      BY <2>2
    <3> QED
      BY ONLY <3>1, T \in SUBSET (1..(n + 1)), LastPosition
  <2>4. PICK a \in 1..n : a = Max(S)
    BY <2>1
  <2>5. PICK b \in 1..(n + 1) : b = Max(T)
    BY <2>3
  <2>6. b <= a + 1
    BY <1>1, <2>1, <2>3, <2>4, <2>5
  <2>7. a + 1 <= b
    BY <2>2, <2>3, <2>4, <2>5
  <2>8. b = a + 1
    BY ONLY <2>6, <2>7, a \in 1..n, b \in 1..(n + 1), n \in Nat
  <2> QED
    BY <1>3, <2>1, <2>2, <2>4, <2>5, <2>8
<1> QED
  BY <1>2, <1>3

LEMMA MaxOne == Max({1}) = 1
<1>1. {1} \in SUBSET (1..1) /\ {1} # {} /\ 1 \in Nat
  OBVIOUS
<1>2. Max({1}) \in {1}
  BY ONLY <1>1, LastPosition
<1> QED
  BY <1>2

(* Hearing of the first of some writes changes nothing of what they all    *)
(* amount to.                                                              *)
LEMMA ViewTail ==
    ASSUME NEW heard, NEW q, NEW rest,
           Len(rest) \in Nat, Len(q) = Len(rest) + 1,
           \A k \in 1..Len(rest) : rest[k] = q[k + 1]
    PROVE  View(heard, q) = View(Applied(heard, q[1]), rest)
<1> SUFFICES ASSUME NEW s \in Story
             PROVE  View(heard, q)[s] = View(Applied(heard, q[1]), rest)[s]
  BY DEF View
<1> DEFINE len == Len(rest)
           writes(p) == {k \in 1..Len(p) : p[k].id = s /\ p[k].op \in FeedOps}
           whole(p)  == {k \in writes(p) : p[k].op # "count"}
           body(h, p) == IF whole(p) = {} THEN h[s].body ELSE p[Max(whole(p))].op = "publish"
           n(h, p)    == IF writes(p) = {} THEN h[s].n ELSE p[Max(writes(p))].n
           first == Applied(heard, q[1])
<1>1. \A h, p : View(h, p)[s] = [body |-> body(h, p), n |-> n(h, p)]
  BY DEF View
<1>2. /\ \A k \in 1..len : k \in writes(rest) <=> k + 1 \in writes(q)
      /\ \A k \in 1..len : k \in whole(rest) <=> k + 1 \in whole(q)
      /\ writes(rest) \in SUBSET (1..len) /\ whole(rest) \in SUBSET (1..len)
      /\ writes(q) \in SUBSET (1..(len + 1)) /\ whole(q) \in SUBSET (1..(len + 1))
      /\ 1 \in writes(q) <=> q[1].id = s /\ q[1].op \in FeedOps
      /\ 1 \in whole(q) <=> q[1].id = s /\ q[1].op \in FeedOps /\ q[1].op # "count"
  OBVIOUS
<1>3. n(heard, q) = n(first, rest)
  <2> HIDE DEF writes, first
  <2>1. IF writes(rest) = {} THEN writes(q) \in {{}, {1}}
        ELSE /\ writes(q) # {} /\ Max(writes(rest)) \in writes(rest)
             /\ Max(writes(q)) = Max(writes(rest)) + 1
    BY <1>2, LastShifted
  <2>2. CASE writes(rest) # {}
    <3>1. q[Max(writes(q))] = rest[Max(writes(rest))]
      BY <1>2, <2>1, <2>2
    <3> QED
      BY <2>1, <2>2, <3>1
  <2>3. CASE writes(rest) = {} /\ writes(q) = {}
    <3>1. first[s] = heard[s]
      BY <1>2, <2>3 DEF first, Applied
    <3> QED
      BY <2>3, <3>1
  <2>4. CASE writes(rest) = {} /\ writes(q) = {1}
    <3>1. first[s].n = q[1].n
      BY <1>2, <2>4 DEF first, Applied
    <3> QED
      BY <2>4, <3>1, MaxOne
  <2> QED
    BY <2>1, <2>2, <2>3, <2>4
<1>4. body(heard, q) = body(first, rest)
  <2> HIDE DEF whole, first
  <2>1. IF whole(rest) = {} THEN whole(q) \in {{}, {1}}
        ELSE /\ whole(q) # {} /\ Max(whole(rest)) \in whole(rest)
             /\ Max(whole(q)) = Max(whole(rest)) + 1
    BY <1>2, LastShifted
  <2>2. CASE whole(rest) # {}
    <3>1. q[Max(whole(q))] = rest[Max(whole(rest))]
      BY <1>2, <2>1, <2>2
    <3> QED
      BY <2>1, <2>2, <3>1
  <2>3. CASE whole(rest) = {} /\ whole(q) = {}
    <3>1. first[s].body = heard[s].body
      BY <1>2, <2>3 DEF first, Applied
    <3> QED
      BY <2>3, <3>1
  <2>4. CASE whole(rest) = {} /\ whole(q) = {1}
    <3>1. first[s].body = (q[1].op = "publish")
      BY <1>2, <2>4 DEF first, Applied
    <3> QED
      BY <2>4, <3>1, MaxOne
  <2> QED
    BY <2>1, <2>2, <2>3, <2>4
<1> HIDE DEF body, n
<1> QED
  BY <1>1, <1>3, <1>4

LEMMA ReceivesInStep ==
    ASSUME NetworkOK, InStep, NEW d \in Device, ServerReceives(d)
    PROVE  InStep'
<1> SUFFICES ASSUME NEW e \in Device PROVE View(cache'[e], WritesOf(inbox'[e])) = feed'
  BY DEF InStep
<1>1. /\ Len(inbox'[e]) = Len(inbox[e]) + 1 /\ Len(inbox[e]) \in Nat
      /\ \A k \in 1..Len(inbox[e]) : inbox'[e][k] = inbox[e][k]
      /\ inbox'[e][Len(inbox[e]) + 1] = Telling(d)
      /\ feed' = Applied(feed, Sent(d)) /\ cache' = cache
  BY SentFacts
<1> DEFINE own == WritesOf(inbox[e])
           more == WritesOf(inbox'[e])
<1>2. Len(own) = Len(inbox[e]) /\ \A k \in 1..Len(inbox[e]) : own[k] = inbox[e][k].write
  BY <1>1, WritesOfFacts
<1>3. /\ Len(more) = Len(inbox'[e])
      /\ \A k \in 1..Len(inbox'[e]) : more[k] = inbox'[e][k].write
  BY <1>1, WritesOfFacts
<1> HIDE DEF own, more
<1>4. Telling(d).write = Sent(d)
  BY DEF Telling
<1>5. /\ Len(own) \in Nat /\ Len(more) = Len(own) + 1
      /\ more[Len(own) + 1] = Sent(d)
      /\ \A k \in 1..Len(own) : more[k] = own[k]
  BY <1>1, <1>2, <1>3, <1>4
<1>6. View(cache[e], more) = Applied(View(cache[e], own), Sent(d))
  BY ONLY <1>5, ViewApplied
<1>7. View(cache[e], own) = feed
  BY DEF InStep, own
<1> QED
  BY <1>1, <1>6, <1>7 DEF more

LEMMA HearsInStep ==
    ASSUME TypeInv, InStep, NEW d \in Device, DeviceHears(d)
    PROVE  InStep'
<1> SUFFICES ASSUME NEW e \in Device PROVE View(cache'[e], WritesOf(inbox'[e])) = feed'
  BY DEF InStep
<1>1. /\ Told(d) = inbox[d][1] /\ Len(inbox[d]) \in Nat \ {0}
      /\ Len(inbox'[d]) = Len(inbox[d]) - 1
      /\ \A k \in 1..Len(inbox'[d]) : inbox'[d][k] = inbox[d][k + 1]
      /\ cache' = [cache EXCEPT ![d] = Heard(d)]
      /\ inbox' = [inbox EXCEPT ![d] = Tail(inbox[d])]
      /\ feed' = feed
  BY HearFacts
<1>2. /\ cache'[d] = Heard(d)
      /\ \A c \in Device \ {d} : cache'[c] = cache[c] /\ inbox'[c] = inbox[c]
  BY <1>1 DEF TypeInv, TypeOK, NetworkOK
<1>3. CASE e # d
  BY <1>1, <1>2, <1>3 DEF InStep
<1>4. CASE e = d
  <2> DEFINE q == WritesOf(inbox[d])
             rest == WritesOf(inbox'[d])
  <2>1. Len(q) = Len(inbox[d]) /\ \A k \in 1..Len(inbox[d]) : q[k] = inbox[d][k].write
    BY <1>1, WritesOfFacts
  <2>2. Len(inbox'[d]) \in Nat
    BY <1>1
  <2>3. Len(rest) = Len(inbox'[d]) /\ \A k \in 1..Len(inbox'[d]) : rest[k] = inbox'[d][k].write
    BY <2>2, WritesOfFacts
  <2> HIDE DEF q, rest
  <2>4. /\ Len(rest) \in Nat /\ Len(q) = Len(rest) + 1
        /\ \A k \in 1..Len(rest) : rest[k] = q[k + 1]
    BY <1>1, <2>1, <2>2, <2>3
  <2>5. q[1] = Told(d).write
    BY <1>1, <2>1
  <2>6. View(cache[d], q) = View(Applied(cache[d], q[1]), rest)
    BY ONLY <2>4, ViewTail
  <2>7. View(cache[d], q) = feed
    BY DEF InStep, q
  <2> QED
    BY <1>1, <1>2, <1>4, <2>5, <2>6, <2>7 DEF Heard, rest
<1> QED
  BY <1>3, <1>4

LEMMA ResetInStep ==
    ASSUME TypeOK, InStep, NEW d \in Device, Reconnect(d) \/ Relaunch(d)
    PROVE  InStep'
<1> SUFFICES ASSUME NEW e \in Device PROVE View(cache'[e], WritesOf(inbox'[e])) = feed'
  BY DEF InStep
<1>1. /\ inbox' = [inbox EXCEPT ![d] = <<>>] /\ cache' = [cache EXCEPT ![d] = feed]
      /\ feed' = feed
  BY DEF Reconnect, Relaunch, dbVars
<1>2. feed \in [Story -> Node]
  BY DEF TypeOK, ServerOK
<1>3. CASE e = d
  <2>1. inbox'[d] = <<>> /\ cache'[d] = feed
    BY <1>1 DEF TypeOK, NetworkOK
  <2>2. Len(WritesOf(<<>>)) = 0
    BY WritesOfFacts
  <2> QED
    BY <1>1, <1>2, <1>3, <2>1, <2>2, ViewNone
<1>4. CASE e # d
  BY <1>1, <1>4 DEF TypeOK, NetworkOK, InStep
<1> QED
  BY <1>3, <1>4

LEMMA NextInStep == TypeInv /\ InStep /\ [Next]_vars => InStep'
<1> SUFFICES ASSUME TypeInv, InStep, [Next]_vars PROVE InStep'
  OBVIOUS
<1>0. TypeOK /\ NetworkOK
  BY DEF TypeInv, TypeOK
<1>1. ASSUME UNCHANGED <<feed, cache, inbox>> PROVE InStep'
  BY <1>1 DEF InStep
<1>2. ASSUME NEW d \in Device, ServerReceives(d) \/ DeviceHears(d) \/ Reconnect(d) \/ Relaunch(d)
      PROVE  InStep'
  BY <1>0, <1>2, ReceivesInStep, HearsInStep, ResetInStep
<1>3. ASSUME NEW d \in Device, NEW s \in Story,
             SendStory(d, s) \/ DidSelectRow(d, s) \/ DeleteStory(d, s)
      PROVE  InStep'
  BY <1>1, <1>3 DEF SendStory, DidSelectRow, DeleteStory, Writes, dbVars, netVars
<1>4. ASSUME NEW d \in Device, NEW i \in Reply, SendReply(d, i) PROVE InStep'
  BY <1>1, <1>4 DEF SendReply, dbVars, netVars
<1>5. ASSUME NEW i \in Item, PutFile(i) \/ DownloadURLFails(i) \/ DownloadURL(i) PROVE InStep'
  BY <1>1, <1>5 DEF PutFile, DownloadURLFails, DownloadURL, Writes, dbVars, netVars
<1>6. ASSUME NEW i \in Reply, ReadNoRecordings(i) \/ CountRecording(i) PROVE InStep'
  BY <1>1, <1>6 DEF ReadNoRecordings, CountRecording, Writes, dbVars, netVars
<1>7. ASSUME NEW s \in Story, EraseFile(s) PROVE InStep'
  BY <1>1, <1>7 DEF EraseFile, dbVars, netVars
<1>8. CASE UNCHANGED vars
  BY <1>1, <1>8 DEF vars, dbVars, netVars
<1> QED
  BY <1>2, <1>3, <1>4, <1>5, <1>6, <1>7, <1>8 DEF Next

(* Two devices with nothing left to send or to hear list the same stories  *)
(* with the same counters, those of the server, for any number of devices, *)
(* stories, replies and faults, and in whatever order each of them heard.  *)
THEOREM ListsConverge == Spec => []SettledListsAgree
<1>1. Init => InStep
  <2> SUFFICES ASSUME Init, NEW d \in Device
               PROVE  View(cache[d], WritesOf(inbox[d])) = feed
    BY DEF InStep
  <2>1. inbox[d] = <<>> /\ cache[d] = feed /\ feed \in [Story -> Node]
    BY DEF Init, Gone, Node
  <2>2. Len(WritesOf(<<>>)) = 0
    BY WritesOfFacts
  <2> QED
    BY <2>1, <2>2, ViewNone
<1>2. ListInv /\ InStep => SettledListsAgree
  <2> SUFFICES ASSUME ListInv, InStep, NEW d \in Device, NEW s \in Story \ deleted,
                      out[d] = <<>>, inbox[d] = <<>>
               PROVE  /\ rows[d][s].count = IF feed[s].body THEN 1 ELSE 0
                      /\ feed[s].body => rows[d][s].n = feed[s].n
    BY DEF SettledListsAgree
  <2>1. cache[d] \in [Story -> Node] /\ RowIs(rows[d][s], Visible(d)[s])
    BY DEF ListInv, TypeInv, TypeOK, NetworkOK, StoryWhole, DeviceWhole
  <2>2. Len(WritesOf(<<>>)) = 0 /\ Len(<<>>) = 0
    BY WritesOfFacts
  <2>3. Visible(d) = cache[d]
    BY <2>1, <2>2, ViewNone DEF Visible
  <2>4. feed = cache[d]
    BY <2>1, <2>2, ViewNone DEF InStep
  <2> QED
    BY <2>1, <2>3, <2>4 DEF RowIs
<1>3. ListInv /\ InStep /\ [Next]_vars => InStep'
  BY NextInStep DEF ListInv
<1> QED
  BY <1>1, <1>2, <1>3, InitList, NextList, PTL DEF Spec


-----------------------------------------------------------------------------
(* A deletion stands *)

\* A write to all of s.
OfAll(w, s) == w.op \in {"publish", "remove"} /\ w.id = s

\* What d may write when O tells who uploads what, and queues of such writes.
OwnOp(O, d) == {w \in Write : w.op \in {"publish", "remove"} => O[w.id] = d}
OwnQueues(O) ==
    \A d \in Device :
        /\ \A k \in 1..Len(out[d]) : out[d][k] \in OwnOp(O, d)
        /\ \A k \in 1..Len(inbox[d]) : inbox[d][k].write \in OwnOp(O, inbox[d][k].by)

LEMMA WritesOwn ==
    ASSUME NetworkOK, NEW d \in Device, NEW ops \in Seq(Write), Writes(d, ops),
           NEW O, OwnQueues(O), \A k \in 1..Len(ops) : ops[k] \in OwnOp(O, d)
    PROVE  OwnQueues(O)'
<1> DEFINE own == out[d] \o ops
<1>1. out[d] \in Seq(Write) /\ Len(out[d]) \in Nat /\ Len(ops) \in Nat
  BY LenProperties DEF NetworkOK
<1>2. /\ Len(own) = Len(out[d]) + Len(ops)
      /\ \A k \in 1..Len(own) :
            own[k] = IF k <= Len(out[d]) THEN out[d][k] ELSE ops[k - Len(out[d])]
  BY <1>1, ConcatProperties
<1>3. out' = [out EXCEPT ![d] = own] /\ inbox' = inbox
  BY DEF Writes
<1> HIDE DEF own
<1>4. out'[d] = own /\ \A e \in Device \ {d} : out'[e] = out[e]
  BY <1>3 DEF NetworkOK
<1>5. ASSUME NEW k \in 1..Len(own) PROVE own[k] \in OwnOp(O, d)
  <2>1. CASE k \in 1..Len(out[d])
    <3>1. own[k] = out[d][k]
      BY <1>1, <1>2, <2>1
    <3> QED
      BY <2>1, <3>1 DEF OwnQueues
  <2>2. CASE k - Len(out[d]) \in 1..Len(ops)
    <3>1. own[k] = ops[k - Len(out[d])]
      BY <1>1, <1>2, <2>2
    <3> QED
      BY <2>2, <3>1
  <2> QED
    BY <1>1, <1>2, <2>1, <2>2
<1>6. ASSUME NEW e \in Device, NEW k \in 1..Len(out'[e]) PROVE out'[e][k] \in OwnOp(O, e)
  <2>1. CASE e = d
    BY <1>4, <1>5, <2>1
  <2>2. CASE e # d
    BY <1>4, <2>2 DEF OwnQueues
  <2> QED
    BY <2>1, <2>2
<1> QED
  BY <1>3, <1>6 DEF OwnQueues

LEMMA ReceivesOwn ==
    ASSUME NetworkOK, NEW d \in Device, ServerReceives(d), NEW O, OwnQueues(O)
    PROVE  OwnQueues(O)'
<1>1. Telling(d).write \in OwnOp(O, Telling(d).by)
  BY SentFacts DEF OwnQueues, Sent, Telling
<1>2. ASSUME NEW e \in Device, NEW k \in 1..Len(inbox'[e])
      PROVE  inbox'[e][k].write \in OwnOp(O, inbox'[e][k].by)
  <2>1. /\ Len(inbox'[e]) = Len(inbox[e]) + 1 /\ Len(inbox[e]) \in Nat
        /\ \A j \in 1..Len(inbox[e]) : inbox'[e][j] = inbox[e][j]
        /\ inbox'[e][Len(inbox[e]) + 1] = Telling(d)
    BY SentFacts
  <2>2. CASE k \in 1..Len(inbox[e])
    <3>1. inbox'[e][k] = inbox[e][k]
      BY <2>1, <2>2
    <3> QED
      BY <2>2, <3>1 DEF OwnQueues
  <2>3. CASE k = Len(inbox[e]) + 1
    BY <1>1, <2>1, <2>3
  <2> QED
    BY <2>1, <2>2, <2>3
<1>3. out' = out
  BY SentFacts
<1> QED
  BY <1>2, <1>3 DEF OwnQueues

LEMMA HearsOwn ==
    ASSUME TypeInv, NEW d \in Device, DeviceHears(d), NEW O, OwnQueues(O)
    PROVE  OwnQueues(O)'
<1>1. /\ Len(out[d]) \in Nat /\ Len(Kept(d)) = Len(out[d]) - Shift(d)
      /\ \A k \in 1..Len(Kept(d)) : Kept(d)[k] = out[d][k + Shift(d)]
      /\ out' = [out EXCEPT ![d] = Kept(d)] /\ inbox' = [inbox EXCEPT ![d] = Tail(inbox[d])]
      /\ Len(inbox[d]) \in Nat \ {0} /\ Len(inbox'[d]) = Len(inbox[d]) - 1
      /\ \A k \in 1..Len(inbox'[d]) : inbox'[d][k] = inbox[d][k + 1]
  BY HearFacts
<1>2. out'[d] = Kept(d) /\ \A e \in Device \ {d} : out'[e] = out[e] /\ inbox'[e] = inbox[e]
  BY <1>1 DEF TypeInv, TypeOK, NetworkOK
<1>3. ASSUME NEW k \in 1..Len(Kept(d)) PROVE Kept(d)[k] \in OwnOp(O, d)
  <2>1. Shift(d) \in {0, 1}
    BY DEF Shift
  <2>2. k + Shift(d) \in 1..Len(out[d])
    BY <1>1, <2>1
  <2> QED
    BY <1>1, <2>2 DEF OwnQueues
<1>4. ASSUME NEW k \in 1..Len(inbox'[d])
      PROVE  inbox'[d][k].write \in OwnOp(O, inbox'[d][k].by)
  <2>1. inbox'[d][k] = inbox[d][k + 1] /\ k + 1 \in 1..Len(inbox[d])
    BY <1>1
  <2> QED
    BY <2>1 DEF OwnQueues
<1> QED
  BY <1>2, <1>3, <1>4 DEF OwnQueues

LEMMA ResetOwn ==
    ASSUME NetworkOK, NEW d \in Device, Reconnect(d) \/ Relaunch(d), NEW O, OwnQueues(O)
    PROVE  OwnQueues(O)'
<1>1. /\ inbox' = [inbox EXCEPT ![d] = <<>>]
      /\ out' = out \/ out' = [out EXCEPT ![d] = <<>>]
  BY DEF Reconnect, Relaunch
<1>2. \A k \in 1..Len(<<>>) : FALSE
  OBVIOUS
<1> QED
  BY <1>1, <1>2 DEF OwnQueues, NetworkOK

(* Only its author writes a story or removes it. *)
LEMMA NextOwn ==
    ASSUME TypeInv, [Next]_vars, NEW O, O = owner, OwnQueues(O)
    PROVE  OwnQueues(O)'
<1>0. TypeOK /\ NetworkOK
  BY DEF TypeInv, TypeOK
<1>1. ASSUME UNCHANGED <<out, inbox>> PROVE OwnQueues(O)'
  BY <1>1 DEF OwnQueues
<1>2. ASSUME NEW i \in Item, DownloadURL(i) PROVE OwnQueues(O)'
  <2>1. owner[i] \in Device /\ Writes(owner[i], <<SaveOp(i)>>)
    BY <1>0, <1>2 DEF DownloadURL, TypeOK, UploadsOK, SaveOp
  <2>2. <<SaveOp(i)>> \in Seq(Write)
    BY <1>0, OpsFacts
  <2>3. SaveOp(i) \in OwnOp(O, owner[i])
    BY <2>2 DEF OwnOp, SaveOp, PublishOp, ReplyOp
  <2>4. \A k \in 1..Len(<<SaveOp(i)>>) : <<SaveOp(i)>>[k] \in OwnOp(O, owner[i])
    BY <2>3
  <2> QED
    BY <1>0, <2>1, <2>2, <2>4, WritesOwn
<1>3. ASSUME NEW i \in Reply, CountRecording(i) PROVE OwnQueues(O)'
  <2>1. owner[i] \in Device /\ parent[i] \in Story /\ Writes(owner[i], CountOps(i))
    BY <1>0, <1>3, FeedAssumption DEF CountRecording, TypeOK, UploadsOK, Item, CountOps
  <2>2. CountOps(i) \in Seq(Write)
    BY <1>0, <2>1, OpsFacts
  <2>3. \A k \in 1..Len(CountOps(i)) : CountOps(i)[k] \in Write /\ CountOps(i)[k].op = "count"
    BY <2>2 DEF CountOps, CountOp
  <2>4. \A k \in 1..Len(CountOps(i)) : CountOps(i)[k] \in OwnOp(O, owner[i])
    BY <2>3 DEF OwnOp
  <2> QED
    BY <1>0, <2>1, <2>2, <2>4, WritesOwn
<1>4. ASSUME NEW d \in Device, NEW s \in Story, DeleteStory(d, s) PROVE OwnQueues(O)'
  <2>1. Writes(d, DeleteOps(s)) /\ O[s] = d
    BY <1>4 DEF DeleteStory, DeleteOps
  <2>2. DeleteOps(s) \in Seq(Write)
    BY <1>0, OpsFacts
  <2>3. RemoveOp(s) \in OwnOp(O, d) /\ ClearOp(s) \in OwnOp(O, d)
    BY <2>1, OpTypes, 0 \in Nat DEF OwnOp, RemoveOp, ClearOp
  <2>4. \A k \in 1..Len(DeleteOps(s)) : DeleteOps(s)[k] \in OwnOp(O, d)
    BY <2>3 DEF DeleteOps
  <2> QED
    BY <1>0, <2>1, <2>2, <2>4, WritesOwn
<1>5. ASSUME NEW d \in Device,
             ServerReceives(d) \/ DeviceHears(d) \/ Reconnect(d) \/ Relaunch(d)
      PROVE  OwnQueues(O)'
  BY <1>0, <1>5, ReceivesOwn, HearsOwn, ResetOwn
<1>6. ASSUME NEW d \in Device, NEW s \in Story, SendStory(d, s) \/ DidSelectRow(d, s)
      PROVE  OwnQueues(O)'
  BY <1>1, <1>6 DEF SendStory, DidSelectRow, netVars
<1>7. ASSUME NEW d \in Device, NEW i \in Reply, SendReply(d, i) PROVE OwnQueues(O)'
  BY <1>1, <1>7 DEF SendReply, netVars
<1>8. ASSUME NEW i \in Item, PutFile(i) \/ DownloadURLFails(i) PROVE OwnQueues(O)'
  BY <1>1, <1>8 DEF PutFile, DownloadURLFails, netVars
<1>9. ASSUME NEW i \in Reply, ReadNoRecordings(i) PROVE OwnQueues(O)'
  BY <1>1, <1>9 DEF ReadNoRecordings, netVars
<1>10. ASSUME NEW s \in Story, EraseFile(s) PROVE OwnQueues(O)'
  BY <1>1, <1>10 DEF EraseFile, netVars
<1>11. CASE UNCHANGED vars
  BY <1>1, <1>11 DEF vars, netVars
<1> QED
  BY <1>2, <1>3, <1>4, <1>5, <1>6, <1>7, <1>8, <1>9, <1>10, <1>11 DEF Next

\* Stories that were published, replies that were saved or never will be, and
\* uploads nobody has begun.
Past == {i \in Item : \/ phase[i] = "done"
                      \/ i \in Reply /\ phase[i] \in {"reading", "counting", "lost"}}
Unclaimed == \A i \in Item : phase[i] = "unused" => owner[i] = None

(* What was begun stays its author's, and what is past stays past. *)
LEMMA NextPast ==
    ASSUME TypeOK, Unclaimed, [Next]_vars
    PROVE  /\ Past \subseteq Past' /\ Unclaimed'
           /\ \A i \in Item : owner[i] # None => owner'[i] = owner[i]
           /\ \A i \in Item : DownloadURL(i) => i \notin Past /\ i \in Past'
<1> DEFINE Goal == /\ Past \subseteq Past' /\ Unclaimed'
                   /\ \A i \in Item : owner[i] # None => owner'[i] = owner[i]
<1>0. phase \in [Item -> Phase] /\ owner \in [Item -> Device \cup {None}]
  BY DEF TypeOK, UploadsOK
<1>1. ASSUME UNCHANGED <<phase, owner>> PROVE Goal
  BY <1>1 DEF Past, Unclaimed
<1>2. ASSUME NEW d \in Device, NEW i \in Item, phase[i] = "unused",
             phase' = [phase EXCEPT ![i] = "putting"], owner' = [owner EXCEPT ![i] = d]
      PROVE  Goal
  BY <1>0, <1>2 DEF Past, Unclaimed
<1>3. ASSUME NEW i \in Item, NEW p, p # "unused", phase[i] \notin {"done", "lost"},
             p = "linking" => phase[i] = "putting", p # "putting",
             p \in {"linking", "reading", "counting", "done", "lost"},
             phase' = [phase EXCEPT ![i] = p], owner' = owner
      PROVE  Goal
  BY <1>0, <1>3 DEF Past, Unclaimed
<1>4. ASSUME NEW d \in Device, Relaunch(d) PROVE Goal
  BY <1>0, <1>4 DEF Relaunch, Past, Unclaimed
<1> HIDE DEF Goal
<1>5. ASSUME NEW d \in Device, NEW i \in Item,
             (i \in Story /\ SendStory(d, i)) \/ (i \in Reply /\ SendReply(d, i))
      PROVE  Goal
  BY <1>2, <1>5 DEF SendStory, SendReply
<1>6. ASSUME NEW i \in Item, PutFile(i) \/ DownloadURLFails(i) \/ DownloadURL(i) PROVE Goal
  BY <1>3, <1>6 DEF PutFile, DownloadURLFails, DownloadURL
<1>7. ASSUME NEW i \in Reply, ReadNoRecordings(i) \/ CountRecording(i) PROVE Goal
  BY <1>3, <1>7 DEF ReadNoRecordings, CountRecording, Item
<1>8. ASSUME NEW d \in Device, NEW s \in Story, DidSelectRow(d, s) \/ DeleteStory(d, s)
      PROVE  Goal
  <2>1. UNCHANGED <<phase, owner>>
    BY <1>8 DEF DidSelectRow, DeleteStory, upVars
  <2> QED
    BY <1>1, <2>1
<1>9. ASSUME NEW d \in Device, ServerReceives(d) \/ DeviceHears(d) \/ Reconnect(d) PROVE Goal
  <2>1. UNCHANGED <<phase, owner>>
    BY <1>9 DEF ServerReceives, DeviceHears, Reconnect, upVars
  <2> QED
    BY <1>1, <2>1
<1>10. ASSUME NEW s \in Story, EraseFile(s) PROVE Goal
  <2>1. UNCHANGED <<phase, owner>>
    BY <1>10 DEF EraseFile, upVars
  <2> QED
    BY <1>1, <2>1
<1>11. ASSUME UNCHANGED vars PROVE Goal
  <2>1. UNCHANGED <<phase, owner>>
    BY <1>11 DEF vars, upVars
  <2> QED
    BY <1>1, <2>1
<1>12. Goal
  BY <1>4, <1>5, <1>6, <1>7, <1>8, <1>9, <1>10, <1>11 DEF Next, Item
<1>13. \A i \in Item : DownloadURL(i) => i \notin Past /\ i \in Past'
  BY <1>0 DEF DownloadURL, Past, Item
<1> QED
  BY <1>12, <1>13 DEF Goal

(* Only a confirmed alert adds to the deleted stories. *)
LEMMA OnlyAlerts ==
    ASSUME [Next]_vars, NEW s, s \in deleted', s \notin deleted
    PROVE  \E d \in Device : s \in Story /\ DeleteStory(d, s)
<1>1. ASSUME NEW d \in Device, NEW t \in Story, DeleteStory(d, t)
      PROVE  s = t
  BY <1>1 DEF DeleteStory
<1>2. ASSUME NEW d \in Device, NEW t \in Story, SendStory(d, t) \/ DidSelectRow(d, t)
      PROVE  FALSE
  BY <1>2 DEF SendStory, DidSelectRow, fileVars
<1>3. ASSUME NEW d \in Device, NEW i \in Reply, SendReply(d, i) PROVE FALSE
  BY <1>3 DEF SendReply, fileVars
<1>4. ASSUME NEW d \in Device,
             ServerReceives(d) \/ DeviceHears(d) \/ Reconnect(d) \/ Relaunch(d)
      PROVE  FALSE
  BY <1>4 DEF ServerReceives, DeviceHears, Reconnect, Relaunch, fileVars
<1>5. ASSUME NEW i \in Item, PutFile(i) \/ DownloadURLFails(i) \/ DownloadURL(i) PROVE FALSE
  BY <1>5 DEF PutFile, DownloadURLFails, DownloadURL, fileVars
<1>6. ASSUME NEW i \in Reply, ReadNoRecordings(i) \/ CountRecording(i) PROVE FALSE
  BY <1>6 DEF ReadNoRecordings, CountRecording, fileVars
<1>7. ASSUME NEW t \in Story, EraseFile(t) PROVE FALSE
  BY <1>7 DEF EraseFile
<1>8. CASE UNCHANGED vars
  BY <1>8 DEF vars, fileVars
<1> QED
  BY <1>1, <1>2, <1>3, <1>4, <1>5, <1>6, <1>7, <1>8 DEF Next

(* Own writes to all of s hide what was heard of it. *)
LEMMA OwnHides ==
    ASSUME NEW one, NEW other, NEW own, NEW s \in Story,
           one[s].body = other[s].body \/ \E k \in 1..Len(own) : OfAll(own[k], s)
    PROVE  View(one, own)[s].body = View(other, own)[s].body
BY DEF View, OfAll, FeedOps

(* Without one, the view has of s what was heard. *)
LEMMA HeardShows ==
    ASSUME NEW heard, NEW own, NEW s \in Story,
           \A k \in 1..Len(own) : ~OfAll(own[k], s)
    PROVE  View(heard, own)[s].body = heard[s].body
BY DEF View, OfAll, FeedOps

(* A story that was taken from the view comes back only when it is written.*)
LEMMA NotRevived ==
    ASSUME NEW heard, NEW own, NEW more, NEW s \in Story,
           Len(own) \in Nat, Len(more) \in Nat, Len(own) <= Len(more),
           \A k \in 1..Len(own) : more[k] = own[k],
           \A k \in 1..Len(more) : Publishes(more[k], s) => k <= Len(own),
           ~View(heard, own)[s].body
    PROVE  ~View(heard, more)[s].body
<1> DEFINE all(q) == {k \in 1..Len(q) : OfAll(q[k], s)}
<1>1. \A q : View(heard, q)[s].body =
                IF all(q) = {} THEN heard[s].body ELSE q[Max(all(q))].op = "publish"
  <2> SUFFICES ASSUME NEW q
               PROVE  View(heard, q)[s].body =
                        IF all(q) = {} THEN heard[s].body ELSE q[Max(all(q))].op = "publish"
    OBVIOUS
  <2> DEFINE writes == {k \in 1..Len(q) : q[k].id = s /\ q[k].op \in FeedOps}
             whole  == {k \in writes : q[k].op # "count"}
  <2>1. whole = all(q)
    BY DEF OfAll, FeedOps
  <2>2. View(heard, q)[s].body =
            IF whole = {} THEN heard[s].body ELSE q[Max(whole)].op = "publish"
    BY DEF View
  <2> QED
    BY <2>1, <2>2
<1>2. CASE all(more) = {}
  <2>1. all(own) = {}
    BY <1>2
  <2> QED
    BY <1>1, <1>2, <2>1
<1>3. CASE all(more) # {}
  <2> DEFINE last == Max(all(more))
  <2>1. last \in all(more) /\ \A k \in all(more) : k <= last
    <3>1. all(more) \in SUBSET (1..Len(more))
      OBVIOUS
    <3> HIDE DEF all
    <3> QED
      BY <1>3, <3>1, LastPosition
  <2>2. CASE last <= Len(own)
    <3>1. last \in all(own) /\ \A k \in all(own) : k \in all(more)
      BY <2>1, <2>2
    <3>2. Max(all(own)) \in all(own) /\ \A k \in all(own) : k <= Max(all(own))
      <4>1. all(own) \in SUBSET (1..Len(own)) /\ all(own) # {}
        BY <3>1
      <4> HIDE DEF all
      <4> QED
        BY <4>1, LastPosition
    <3>3. Max(all(own)) = last
      <4>1. Max(all(own)) \in 1..Len(own) /\ last \in 1..Len(more)
        BY <2>1, <3>2
      <4>2. Max(all(own)) <= last /\ last <= Max(all(own))
        BY <2>1, <3>1, <3>2
      <4> QED
        BY ONLY <4>1, <4>2, Len(own) \in Nat, Len(more) \in Nat
    <3>4. more[last] = own[last]
      BY <2>1, <2>2
    <3>5. all(own) # {}
      BY <3>1
    <3> HIDE DEF all
    <3> QED
      BY <1>1, <1>3, <3>3, <3>4, <3>5
  <2>3. CASE ~(last <= Len(own))
    <3>1. ~Publishes(more[last], s) /\ more[last].id = s
      BY <2>1, <2>3 DEF OfAll
    <3>2. more[last].op # "publish"
      BY <3>1 DEF Publishes
    <3> HIDE DEF all
    <3> QED
      BY <1>1, <1>3, <3>2
  <2> QED
    BY <2>2, <2>3
<1> QED
  BY <1>2, <1>3

(* What a story's author sees of it is what the server will have once the  *)
(* author's writes have arrived: nothing on its way to the author tells    *)
(* otherwise, since all of it answers writes still in the author's queue.  *)
LEMMA ViewsMeet ==
    ASSUME TypeInv, AnswersInOrder, InStep, NEW d \in Device, NEW s \in Story,
           OwnQueues(owner), owner[s] = d
    PROVE  View(feed, out[d])[s].body = Visible(d)[s].body
<1>1. CASE \E k \in 1..Len(out[d]) : OfAll(out[d][k], s)
  BY <1>1, OwnHides DEF Visible
<1>2. CASE \A k \in 1..Len(out[d]) : ~OfAll(out[d][k], s)
  <2> DEFINE left == WritesOf(inbox[d])
  <2>1. Len(inbox[d]) \in Nat
    BY LenProperties DEF TypeInv, TypeOK, NetworkOK
  <2>2. Len(left) = Len(inbox[d]) /\ \A k \in 1..Len(inbox[d]) : left[k] = inbox[d][k].write
    BY <2>1, WritesOfFacts
  <2>3. ASSUME NEW k \in 1..Len(inbox[d]), OfAll(inbox[d][k].write, s) PROVE FALSE
    <3>1. inbox[d][k].by = d
      BY <2>3 DEF OwnQueues, OwnOp, OfAll
    <3>2. k \in Answers(d)
      BY <3>1 DEF Answers
    <3>3. inbox[d][k].write = out[d][Rank(d, k)] /\ Rank(d, k) \in 1..Len(out[d])
      BY <3>2, RankBounds DEF AnswersInOrder, OrderAt
    <3> QED
      BY <1>2, <2>3, <3>3
  <2>4. \A k \in 1..Len(left) : ~OfAll(left[k], s)
    BY <2>2, <2>3
  <2>5. View(cache[d], left) = feed
    BY DEF InStep
  <2> HIDE DEF left
  <2>6. feed[s].body = cache[d][s].body
    BY <2>4, <2>5, HeardShows
  <2> QED
    BY <2>6, OwnHides DEF Visible
<1> QED
  BY <1>1, <1>2

\* The author's list has the story exactly if the author's view has.
Followed(d, s) == rows[d][s].count = IF Visible(d)[s].body THEN 1 ELSE 0
AuthorsFollow  == \A d \in Device, s \in Story : owner[s] = d => Followed(d, s)

\* s is off the list of d, whose view does not have it.
Off(d, s) == rows[d][s].count = 0 /\ ~Visible(d)[s].body

(* A view that has the story as before leaves its row alone. *)
LEMMA RowStays ==
    ASSUME ListsOK, NEW d \in Device, NEW s \in Story, NEW old, NEW new,
           old[s].body = new[s].body, ListOfFeedEvents(d, old, new)
    PROVE  rows'[d][s].count = rows[d][s].count
<1>1. rows'[d][s] = RowAfter(rows[d][s], old, new, s)
  BY DEF ListOfFeedEvents, ListsOK
<1>2. ~(Added(old, new, s) /\ new[s].body) /\ ~(Removed(old, new, s) /\ old[s].body)
  BY DEF Added, Removed, Exists, Gone
<1> QED
  BY <1>1, <1>2 DEF RowAfter

LEMMA WriteLeaves ==
    ASSUME TypeInv, NEW d \in Device, NEW s \in Story, NEW e \in Device,
           NEW w \in Write, ~OfAll(w, s), Writes(e, <<w>>)
    PROVE  Visible(d)'[s].body = Visible(d)[s].body /\ rows'[d][s].count = rows[d][s].count
<1>0. ListsOK /\ NetworkOK
  BY DEF TypeInv, TypeOK
<1>1. CASE e = d
  <2>1. /\ ListOfFeedEvents(d, Visible(d), Applied(Visible(d), w))
        /\ Visible(d)' = Applied(Visible(d), w)
    BY <1>0, <1>1, WriteSeen
  <2>2. Applied(Visible(d), w)[s].body = Visible(d)[s].body
    BY DEF Applied, OfAll, FeedOps
  <2> QED
    BY <1>0, <2>1, <2>2, RowStays
<1>2. CASE e # d
  <2>1. out'[d] = out[d] /\ cache'[d] = cache[d] /\ rows'[d] = rows[d]
    BY <1>0, <1>2 DEF Writes, ListOfFeedEvents, NetworkOK, ListsOK
  <2> QED
    BY <2>1 DEF Visible
<1> QED
  BY <1>1, <1>2

(* What the author hears tells the author nothing new of the story. *)
LEMMA HearsView ==
    ASSUME TypeInv, AnswersInOrder, NEW d \in Device, NEW s \in Story,
           OwnQueues(owner), owner[s] = d, DeviceHears(d)
    PROVE  View(Heard(d), Kept(d))[s].body = Visible(d)[s].body
<1>1. /\ Told(d) = inbox[d][1] /\ Len(inbox[d]) \in Nat \ {0}
      /\ Kept(d) \in Seq(Write) /\ Len(out[d]) \in Nat /\ Len(Kept(d)) = Len(out[d]) - Shift(d)
      /\ \A k \in 1..Len(Kept(d)) : Kept(d)[k] = out[d][k + Shift(d)]
  BY HearFacts
<1>2. CASE Told(d).by = d
  <2>1. Shift(d) = 1 /\ Told(d).write = out[d][1]
    BY <1>2, HearsOrder DEF Shift
  <2>2. Len(Kept(d)) \in Nat
    BY <1>1, LenProperties
  <2>3. Len(out[d]) = Len(Kept(d)) + 1 /\ \A k \in 1..Len(Kept(d)) : Kept(d)[k] = out[d][k + 1]
    BY <1>1, <2>1, <2>2
  <2>4. View(cache[d], out[d]) = View(Applied(cache[d], out[d][1]), Kept(d))
    BY <2>2, <2>3, ViewTail
  <2> QED
    BY <2>1, <2>4 DEF Visible, Heard
<1>3. CASE Told(d).by # d
  <2>1. Kept(d) = out[d]
    BY <1>3 DEF Kept
  <2>2. 1 \in 1..Len(inbox[d])
    BY <1>1
  <2>3. ~OfAll(Told(d).write, s)
    BY <1>1, <1>3, <2>2 DEF OwnQueues, OwnOp, OfAll
  <2>4. Heard(d)[s].body = cache[d][s].body
    <3> DEFINE w == Told(d).write
    <3>1. Heard(d) = Applied(cache[d], w) /\ ~OfAll(w, s)
      BY <2>3 DEF Heard
    <3> HIDE DEF w
    <3>2. Applied(cache[d], w)[s].body = cache[d][s].body
      BY <3>1 DEF Applied, OfAll, FeedOps
    <3> QED
      BY <3>1, <3>2
  <2>5. View(Heard(d), out[d])[s].body = View(cache[d], out[d])[s].body
    BY <2>4, OwnHides
  <2> QED
    BY <2>1, <2>5 DEF Visible
<1> QED
  BY <1>2, <1>3

DeletionInv ==
    /\ ListInv
    /\ InStep
    /\ Unclaimed /\ OwnQueues(owner)
    /\ AllBacked(Past) /\ deleted \subseteq Past
    /\ AuthorsFollow

LEMMA InitDeletion == Init => DeletionInv
<1> SUFFICES ASSUME Init PROVE DeletionInv
  OBVIOUS
<1>1. InStep
  <2> SUFFICES ASSUME NEW d \in Device PROVE View(cache[d], WritesOf(inbox[d])) = feed
    BY DEF InStep
  <2>1. inbox[d] = <<>> /\ cache[d] = feed /\ feed \in [Story -> Node]
    BY DEF Init, Gone, Node
  <2>2. Len(WritesOf(<<>>)) = 0
    BY WritesOfFacts
  <2> QED
    BY <2>1, <2>2, ViewNone
<1>2. Unclaimed /\ OwnQueues(owner)
  BY DEF Init, Unclaimed, OwnQueues
<1>3. AllBacked(Past)
  <2>1. QueuesBacked(Past)
    BY DEF Init, QueuesBacked
  <2>2. ServerBacked(Past) /\ CachesBacked(Past) /\ RowsBacked(Past)
    BY DEF Init, ServerBacked, CachesBacked, RowsBacked, Gone
  <2> QED
    BY <2>1, <2>2 DEF AllBacked
<1>4. AuthorsFollow
  BY FeedAssumption DEF Init, AuthorsFollow, Item, FeedAssumption
<1> QED
  BY <1>1, <1>2, <1>3, <1>4, InitList DEF DeletionInv, Init

(* The author's list and view lose the story as soon as the alert is       *)
(* answered.                                                               *)
LEMMA TakenAtOnce ==
    ASSUME DeletionInv, NEW d \in Device, NEW s \in Story, DeleteStory(d, s)
    PROVE  Off(d, s)'
<1>0. NetworkOK /\ ListsOK /\ rows[d][s].count > 0 /\ owner[s] = d
  BY DEF DeletionInv, ListInv, TypeInv, TypeOK, DeleteStory
<1>1. Writes(d, DeleteOps(s))
  BY DEF DeleteStory, DeleteOps
<1>2. /\ ListOfFeedEvents(d, Visible(d), Applied(Visible(d), RemoveOp(s)))
      /\ Visible(d)' = Applied(Visible(d), RemoveOp(s))
  BY <1>0, <1>1, DeleteSeen
<1>3. Visible(d)[s].body /\ rows[d][s] \in Row
  <2>1. rows[d][s].count = IF Visible(d)[s].body THEN 1 ELSE 0
    BY <1>0 DEF DeletionInv, AuthorsFollow, Followed
  <2> QED
    BY <1>0, <2>1 DEF ListsOK
<1>4. rows'[d][s] = RowAfter(rows[d][s], Visible(d), Applied(Visible(d), RemoveOp(s)), s)
  BY <1>0, <1>2 DEF ListOfFeedEvents, ListsOK
<1>5. /\ RemoveOp(s) \in Write /\ RemoveOp(s).op = "remove" /\ RemoveOp(s).id = s
      /\ RemoveOp(s).n = Absent /\ Visible(d) \in [Story -> Node]
  BY <1>0, OpTypes, VisibleType, 0 \in Nat DEF RemoveOp
<1>6. rows'[d][s].count = 0
  BY <1>3, <1>4, <1>5, AppliedRow
<1>7. ~Applied(Visible(d), RemoveOp(s))[s].body
  BY <1>5 DEF Applied, FeedOps
<1> QED
  BY <1>2, <1>6, <1>7 DEF Off

(* Nothing but the author's alert, and the loss of the author's unsent      *)
(* writes, changes what the author sees of a story once it is deleted.     *)
LEMMA AuthorsView ==
    ASSUME DeletionInv, [Next]_vars, NEW d \in Device, NEW s \in deleted, owner[s] = d,
           ~Relaunch(d), ~DeleteStory(d, s)
    PROVE  Visible(d)'[s].body = Visible(d)[s].body /\ rows'[d][s].count = rows[d][s].count
<1> DEFINE Same == Visible(d)'[s].body = Visible(d)[s].body /\ rows'[d][s].count = rows[d][s].count
<1>0. /\ TypeInv /\ AnswersInOrder /\ InStep /\ OwnQueues(owner) /\ ListsOK
      /\ TypeOK /\ NetworkOK /\ s \in Story /\ s \in Past
  BY DEF DeletionInv, ListInv, TypeInv, TypeOK, UploadsOK
<1>1. ASSUME out'[d] = out[d], cache'[d] = cache[d], rows'[d] = rows[d] PROVE Same
  BY <1>1 DEF Visible
<1> HIDE DEF Same
<1>2. ASSUME UNCHANGED <<netVars, listVars>> PROVE Same
  BY <1>1, <1>2 DEF netVars, listVars
<1>3. ASSUME NEW i \in Item, DownloadURL(i) PROVE Same
  <2>1. owner[i] \in Device /\ Writes(owner[i], <<SaveOp(i)>>)
    BY <1>0, <1>3 DEF DownloadURL, TypeOK, UploadsOK, SaveOp
  <2>2. SaveOp(i) \in Write
    BY FeedAssumption, OpTypes, 0 \in Nat DEF Item, SaveOp
  <2>3. i # s
    BY <1>0, <1>3, NextPast DEF DeletionInv
  <2>4. ~OfAll(SaveOp(i), s)
    BY <2>3 DEF OfAll, SaveOp, PublishOp, ReplyOp
  <2> QED
    BY <1>0, <2>1, <2>2, <2>4, WriteLeaves DEF Same
<1>4. ASSUME NEW i \in Reply, CountRecording(i) PROVE Same
  <2>1. /\ owner[i] \in Device /\ parent[i] \in Story /\ seen[i] \in Nat \cup {Absent}
        /\ Writes(owner[i], CountOps(i))
    BY <1>0, <1>4, FeedAssumption DEF CountRecording, TypeOK, UploadsOK, Item, CountOps
  <2>2. CASE seen[i] = Absent
    <3>1. out[owner[i]] \in Seq(Write) /\ CountOps(i) = <<>>
      BY <1>0, <2>1, <2>2 DEF NetworkOK, CountOps
    <3>2. out[owner[i]] \o CountOps(i) = out[owner[i]]
      BY <3>1
    <3>3. /\ ListOfFeedEvents(owner[i], Visible(owner[i]), Visible(owner[i]))
          /\ out' = out /\ cache' = cache
      BY <1>0, <2>1, <3>2 DEF Writes, Visible, NetworkOK
    <3>4. rows'[d][s].count = rows[d][s].count
      <4>1. CASE owner[i] = d
        BY <1>0, <3>3, <4>1, RowStays
      <4>2. CASE owner[i] # d
        BY <1>0, <3>3, <4>2 DEF ListOfFeedEvents, ListsOK
      <4> QED
        BY <4>1, <4>2
    <3> QED
      BY <3>3, <3>4 DEF Same, Visible
  <2>3. CASE seen[i] # Absent
    <3> DEFINE w == CountOp(parent[i], seen[i] + 1)
    <3>1. seen[i] + 1 \in Nat
      BY <2>1, <2>3
    <3>2. w \in Write /\ ~OfAll(w, s)
      BY <2>1, <3>1, OpTypes DEF CountOp, OfAll
    <3>3. Writes(owner[i], <<w>>)
      BY <2>1, <2>3 DEF CountOps
    <3> HIDE DEF w
    <3> QED
      BY <1>0, <2>1, <3>2, <3>3, WriteLeaves DEF Same
  <2> QED
    BY <2>2, <2>3
<1>5. ASSUME NEW e \in Device, NEW t \in Story, DeleteStory(e, t) PROVE Same
  <2>1. Writes(e, DeleteOps(t)) /\ owner[t] = e
    BY <1>5 DEF DeleteStory, DeleteOps
  <2>2. CASE e # d
    <3>1. out'[d] = out[d] /\ cache'[d] = cache[d] /\ rows'[d] = rows[d]
      BY <1>0, <2>1, <2>2 DEF Writes, ListOfFeedEvents, NetworkOK, ListsOK
    <3> QED
      BY <1>1, <3>1
  <2>3. CASE e = d /\ t # s
    <3>1. /\ ListOfFeedEvents(d, Visible(d), Applied(Visible(d), RemoveOp(t)))
          /\ Visible(d)' = Applied(Visible(d), RemoveOp(t))
      BY <1>0, <2>1, <2>3, DeleteSeen
    <3>2. Applied(Visible(d), RemoveOp(t))[s].body = Visible(d)[s].body
      BY <1>0, <2>3 DEF Applied, RemoveOp
    <3> QED
      BY <1>0, <3>1, <3>2, RowStays DEF Same
  <2>4. e # d \/ t # s
    BY <1>5
  <2> QED
    BY <2>2, <2>3, <2>4
<1>6. ASSUME NEW e \in Device, ServerReceives(e) PROVE Same
  BY <1>1, <1>6 DEF ServerReceives, listVars
<1>7. ASSUME NEW e \in Device, e # d, DeviceHears(e) \/ Reconnect(e) \/ Relaunch(e) PROVE Same
  <2>1. out'[d] = out[d] /\ cache'[d] = cache[d] /\ rows'[d] = rows[d]
    BY <1>0, <1>7 DEF DeviceHears, Reconnect, Relaunch, ListOfFeedEvents, NetworkOK, ListsOK
  <2> QED
    BY <1>1, <2>1
<1>8. ASSUME DeviceHears(d) PROVE Same
  <2>1. /\ cache' = [cache EXCEPT ![d] = Heard(d)] /\ out' = [out EXCEPT ![d] = Kept(d)]
        /\ ListOfFeedEvents(d, Visible(d), View(Heard(d), Kept(d)))
    BY <1>0, <1>8, HearFacts
  <2>2. View(Heard(d), Kept(d))[s].body = Visible(d)[s].body
    BY <1>0, <1>8, HearsView
  <2>3. Visible(d)' = View(Heard(d), Kept(d))
    BY <1>0, <2>1 DEF Visible, NetworkOK
  <2> QED
    BY <1>0, <2>1, <2>2, <2>3, RowStays DEF Same
<1>9. ASSUME Reconnect(d) PROVE Same
  <2>1. View(feed, out[d])[s].body = Visible(d)[s].body
    BY <1>0, ViewsMeet
  <2>2. ListOfFeedEvents(d, Visible(d), View(feed, out[d])) /\ Visible(d)' = View(feed, out[d])
    BY <1>0, <1>9 DEF Reconnect, Visible, NetworkOK
  <2> QED
    BY <1>0, <2>1, <2>2, RowStays DEF Same
<1>10. ASSUME NEW e \in Device, NEW t \in Story, SendStory(e, t) \/ DidSelectRow(e, t)
       PROVE  Same
  BY <1>2, <1>10 DEF SendStory, DidSelectRow
<1>11. ASSUME NEW e \in Device, NEW i \in Reply, SendReply(e, i) PROVE Same
  BY <1>2, <1>11 DEF SendReply
<1>12. ASSUME NEW i \in Item, PutFile(i) \/ DownloadURLFails(i) PROVE Same
  BY <1>2, <1>12 DEF PutFile, DownloadURLFails
<1>13. ASSUME NEW i \in Reply, ReadNoRecordings(i) PROVE Same
  BY <1>2, <1>13 DEF ReadNoRecordings
<1>14. ASSUME NEW t \in Story, EraseFile(t) PROVE Same
  BY <1>2, <1>14 DEF EraseFile
<1>15. ASSUME UNCHANGED vars PROVE Same
  BY <1>2, <1>15 DEF vars
<1>16. Same
  BY <1>3, <1>4, <1>5, <1>6, <1>7, <1>8, <1>9, <1>10, <1>11, <1>12, <1>13, <1>14, <1>15 DEF Next
<1> QED
  BY <1>16 DEF Same

(* A story that is not deleted is on the lists of all who can see it. *)
OthersFollow == \A d \in Device, s \in Story \ deleted : Followed(d, s)

LEMMA ListFollow == ListInv => OthersFollow
BY DEF ListInv, StoryWhole, DeviceWhole, RowIs, Followed, OthersFollow

LEMMA ListFollowNext == ListInv' => OthersFollow'
BY ListFollow, PTL

LEMMA NextFollow ==
    ASSUME DeletionInv, [Next]_vars, ListInv'
    PROVE  AuthorsFollow'
<1> SUFFICES ASSUME NEW d \in Device, NEW s \in Story, owner'[s] = d PROVE Followed(d, s)'
  BY DEF AuthorsFollow
<1>0. TypeOK /\ NetworkOK /\ ServerOK /\ ListsOK /\ UploadsOK
  BY DEF DeletionInv, ListInv, TypeInv, TypeOK
<1>1. CASE s \notin deleted'
  BY <1>1, ListFollowNext DEF OthersFollow
<1>2. CASE s \in deleted' /\ s \notin deleted
  <2>1. PICK e \in Device : DeleteStory(e, s)
    BY <1>2, OnlyAlerts
  <2>2. e = d
    BY <2>1 DEF DeleteStory, upVars
  <2> QED
    BY <2>1, <2>2, TakenAtOnce DEF Off, Followed
<1>3. CASE s \in deleted
  <2>1. owner[s] = d
    <3>1. phase[s] # "unused" /\ s \in Item
      BY <1>3 DEF DeletionInv, Past, Item
    <3> QED
      BY <1>0, <3>1, NextPast DEF DeletionInv, UploadsOK
  <2>2. CASE DeleteStory(d, s)
    BY <2>2, TakenAtOnce DEF Off, Followed
  <2>3. CASE Relaunch(d)
    <3>1. rows'[d][s].count = IF feed[s].body THEN 1 ELSE 0
      BY <1>0, <2>3 DEF Relaunch, ListsOK
    <3>2. cache'[d] = feed /\ out'[d] = <<>>
      BY <1>0, <2>3 DEF Relaunch, NetworkOK
    <3>3. View(feed, <<>>) = feed
      BY <1>0, ViewNone DEF ServerOK
    <3> QED
      BY <3>1, <3>2, <3>3 DEF Followed, Visible
  <2>4. CASE ~DeleteStory(d, s) /\ ~Relaunch(d)
    <3>1. Followed(d, s)
      BY <2>1 DEF DeletionInv, AuthorsFollow
    <3> QED
      BY <1>3, <2>1, <2>4, <3>1, AuthorsView DEF Followed
  <2> QED
    BY <2>2, <2>3, <2>4
<1> QED
  BY <1>1, <1>2, <1>3

LEMMA NextDeletion == DeletionInv /\ [Next]_vars => DeletionInv'
<1> SUFFICES ASSUME DeletionInv, [Next]_vars PROVE DeletionInv'
  OBVIOUS
<1>0. TypeInv /\ TypeOK /\ NetworkOK
  BY DEF DeletionInv, ListInv, TypeInv, TypeOK
<1>1. ListInv' /\ InStep'
  BY <1>0, NextList, NextInStep DEF DeletionInv
<1>2. /\ Past \subseteq Past' /\ Unclaimed'
      /\ \A i \in Item : owner[i] # None => owner'[i] = owner[i]
      /\ \A i \in Item : DownloadURL(i) => i \notin Past /\ i \in Past'
  BY <1>0, NextPast DEF DeletionInv
<1>3. OwnQueues(owner)'
  <2>1. PICK O : O = owner
    OBVIOUS
  <2>2. PICK P : P = owner'
    OBVIOUS
  <2>3. OwnQueues(O)'
    BY <1>0, <2>1, NextOwn DEF DeletionInv
  <2>4. \A e \in Device : OwnOp(O, e) \subseteq OwnOp(P, e)
    <3> SUFFICES ASSUME NEW e \in Device, NEW w \in OwnOp(O, e) PROVE w \in OwnOp(P, e)
      OBVIOUS
    <3>1. w \in Write /\ w.id \in Item
      BY DEF OwnOp, Write
    <3>2. e # None
      BY FeedAssumption DEF FeedAssumption
    <3> QED
      BY <1>2, <2>1, <2>2, <3>1, <3>2 DEF OwnOp
  <2>5. NetworkOK'
    BY <1>1 DEF ListInv, TypeInv, TypeOK
  <2>6. OwnQueues(P)'
    <3>1. ASSUME NEW e \in Device, NEW k \in 1..Len(inbox'[e])
          PROVE  inbox'[e][k].by \in Device
      <4>1. inbox'[e] \in Seq(Message)
        BY <2>5 DEF NetworkOK, Message
      <4>2. inbox'[e][k] \in Message
        BY <3>1, <4>1
      <4> QED
        BY <4>2 DEF Message
    <3> QED
      BY <2>3, <2>4, <3>1 DEF OwnQueues
  <2> QED
    BY <2>2, <2>6 DEF OwnQueues
<1>4. AllBacked(Past)'
  <2>1. PICK F : F = Past
    OBVIOUS
  <2>2. PICK G : G = Past'
    OBVIOUS
  <2>3. AllBacked(G)
    <3>1. AllBacked(F) /\ F \subseteq G
      BY <1>2, <2>1, <2>2 DEF DeletionInv
    <3> QED
      BY <3>1 DEF AllBacked, QueuesBacked, ServerBacked, CachesBacked, RowsBacked, Backed
  <2>4. \A i \in Item : DownloadURL(i) => i \in G
    BY <1>2, <2>2
  <2>5. AllBacked(G)'
    BY <1>0, <2>3, <2>4, NextBacked
  <2> QED
    BY <2>2, <2>5 DEF AllBacked, QueuesBacked, ServerBacked, CachesBacked, RowsBacked
<1>5. deleted' \subseteq Past'
  <2> SUFFICES ASSUME NEW s \in deleted', s \notin deleted PROVE s \in Past'
    BY <1>2 DEF DeletionInv
  <2>1. PICK d \in Device : s \in Story /\ DeleteStory(d, s)
    BY OnlyAlerts
  <2>2. s \in Past
    BY <2>1 DEF DeleteStory, DeletionInv, AllBacked, RowsBacked
  <2> QED
    BY <1>2, <2>2
<1>6. AuthorsFollow'
  BY <1>1, NextFollow
<1> QED
  BY <1>1, <1>2, <1>3, <1>4, <1>5, <1>6 DEF DeletionInv

(* Nothing brings a story back that is off its author's list and view,     *)
(* once it is deleted, except the loss of the author's unsent writes.      *)
LEMMA StaysOff ==
    ASSUME DeletionInv, [Next]_vars, NEW d \in Device, NEW s \in deleted, owner[s] = d,
           Off(d, s), ~Relaunch(d)
    PROVE  Off(d, s)'
<1>1. s \in Story
  BY DEF DeletionInv, ListInv, TypeInv, TypeOK, UploadsOK
<1>2. CASE DeleteStory(d, s)
  BY <1>1, <1>2, TakenAtOnce
<1>3. CASE ~DeleteStory(d, s)
  BY <1>3, AuthorsView DEF Off
<1> QED
  BY <1>2, <1>3

MeetInv == \A s \in Story, d \in Device : owner[s] = d /\ Off(d, s) => TakenBack(s)

LEMMA MeetFollows == DeletionInv => MeetInv
<1> SUFFICES ASSUME DeletionInv, NEW s \in Story, NEW d \in Device, owner[s] = d, Off(d, s)
             PROVE  TakenBack(s)
  BY DEF MeetInv
<1>1. View(feed, out[d])[s].body = Visible(d)[s].body
  BY ViewsMeet DEF DeletionInv, ListInv
<1> QED
  BY <1>1 DEF Off, TakenBack

(* A deletion stands, whatever is sent again or counted late, until the    *)
(* app of the story's author is killed with the removal unsent: for any    *)
(* number of devices, stories, replies and faults.                         *)
THEOREM DeletionSafety == Spec => DeletionStands
<1>1. DeletionInv /\ DeletionInv' /\ MeetInv' /\ [Next]_vars =>
        [\A s \in deleted' :
            s \notin deleted \/ TakenBack(s) \/ (\E d \in Device : DeleteStory(d, s)) =>
                TakenBack(s)' \/ \E d \in Device : owner[s] = d /\ Relaunch(d)]_vars
  <2> SUFFICES ASSUME DeletionInv, DeletionInv', MeetInv', [Next]_vars, NEW s \in deleted',
                      \/ s \notin deleted \/ TakenBack(s)
                      \/ \E d \in Device : DeleteStory(d, s),
                      \A d \in Device : ~(owner[s] = d /\ Relaunch(d))
               PROVE  TakenBack(s)'
    OBVIOUS
  <2>0. s \in Story /\ \A i \in Item : owner[i] # None => owner'[i] = owner[i]
    BY NextPast DEF DeletionInv, ListInv, TypeInv, TypeOK, UploadsOK
  <2>1. ASSUME NEW d \in Device, owner[s] = d, Off(d, s)' PROVE TakenBack(s)'
    <3>1. owner'[s] = d
      BY <2>0, <2>1, FeedAssumption DEF FeedAssumption, Item
    <3> QED
      BY <2>0, <2>1, <3>1 DEF MeetInv
  <2>2. CASE s \notin deleted \/ \E d \in Device : DeleteStory(d, s)
    <3>1. PICK d \in Device : DeleteStory(d, s)
      BY <2>2, OnlyAlerts
    <3>2. Off(d, s)' /\ owner[s] = d
      BY <2>0, <3>1, TakenAtOnce DEF DeleteStory
    <3> QED
      BY <2>1, <3>2
  <2>3. CASE s \in deleted /\ TakenBack(s)
    <3>1. PICK d \in Device : owner[s] = d /\ Off(d, s)
      BY <2>3 DEF TakenBack, Off
    <3> QED
      BY <2>1, <2>3, <3>1, StaysOff
  <2> QED
    BY <2>2, <2>3
<1> QED
  BY <1>1, InitDeletion, NextDeletion, MeetFollows, PTL DEF Spec, DeletionStands

-----------------------------------------------------------------------------
(* The feed is a board *)

\* What the operations write: a story starts with 0 recordings, counting one
\* states at least 1, and what is removed states none.
FormedOp ==
    {w \in Write : /\ w.op = "publish" => w.n = 0
                   /\ w.op = "count" => w.n \in Nat \ {0}
                   /\ w.op = "remove" => w.n = Absent}

\* A reply is saved once its recording is stored, and is never erased.
RepliesStored ==
    \A i \in Reply : phase[i] \in {"reading", "counting", "done"} => file[i] # "none"

BoardInv ==
    CounterInv /\ DeletionInv /\ AudioInv /\ QueuesIn(FormedOp) /\ RepliesStored

LEMMA NextFormed == TypeInv /\ QueuesIn(FormedOp) /\ [Next]_vars => QueuesIn(FormedOp)'
<1> SUFFICES ASSUME TypeInv, QueuesIn(FormedOp), [Next]_vars PROVE QueuesIn(FormedOp)'
  OBVIOUS
<1>1. ASSUME NEW i \in Item PROVE SaveOp(i) \in FormedOp
  <2>1. SaveOp(i) \in Write
    BY FeedAssumption, OpTypes, 0 \in Nat DEF Item, SaveOp
  <2> QED
    BY <2>1 DEF FormedOp, SaveOp, PublishOp, ReplyOp
<1>2. ASSUME NEW i \in Reply, CountRecording(i), NEW k \in 1..Len(CountOps(i))
      PROVE  CountOps(i)[k] \in FormedOp
  <2>1. seen[i] \in Nat \cup {Absent} /\ parent[i] \in Story
    BY <1>2 DEF CountRecording, TypeInv, TypeOK, UploadsOK, Item
  <2>2. seen[i] # Absent /\ CountOps(i)[k] = CountOp(parent[i], seen[i] + 1)
    BY <1>2 DEF CountOps
  <2>3. seen[i] \in Nat /\ seen[i] + 1 \in Nat \ {0}
    BY <2>1, <2>2
  <2>4. CountOps(i)[k] \in Write
    BY <2>1, <2>2, <2>3, OpTypes
  <2> QED
    BY <2>2, <2>3, <2>4 DEF FormedOp, CountOp
<1>3. ASSUME NEW d \in Device, NEW s \in Story
      PROVE  RemoveOp(s) \in FormedOp /\ ClearOp(s) \in FormedOp
  BY <1>3, OpTypes, 0 \in Nat DEF FormedOp, RemoveOp, ClearOp
<1>4. PICK W : W = FormedOp
  OBVIOUS
<1>5. QueuesIn(W)'
  BY <1>1, <1>2, <1>3, <1>4, NextQueues
<1> QED
  BY <1>4, <1>5 DEF QueuesIn, FormedOp

LEMMA NextStored == TypeInv /\ RepliesStored /\ [Next]_vars => RepliesStored'
<1> SUFFICES ASSUME TypeInv, RepliesStored, [Next]_vars PROVE RepliesStored'
  OBVIOUS
<1> DEFINE Saved == {"reading", "counting", "done"}
<1>0. UploadsOK
  BY DEF TypeInv, TypeOK
<1>1. ASSUME NEW i \in Item, NEW p, phase' = [phase EXCEPT ![i] = p],
             p \in Saved => file[i] # "none", file' = file
      PROVE  RepliesStored'
  BY <1>0, <1>1 DEF RepliesStored, UploadsOK, Item
<1>2. ASSUME UNCHANGED <<upVars, fileVars>> PROVE RepliesStored'
  BY <1>2 DEF upVars, fileVars, RepliesStored
<1>3. ASSUME NEW i \in Item, PutFile(i) PROVE RepliesStored'
  BY <1>0, <1>3 DEF PutFile, RepliesStored, UploadsOK, Item
<1>4. ASSUME NEW i \in Item, DownloadURL(i) \/ DownloadURLFails(i) PROVE RepliesStored'
  <2>1. PICK p : /\ phase' = [phase EXCEPT ![i] = p] /\ file' = file
                 /\ p = "lost" \/ file[i] # "none"
    BY <1>4 DEF DownloadURL, DownloadURLFails, fileVars
  <2> QED
    BY <1>1, <2>1
<1>5. ASSUME NEW i \in Reply, ReadNoRecordings(i) \/ CountRecording(i) PROVE RepliesStored'
  <2>1. PICK p : phase' = [phase EXCEPT ![i] = p] /\ file' = file
    BY <1>5 DEF ReadNoRecordings, CountRecording, fileVars
  <2>2. file[i] # "none"
    BY <1>5 DEF ReadNoRecordings, CountRecording, RepliesStored
  <2> QED
    BY <1>1, <2>1, <2>2 DEF Item
<1>6. ASSUME NEW d \in Device, NEW i \in Item,
             (i \in Story /\ SendStory(d, i)) \/ (i \in Reply /\ SendReply(d, i))
      PROVE  RepliesStored'
  <2>1. phase' = [phase EXCEPT ![i] = "putting"] /\ file' = file
    BY <1>6 DEF SendStory, SendReply, fileVars
  <2> QED
    BY <1>1, <2>1
<1>7. ASSUME NEW s \in Story, EraseFile(s) PROVE RepliesStored'
  BY <1>0, <1>7 DEF EraseFile, RepliesStored, UploadsOK, upVars, Item
<1>8. ASSUME NEW d \in Device, NEW s \in Story, DeleteStory(d, s) PROVE RepliesStored'
  BY <1>8 DEF DeleteStory, RepliesStored, upVars
<1>9. ASSUME NEW d \in Device, Relaunch(d) PROVE RepliesStored'
  BY <1>0, <1>9 DEF Relaunch, RepliesStored, UploadsOK, fileVars, Item
<1>10. ASSUME NEW d \in Device, ServerReceives(d) \/ DeviceHears(d) \/ Reconnect(d)
       PROVE  RepliesStored'
  BY <1>2, <1>10 DEF ServerReceives, DeviceHears, Reconnect
<1>11. ASSUME NEW d \in Device, NEW s \in Story, DidSelectRow(d, s) PROVE RepliesStored'
  BY <1>2, <1>11 DEF DidSelectRow
<1>12. CASE UNCHANGED vars
  BY <1>2, <1>12 DEF vars
<1> QED
  BY <1>3, <1>4, <1>5, <1>6, <1>7, <1>8, <1>9, <1>10, <1>11, <1>12 DEF Next, Item

LEMMA NextBoard == BoardInv /\ [Next]_vars => BoardInv'
BY NextCounter, NextDeletion, NextAudio, NextFormed, NextStored DEF BoardInv, DeletionInv, ListInv

LEMMA CountedStays ==
    ASSUME UploadsOK, NEW i \in Item, NEW p, i \in Reply => p # "done" /\ phase[i] # "done",
           phase' = [phase EXCEPT ![i] = p],
           \A j \in Reply \ {i} : parent'[j] = parent[j] /\ seen'[j] = seen[j]
    PROVE  AllCounted' = AllCounted
<1>1. ASSUME NEW s \in Story PROVE Counted(s)' = Counted(s)
  BY DEF Counted, UploadsOK, Item
<1> QED
  BY <1>1 DEF AllCounted

(* An upload that starts, gets its file, or fails, is a step of the board  *)
(* or shows nothing.                                                       *)
LEMMA UploadSteps ==
    ASSUME BoardInv, NEW i \in Item,
           \/ \E d \in Device : (i \in Story /\ SendStory(d, i)) \/ (i \in Reply /\ SendReply(d, i))
           \/ PutFile(i) \/ DownloadURLFails(i)
           \/ i \in Reply /\ ReadNoRecordings(i)
    PROVE  Board!Store(i) \/ UNCHANGED Board!vars
<1>0. UploadsOK /\ NoFileYet
  BY DEF BoardInv, DeletionInv, ListInv, TypeInv, TypeOK, AudioInv
<1>1. /\ UNCHANGED <<deleted, feed, stories, rows>>
      /\ \A j \in Reply \ {i} : parent'[j] = parent[j] /\ seen'[j] = seen[j]
  BY <1>0 DEF SendStory, SendReply, PutFile, DownloadURLFails, ReadNoRecordings,
              fileVars, dbVars, listVars, UploadsOK, Item
<1>2. PICK p \in {"putting", "linking", "lost", "counting"} : phase' = [phase EXCEPT ![i] = p]
  BY DEF SendStory, SendReply, PutFile, DownloadURLFails, ReadNoRecordings
<1>3. phase[i] # "done"
  BY DEF SendStory, SendReply, PutFile, DownloadURLFails, ReadNoRecordings
<1>4. AllCounted' = AllCounted
  BY <1>0, <1>1, <1>2, <1>3, CountedStays
<1>5. UNCHANGED <<Authored, deleted, Up, Tallies, stories, AllCounted, Shown>>
  <2>1. ASSUME NEW s \in Story, NEW d \in Device
        PROVE  (owner[s] = d /\ phase[s] = "done") <=> (owner'[s] = d /\ phase'[s] = "done")
    <3>1. CASE s = i
      BY <1>0, <1>2, <1>3, <3>1 DEF UploadsOK, Item
    <3>2. CASE s # i
      BY <1>0, <1>2, <3>2 DEF SendStory, SendReply, PutFile, DownloadURLFails, ReadNoRecordings,
                              UploadsOK, Item
    <3> QED
      BY <3>1, <3>2
  <2>2. Authored' = Authored
    BY <2>1 DEF Authored
  <2> QED
    BY <1>1, <1>4, <2>2 DEF Up, Tallies, Shown
<1>6. CASE PutFile(i)
  <2>1. i \notin Stored
    BY <1>0, <1>6 DEF PutFile, NoFileYet, Stored
  <2>2. Stored' = Stored \/ Stored' = Stored \cup {i}
    BY <1>0, <1>6, <2>1 DEF PutFile, Stored, UploadsOK
  <2> QED
    BY <1>5, <2>1, <2>2 DEF Board!Store, Board!vars
<1>7. CASE ~PutFile(i)
  <2>1. file' = file
    BY <1>7 DEF SendStory, SendReply, DownloadURLFails, ReadNoRecordings, fileVars
  <2> QED
    BY <1>5, <2>1 DEF Board!vars, Stored
<1> QED
  BY <1>6, <1>7

LEMMA SaveStep ==
    ASSUME BoardInv, ListInv', NEW i \in Item, DownloadURL(i)
    PROVE  \/ i \in Story /\ Board!Publish(owner[i], i)
           \/ UNCHANGED Board!vars
<1>0. UploadsOK /\ NetworkOK /\ ListsOK /\ TypeOK
  BY DEF BoardInv, DeletionInv, ListInv, TypeInv, TypeOK
<1>1. /\ owner[i] \in Device /\ Writes(owner[i], <<SaveOp(i)>>) /\ file[i] = "stored"
      /\ UNCHANGED <<deleted, feed, stories, file, owner>> /\ phase[i] = "linking"
      /\ phase' = [phase EXCEPT ![i] = IF i \in Story THEN "done" ELSE "reading"]
  BY <1>0 DEF DownloadURL, UploadsOK, SaveOp, fileVars, dbVars
<1>2. SaveOp(i) \in Write
  BY FeedAssumption, OpTypes, 0 \in Nat DEF Item, SaveOp
<1>3. AllCounted' = AllCounted
  <2> DEFINE p == IF i \in Story THEN "done" ELSE "reading"
  <2>1. phase' = [phase EXCEPT ![i] = p] /\ (i \in Reply => p # "done")
    BY FeedAssumption DEF DownloadURL, FeedAssumption
  <2> HIDE DEF p
  <2>2. UNCHANGED <<parent, seen>>
    BY DEF DownloadURL
  <2> QED
    BY <1>0, <1>1, <2>1, <2>2, CountedStays
<1>4. UNCHANGED <<Stored, deleted, Up, Tallies, stories, AllCounted>>
  BY <1>1, <1>3 DEF Stored, Up, Tallies
<1>5. ListOfFeedEvents(owner[i], Visible(owner[i]), Applied(Visible(owner[i]), SaveOp(i)))
  BY <1>0, <1>1, <1>2, WriteSeen
<1>6. Visible(owner[i]) \in [Story -> Node]
  BY <1>0, <1>1, VisibleType
<1>7. CASE i \in Story
  <2>1. Publishes(SaveOp(i), i)
    BY <1>7 DEF SaveOp, Publishes, PublishOp
  <2>2. Shown' = Shown \/ Shown' = [Shown EXCEPT ![owner[i]] = Shown[owner[i]] \cup {i}]
    BY <1>0, <1>1, <1>2, <1>5, <1>6, <1>7, <2>1, ListShown
  <2>3. i \in Shown'[owner[i]]
    <3>1. i \notin deleted'
      BY <1>1, <1>7 DEF BoardInv, DeletionInv, Past
    <3>2. PICK d \in Device : d = owner[i]
      BY <1>1
    <3>3. Followed(d, i)'
      BY <1>7, <3>1, ListFollowNext DEF OthersFollow
    <3>4. Visible(d)' = Applied(Visible(d), SaveOp(i))
      BY <1>0, <1>1, <1>2, <3>2, WriteSeen
    <3>5. Visible(d)'[i].body
      <4>1. PICK w : w = SaveOp(i)
        OBVIOUS
      <4>2. w.op = "publish" /\ w.id = i
        BY <2>1, <4>1 DEF Publishes
      <4>3. Applied(Visible(d), w)[i].body = TRUE
        BY <1>7, <4>2 DEF Applied, FeedOps
      <4> QED
        BY <3>4, <4>1, <4>3
    <3>6. rows'[d][i].count > 0
      BY <3>3, <3>5 DEF Followed
    <3> QED
      BY <1>7, <3>2, <3>6 DEF Shown
  <2>4. Shown' = [Shown EXCEPT ![owner[i]] = Shown[owner[i]] \cup {i}]
    <3>1. Shown \in [Device -> SUBSET Story]
      BY DEF Shown
    <3> QED
      BY <1>1, <2>2, <2>3, <3>1
  <2>5. i \in Stored
    BY <1>1 DEF Stored
  <2>6. \A e \in Device : i \notin Authored[e]
    BY <1>1 DEF Authored
  <2>7. Authored' = [Authored EXCEPT ![owner[i]] = Authored[owner[i]] \cup {i}]
    <3>1. Authored \in [Device -> SUBSET Story] /\ Authored' \in [Device -> SUBSET Story]
      BY DEF Authored
    <3>2. \A e \in Device, s \in Story :
             s \in Authored'[e] <=> s \in Authored[e] \/ (s = i /\ e = owner[i])
      BY <1>0, <1>1, <1>7 DEF Authored, UploadsOK, Item
    <3> QED
      BY <1>1, <1>7, <3>1, <3>2
  <2> QED
    BY <1>4, <1>7, <2>4, <2>5, <2>6, <2>7 DEF Board!Publish
<1>8. CASE i \notin Story
  <2>1. SaveOp(i).op \notin FeedOps
    BY <1>8 DEF SaveOp, ReplyOp, FeedOps
  <2>2. Shown' = Shown
    BY <1>0, <1>1, <1>2, <1>5, <1>6, <2>1, ListShown
  <2>3. Authored' = Authored
    BY <1>0, <1>1, <1>8 DEF Authored, UploadsOK, Item
  <2> QED
    BY <1>4, <2>2, <2>3 DEF Board!vars
<1> QED
  BY <1>7, <1>8

LEMMA CountStep ==
    ASSUME BoardInv, NEW i \in Reply, CountRecording(i)
    PROVE  (parent[i] \in Story /\ Board!Count(parent[i], i)) \/ UNCHANGED Board!vars
<1>0. UploadsOK /\ NetworkOK /\ ListsOK /\ TypeOK /\ RepliesStored
  BY DEF BoardInv, DeletionInv, ListInv, TypeInv, TypeOK
<1>1. /\ owner[i] \in Device /\ parent[i] \in Story /\ seen[i] \in Nat \cup {Absent}
      /\ Writes(owner[i], CountOps(i)) /\ phase[i] = "counting"
      /\ UNCHANGED <<owner, deleted, feed, stories, file, parent, seen>>
      /\ phase' = [phase EXCEPT ![i] = "done"]
  BY <1>0 DEF CountRecording, UploadsOK, Item, CountOps, fileVars, dbVars
<1>2. UNCHANGED <<Stored, Authored, deleted, Up, Tallies, stories>>
  <2>1. \A s \in Story : phase'[s] = phase[s]
    BY <1>0, <1>1, FeedAssumption DEF UploadsOK, Item, FeedAssumption
  <2> QED
    BY <1>1, <2>1 DEF Stored, Authored, Up, Tallies
<1>3. CASE seen[i] = Absent
  <2>1. \A s \in Story : Counted(s)' = Counted(s)
    BY <1>0, <1>1, <1>3 DEF Counted, UploadsOK, Item
  <2>2. AllCounted' = AllCounted
    BY <2>1 DEF AllCounted
  <2>3. Shown' = Shown
    <3>1. out[owner[i]] \in Seq(Write) /\ CountOps(i) = <<>>
      BY <1>0, <1>1, <1>3 DEF NetworkOK, CountOps
    <3>2. out[owner[i]] \o CountOps(i) = out[owner[i]]
      BY <3>1
    <3>3. ListOfFeedEvents(owner[i], Visible(owner[i]), Visible(owner[i]))
      BY <1>1, <3>2 DEF Writes, Visible
    <3>4. \A d \in Device, s \in Story : rows'[d][s].count = rows[d][s].count
      BY <1>0, <1>1, <3>3 DEF ListOfFeedEvents, ListsOK, RowAfter, Added, Removed
    <3> QED
      BY <3>4 DEF Shown
  <2> QED
    BY <1>2, <2>2, <2>3 DEF Board!vars
<1>4. CASE seen[i] # Absent
  <2> DEFINE w == CountOp(parent[i], seen[i] + 1)
  <2>1. w \in Write /\ w.op = "count" /\ w.n # Absent
    <3>1. seen[i] + 1 \in Nat
      BY <1>1, <1>4
    <3>2. w \in Write
      BY <1>1, <3>1, OpTypes
    <3> QED
      BY <3>1, <3>2 DEF CountOp, Absent
  <2>2. Writes(owner[i], <<w>>)
    BY <1>1, <1>4 DEF CountOps
  <2> HIDE DEF w
  <2>3. Shown' = Shown
    <3>1. ListOfFeedEvents(owner[i], Visible(owner[i]), Applied(Visible(owner[i]), w))
      BY <1>0, <1>1, <2>1, <2>2, WriteSeen
    <3>2. Visible(owner[i]) \in [Story -> Node]
      BY <1>0, <1>1, VisibleType
    <3> QED
      BY <1>0, <1>1, <2>1, <3>1, <3>2, ListShown
  <2>4. i \in Stored
    BY <1>0, <1>1 DEF RepliesStored, Stored, Item
  <2>5. \A t \in Story : i \notin AllCounted[t]
    BY <1>1 DEF AllCounted, Counted
  <2>6. AllCounted' = [AllCounted EXCEPT ![parent[i]] = AllCounted[parent[i]] \cup {i}]
    <3>1. \A s \in Story : Counted(s)' = IF s = parent[i] THEN Counted(s) \cup {i} ELSE Counted(s)
      BY <1>0, <1>1, <1>4 DEF Counted, UploadsOK, Item
    <3> QED
      BY <3>1 DEF AllCounted
  <2> QED
    BY <1>1, <1>2, <2>3, <2>4, <2>5, <2>6 DEF Board!Count
<1> QED
  BY <1>3, <1>4

LEMMA AgreeStep ==
    ASSUME BoardInv, NEW d \in Device, NEW s \in Story, DeleteStory(d, s)
    PROVE  Board!Agree(d, s)
<1>0. NetworkOK /\ ListsOK
  BY DEF BoardInv, DeletionInv, ListInv, TypeInv, TypeOK
<1>1. /\ Writes(d, DeleteOps(s)) /\ owner[s] = d /\ deleted' = deleted \cup {s}
      /\ rows[d][s].count > 0
      /\ UNCHANGED <<feed, stories, file, phase, owner, parent, seen>>
  BY DEF DeleteStory, DeleteOps, upVars, dbVars
<1>2. ListOfFeedEvents(d, Visible(d), Applied(Visible(d), RemoveOp(s)))
  BY <1>0, <1>1, DeleteSeen
<1>3. Visible(d)[s].body
  <2>1. rows[d][s].count = IF Visible(d)[s].body THEN 1 ELSE 0
    BY <1>1 DEF BoardInv, DeletionInv, AuthorsFollow, Followed
  <2> QED
    BY <1>1, <2>1
<1>4. /\ Visible(d) \in [Story -> Node] /\ RemoveOp(s) \in Write
      /\ RemoveOp(s).op = "remove" /\ RemoveOp(s).id = s /\ RemoveOp(s).n = Absent
  BY <1>0, VisibleType, OpTypes, 0 \in Nat DEF RemoveOp
<1>5. Shown' = [Shown EXCEPT ![d] = Shown[d] \ {s}]
  BY <1>0, <1>2, <1>3, <1>4, ListShown
<1>6. UNCHANGED <<Stored, Authored, Up, Tallies, stories, AllCounted>>
  BY <1>1 DEF Stored, Authored, Up, Tallies, AllCounted, Counted
<1>7. s \in Shown[d] \cap Authored[d]
  <2>1. phase[s] = "done"
    BY <1>1, FeedAssumption DEF BoardInv, DeletionInv, AllBacked, RowsBacked, Past, FeedAssumption
  <2> QED
    BY <1>1, <2>1 DEF Shown, Authored
<1> QED
  BY <1>1, <1>5, <1>6, <1>7 DEF Board!Agree

(* The server's step is that of the write it applies. *)
LEMMA ServerSteps ==
    ASSUME BoardInv, NEW d \in Device, ServerReceives(d)
    PROVE  \/ \E s \in Story : Board!Post(s) \/ Board!Tally(s) \/ Board!Withdraw(s) \/ Board!Clear(s)
           \/ \E s \in Story, i \in Reply : Board!Attach(s, i)
<1>0. UploadsOK /\ ServerOK /\ NetworkOK
  BY DEF BoardInv, DeletionInv, ListInv, TypeInv, TypeOK
<1> DEFINE w == Sent(d)
<1>1. /\ w \in Write /\ arrived[d] + 1 \in 1..Len(out[d]) /\ feed' = Applied(feed, w)
  BY <1>0, SentFacts
<1>2. w \in FormedOp /\ w \in AgreedOp(deleted) /\ w \in WithinOp(Counts) /\ Backed(w, HasAudio)
  BY <1>1 DEF BoardInv, DeletionInv, ListInv, CounterInv, AudioInv, AllWithin, AllBacked, QueuesBacked,
              QueuesIn, Sent
<1>3. /\ stories' = [s \in Story |->
                       IF w.op = "reply" /\ parent[w.id] = s THEN stories[s] \cup {w.id}
                       ELSE IF w.op = "clear" /\ w.id = s THEN {} ELSE stories[s]]
      /\ UNCHANGED <<deleted, file, rows, phase, owner, parent, seen>>
  BY DEF ServerReceives, Sent, fileVars, listVars, upVars
<1> HIDE DEF w
<1>4. UNCHANGED <<Stored, Authored, deleted, AllCounted, Shown>>
  BY <1>3 DEF Stored, Authored, AllCounted, Counted, Shown
<1>5. w.op \in FeedOps \/ w.op \in {"reply", "clear"}
  BY <1>1 DEF Write
<1>6. stories \in [Story -> SUBSET Reply] /\ feed \in [Story -> Node]
  BY <1>0 DEF ServerOK
<1>7. \A s \in Story : Touches(w, s) =>
          /\ feed'[s].body = (IF w.op = "count" THEN feed[s].body ELSE w.op = "publish")
          /\ feed'[s].n = w.n
          /\ \A t \in Story \ {s} : feed'[t] = feed[t]
          /\ Tallies' = [Tallies EXCEPT ![s] = w.n]
          /\ stories' = stories
  <2> SUFFICES ASSUME NEW s \in Story, Touches(w, s)
               PROVE  /\ feed'[s].body = (IF w.op = "count" THEN feed[s].body ELSE w.op = "publish")
                      /\ feed'[s].n = w.n
                      /\ \A t \in Story \ {s} : feed'[t] = feed[t]
                      /\ Tallies' = [Tallies EXCEPT ![s] = w.n]
                      /\ stories' = stories
    OBVIOUS
  <2>1. /\ feed'[s].body = (IF w.op = "count" THEN feed[s].body ELSE w.op = "publish")
        /\ feed'[s].n = w.n
        /\ \A t \in Story \ {s} : feed'[t] = feed[t]
    BY <1>1 DEF Touches, Applied
  <2>2. Tallies' = [Tallies EXCEPT ![s] = w.n]
    BY <2>1 DEF Tallies
  <2>3. stories' = stories
    BY <1>3, <1>6 DEF Touches, FeedOps
  <2> QED
    BY <2>1, <2>2, <2>3
<1>8. CASE w.op = "publish"
  <2>1. PICK s \in Story : Touches(w, s)
    BY <1>1, <1>8 DEF Write, Touches, FeedOps, Item
  <2>2. s \in Stored /\ w.n = 0
    BY <1>2, <1>8, <2>1 DEF Backed, HasAudio, Stored, FormedOp, Touches
  <2>3. Up' = Up \cup {s}
    <3>1. feed'[s].body = TRUE /\ \A t \in Story \ {s} : feed'[t] = feed[t]
      <4>1. w.op # "count"
        BY <1>8
      <4> QED
        BY <1>7, <1>8, <2>1, <4>1
    <3> QED
      BY <3>1 DEF Up
  <2>4. Board!Post(s)
    BY <1>4, <1>7, <2>1, <2>2, <2>3 DEF Board!Post
  <2> QED
    BY <2>4
<1>9. CASE w.op = "count"
  <2>1. PICK s \in Story : Touches(w, s)
    BY <1>1, <1>9 DEF Write, Touches, FeedOps, Item
  <2>2. w.n \in Nat \ {0} /\ w.n <= Counts[s]
    BY <1>2, <1>9, <2>1 DEF FormedOp, WithinOp, Touches
  <2>3. Counts[s] = Cardinality(AllCounted[s]) /\ Counts[s] \in Nat
    BY FeedAssumption, FS_Subset, FS_CardinalityType DEF FeedAssumption, Counts, AllCounted, Counted
  <2>4. w.n \in 1..Cardinality(AllCounted[s])
    BY <2>2, <2>3
  <2>5. Up' = Up
    BY <1>7, <1>9, <2>1 DEF Up
  <2>6. Tallies' = [Tallies EXCEPT ![s] = w.n] /\ UNCHANGED <<Stored, Authored, deleted, stories, AllCounted, Shown>>
    BY <1>4, <1>7, <2>1
  <2>7. Board!Tally(s)
    <3>1. PICK n : n = w.n
      OBVIOUS
    <3>2. n \in 1..Cardinality(AllCounted[s]) /\ Tallies' = [Tallies EXCEPT ![s] = n]
      BY <2>4, <2>6, <3>1
    <3>3. Board!Cardinality(AllCounted[s]) = Cardinality(AllCounted[s])
      BY DEF Board!Cardinality, Cardinality
    <3> QED
      BY <2>5, <2>6, <3>2, <3>3 DEF Board!Tally
  <2> QED
    BY <2>7
<1>10. CASE w.op = "remove"
  <2>1. PICK s \in Story : Touches(w, s)
    BY <1>1, <1>10 DEF Write, Touches, FeedOps, Item
  <2>2. s \in deleted /\ w.n = -1
    BY <1>2, <1>10, <2>1 DEF AgreedOp, FormedOp, Touches, Absent
  <2>3. Up' = Up \ {s}
    BY <1>7, <1>10, <2>1 DEF Up
  <2>4. Board!Withdraw(s)
    BY <1>4, <1>7, <2>1, <2>2, <2>3 DEF Board!Withdraw
  <2> QED
    BY <2>4
<1>11. CASE w.op \in {"reply", "clear"}
  <2>1. feed' = feed
    <3>1. feed' = [s \in Story |-> feed[s]]
      BY <1>1, <1>11 DEF Applied, FeedOps
    <3> QED
      BY <1>6, <3>1
  <2>2. UNCHANGED <<Up, Tallies>>
    BY <2>1 DEF Up, Tallies
  <2>3. CASE w.op = "reply"
    <3>1. w.id \in Reply /\ w.id \in Stored
      BY <1>1, <1>2, <2>3 DEF Write, Backed, HasAudio, Stored
    <3>2. parent[w.id] \in Story
      <4>1. phase[w.id] # "unused"
        BY <3>1 DEF BoardInv, AudioInv, NoFileYet, Stored
      <4> QED
        BY <1>0, <3>1, <4>1 DEF UploadsOK
    <3>3. stories' = [stories EXCEPT ![parent[w.id]] = stories[parent[w.id]] \cup {w.id}]
      BY <1>3, <1>6, <2>3, <3>2
    <3>4. Board!Attach(parent[w.id], w.id)
      BY <1>4, <2>2, <3>1, <3>3 DEF Board!Attach
    <3> QED
      BY <3>1, <3>2, <3>4
  <2>4. CASE w.op = "clear"
    <3>1. w.id \in Story /\ w.id \in deleted
      BY <1>1, <1>2, <2>4 DEF Write, Item, AgreedOp
    <3>2. stories' = [stories EXCEPT ![w.id] = {}]
      BY <1>3, <1>6, <2>4, <3>1
    <3>3. Board!Clear(w.id)
      BY <1>4, <2>2, <3>1, <3>2 DEF Board!Clear
    <3> QED
      BY <3>1, <3>3
  <2> QED
    BY <1>11, <2>3, <2>4
<1> QED
  BY <1>5, <1>8, <1>9, <1>10, <1>11 DEF FeedOps

(* What a device hears of shows it what is on the board, and takes away    *)
(* only what was agreed to be deleted.                                     *)
LEMMA RefreshSteps ==
    ASSUME BoardInv, [Next]_vars, NEW d \in Device, DeviceHears(d) \/ Reconnect(d)
    PROVE  Board!Refresh(d)
<1>0. TypeInv /\ NetworkOK /\ ListsOK /\ AnswersInOrder
  BY DEF BoardInv, DeletionInv, ListInv, TypeInv, TypeOK
<1>1. UNCHANGED <<deleted, file, feed, stories, phase, owner, parent, seen>>
  BY DEF DeviceHears, Reconnect, fileVars, upVars, dbVars
<1>2. UNCHANGED <<Stored, Authored, deleted, Up, Tallies, stories, AllCounted>>
  BY <1>1 DEF Stored, Authored, Up, Tallies, AllCounted, Counted
<1>3. \A e \in Device \ {d} : rows'[e] = rows[e]
  BY <1>0 DEF DeviceHears, Reconnect, ListOfFeedEvents, ListsOK
<1>4. ASSUME NEW s \in Story, s \notin deleted
      PROVE  /\ s \in Shown[d] => s \in Shown'[d]
             /\ s \in Shown'[d] => s \in Shown[d] \/ s \in Up
  <2>1. StoryWhole(s) /\ QueuesIn(KeepingOp(s)) /\ NetworkOK'
    BY <1>0, <1>4, NextTypes DEF BoardInv, DeletionInv, ListInv, QueuesIn, AgreedOp, KeepingOp, TypeInv, TypeOK
  <2>2. StoryWhole(s)' /\ (Known(d, s) => Known(d, s)')
    BY <1>0, <2>1, HearsWhole, ResetWhole
  <2>3. s \in Shown[d] <=> Known(d, s)
    <3>1. RowIs(rows[d][s], Visible(d)[s])
      BY <2>1 DEF StoryWhole, DeviceWhole
    <3>2. Visible(d)[s].body <=> Known(d, s)
      BY <1>0, <2>1, VisibleWhole DEF StoryWhole
    <3> QED
      BY <3>1, <3>2 DEF RowIs, Shown
  <2>4. s \in Shown'[d] <=> Known(d, s)'
    <3>1. RowIs(rows[d][s], Visible(d)[s])'
      BY <2>2 DEF StoryWhole, DeviceWhole
    <3>2. cache'[d] \in [Story -> Node] /\ out'[d] \in Seq(Write)
      BY <2>1 DEF NetworkOK
    <3>3. QueuesIn(KeepingOp(s))'
      BY <1>0, <2>1, HearsIn, ResetIn
    <3>4. View(cache'[d], out'[d])[s].body <=>
              cache'[d][s].body \/ \E k \in 1..Len(out'[d]) : Publishes(out'[d][k], s)
      BY <3>2, <3>3, ViewBody DEF QueuesIn
    <3>5. (Visible(d)[s].body)' <=> Known(d, s)'
      BY <3>4 DEF Visible, Known
    <3> QED
      BY <3>1, <3>5 DEF RowIs, Shown
  <2>5. Known(d, s)' => Known(d, s) \/ s \in Up
    <3>1. cache'[d][s].body => s \in Up
      BY <1>1, <2>2 DEF StoryWhole, DeviceWhole, Up
    <3>2. \A k \in 1..Len(out'[d]) : \E j \in 1..Len(out[d]) : out'[d][k] = out[d][j]
      <4>1. CASE Reconnect(d)
        BY <4>1 DEF Reconnect
      <4>2. CASE DeviceHears(d)
        <5>1. /\ out'[d] = Kept(d) /\ Len(out[d]) \in Nat /\ Len(Kept(d)) = Len(out[d]) - Shift(d)
              /\ \A k \in 1..Len(Kept(d)) : Kept(d)[k] = out[d][k + Shift(d)]
          BY <1>0, <4>2, HearFacts DEF NetworkOK
        <5>2. ASSUME NEW k \in 1..Len(Kept(d)) PROVE k + Shift(d) \in 1..Len(out[d])
          BY <5>1 DEF Shift
        <5> QED
          BY <5>1, <5>2
      <4> QED
        BY <4>1, <4>2
    <3> QED
      BY <3>1, <3>2 DEF Known
  <2> QED
    BY <2>2, <2>3, <2>4, <2>5
<1>5. Shown \in [Device -> SUBSET Story] /\ Shown' \in [Device -> SUBSET Story]
  BY DEF Shown
<1>6. PICK list : list = Shown'[d]
  OBVIOUS
<1>7. /\ list \in SUBSET Story
      /\ list \ Shown[d] \subseteq Up \cup deleted
      /\ Shown[d] \ list \subseteq deleted
  BY <1>4, <1>5, <1>6
<1>8. Shown' = [Shown EXCEPT ![d] = list]
  <2>1. \A e \in Device \ {d} : Shown'[e] = Shown[e]
    BY <1>3 DEF Shown
  <2> QED
    BY <1>5, <1>6, <2>1
<1> QED
  BY <1>2, <1>7, <1>8 DEF Board!Refresh

LEMMA RelaunchStep ==
    ASSUME BoardInv, NEW d \in Device, Relaunch(d)
    PROVE  Board!Relaunch(d)
<1>0. UploadsOK /\ ListsOK /\ NetworkOK
  BY DEF BoardInv, DeletionInv, ListInv, TypeInv, TypeOK
<1>1. UNCHANGED <<deleted, file, feed, stories, owner, parent, seen>>
  BY DEF Relaunch, fileVars, dbVars
<1>2. \A s \in Story : Counted(s)' = Counted(s)
  BY <1>0, <1>1 DEF Relaunch, Counted, UploadsOK, Item
<1>3. UNCHANGED <<Stored, Authored, deleted, Up, Tallies, stories, AllCounted>>
  <2>1. \A s \in Story : phase'[s] = "done" <=> phase[s] = "done"
    BY <1>0 DEF Relaunch, UploadsOK, Item
  <2>2. Authored' = Authored
    BY <1>1, <2>1 DEF Authored
  <2> QED
    BY <1>1, <1>2, <2>2 DEF Stored, Up, Tallies, AllCounted
<1>4. Shown' = [Shown EXCEPT ![d] = Up]
  <2>1. \A e \in Device \ {d} : rows'[e] = rows[e]
    BY <1>0 DEF Relaunch, ListsOK
  <2>2. \A s \in Story : rows'[d][s].count = IF feed[s].body THEN 1 ELSE 0
    BY <1>0 DEF Relaunch, ListsOK
  <2>3. Shown \in [Device -> SUBSET Story] /\ Shown' \in [Device -> SUBSET Story]
    BY DEF Shown
  <2>4. Shown'[d] = Up
    BY <2>2 DEF Shown, Up
  <2>5. \A e \in Device \ {d} : Shown'[e] = Shown[e]
    BY <2>1 DEF Shown
  <2> QED
    BY <2>3, <2>4, <2>5
<1>5. ASSUME NEW s \in Shown[d], s \notin Up, s \notin deleted PROVE s \in Authored[d]
  <2>1. s \in Story /\ rows[d][s].count > 0 /\ ~feed[s].body
    BY <1>5 DEF Shown, Up
  <2>2. DeviceWhole(d, s) /\ QueuesIn(KeepingOp(s))
    BY <1>5, <2>1 DEF BoardInv, DeletionInv, ListInv, StoryWhole, QueuesIn, AgreedOp, KeepingOp
  <2>3. Known(d, s)
    BY <1>0, <2>1, <2>2, VisibleWhole DEF DeviceWhole, RowIs
  <2>4. ~cache[d][s].body
    BY <2>1, <2>2 DEF DeviceWhole
  <2>5. PICK k \in 1..Len(out[d]) : Publishes(out[d][k], s)
    BY <2>3, <2>4 DEF Known
  <2>6. out[d][k] \in OwnOp(owner, d) /\ Backed(out[d][k], Past)
    BY DEF BoardInv, DeletionInv, OwnQueues, AllBacked, QueuesBacked
  <2>7. owner[s] = d /\ s \in Past
    BY <2>5, <2>6 DEF OwnOp, Backed, Publishes
  <2>8. phase[s] = "done"
    BY <2>1, <2>7, FeedAssumption DEF Past, FeedAssumption
  <2> QED
    BY <2>1, <2>7, <2>8 DEF Authored
<1>6. Shown[d] \ Up \subseteq deleted \cup Authored[d]
  BY <1>5
<1> QED
  BY <1>3, <1>4, <1>6 DEF Board!Relaunch

\* The steps of the board that no killed app takes.
BoardGoesOn ==
    \/ \E i \in Item : Board!Store(i)
    \/ \E s \in Story, i \in Reply : Board!Attach(s, i) \/ Board!Count(s, i)
    \/ \E s \in Story : Board!Post(s) \/ Board!Tally(s) \/ Board!Withdraw(s) \/ Board!Clear(s)
    \/ \E d \in Device, s \in Story : Board!Publish(d, s) \/ Board!Agree(d, s)
    \/ \E d \in Device : Board!Refresh(d)
    \/ UNCHANGED Board!vars

(* Only the app that is killed takes the board's Relaunch. *)
LEMMA StepOnBoard ==
    BoardInv /\ [Next]_vars => BoardGoesOn \/ \E d \in Device : Relaunch(d) /\ Board!Relaunch(d)
<1> SUFFICES ASSUME BoardInv, [Next]_vars
             PROVE  BoardGoesOn \/ \E d \in Device : Relaunch(d) /\ Board!Relaunch(d)
  OBVIOUS
<1>0. UploadsOK
  BY DEF BoardInv, DeletionInv, ListInv, TypeInv, TypeOK
<1>1. ASSUME NEW i \in Item,
             \/ \E d \in Device : (i \in Story /\ SendStory(d, i)) \/ (i \in Reply /\ SendReply(d, i))
             \/ PutFile(i) \/ DownloadURLFails(i)
             \/ i \in Reply /\ ReadNoRecordings(i)
      PROVE  BoardGoesOn
  BY <1>1, UploadSteps DEF BoardGoesOn, Item
<1>2. ASSUME NEW i \in Item, DownloadURL(i) PROVE BoardGoesOn
  <2>1. owner[i] \in Device
    BY <1>0, <1>2 DEF DownloadURL, UploadsOK
  <2>2. ListInv'
    BY NextList DEF BoardInv, DeletionInv
  <2> QED
    BY <1>2, <2>1, <2>2, SaveStep DEF BoardGoesOn
<1>3. ASSUME NEW i \in Reply, CountRecording(i) PROVE BoardGoesOn
  BY <1>3, CountStep DEF BoardGoesOn
<1>4. ASSUME NEW d \in Device, NEW s \in Story, DeleteStory(d, s) PROVE BoardGoesOn
  BY <1>4, AgreeStep DEF BoardGoesOn
<1>5. ASSUME NEW d \in Device, ServerReceives(d) PROVE BoardGoesOn
  BY <1>5, ServerSteps DEF BoardGoesOn
<1>6. ASSUME NEW d \in Device, DeviceHears(d) \/ Reconnect(d) PROVE BoardGoesOn
  BY <1>6, RefreshSteps DEF BoardGoesOn
<1>7. ASSUME NEW d \in Device, Relaunch(d) PROVE Relaunch(d) /\ Board!Relaunch(d)
  BY <1>7, RelaunchStep
<1>8. ASSUME NEW s \in Story, EraseFile(s) PROVE BoardGoesOn
  <2>1. Stored' = Stored
    BY <1>0, <1>8 DEF EraseFile, Stored, UploadsOK
  <2>2. UNCHANGED <<Authored, deleted, Up, Tallies, stories, AllCounted, Shown>>
    BY <1>8 DEF EraseFile, upVars, dbVars, listVars, Authored, Up, Tallies, AllCounted, Counted, Shown
  <2> QED
    BY <2>1, <2>2 DEF BoardGoesOn, Board!vars
<1>9. ASSUME NEW d \in Device, NEW s \in Story, DidSelectRow(d, s) PROVE UNCHANGED Board!vars
  BY <1>9 DEF DidSelectRow, upVars, fileVars, dbVars, listVars, Board!vars, Stored, Authored, Up, Tallies,
              AllCounted, Counted, Shown
<1>10. ASSUME UNCHANGED vars PROVE UNCHANGED Board!vars
  BY <1>10 DEF vars, upVars, fileVars, dbVars, listVars, Board!vars, Stored, Authored, Up, Tallies,
               AllCounted, Counted, Shown
<1> QED
  BY <1>1, <1>2, <1>3, <1>4, <1>5, <1>6, <1>7, <1>8, <1>9, <1>10 DEF Next, Item, BoardGoesOn

LEMMA BoardStep == BoardInv /\ [Next]_vars => [Board!Next]_(Board!vars)
<1>1. BoardGoesOn => [Board!Next]_(Board!vars)
  BY DEF BoardGoesOn, Board!Next, Item
<1>2. ASSUME NEW d \in Device, Board!Relaunch(d) PROVE Board!Next
  BY <1>2 DEF Board!Next
<1> QED
  BY <1>1, <1>2, StepOnBoard

LEMMA InitBoard == Init => BoardInv
<1> SUFFICES ASSUME Init PROVE BoardInv
  OBVIOUS
<1>1. CounterInv /\ DeletionInv
  BY InitCounter, InitDeletion
<1>2. AudioInv
  <2>1. NoFileYet /\ QueuesBacked(HasAudio)
    BY DEF Init, NoFileYet, QueuesBacked
  <2>2. ServerBacked(HasAudio) /\ CachesBacked(HasAudio) /\ RowsBacked(HasAudio)
    BY DEF Init, ServerBacked, CachesBacked, RowsBacked, Gone
  <2> QED
    BY <2>1, <2>2, InitTypes DEF AudioInv, AllBacked
<1>3. QueuesIn(FormedOp) /\ RepliesStored
  BY DEF Init, QueuesIn, RepliesStored, Item
<1> QED
  BY <1>1, <1>2, <1>3 DEF BoardInv

(* The feed, with all its callbacks, queues, repeated and forgotten        *)
(* writes, is a board, for any number of devices, stories, replies and     *)
(* faults: the server drops only stories whose author agreed, lists lose   *)
(* those and, when an app is killed, its own user's unsent ones, a reply   *)
(* is counted once, and the board states no more recordings than were      *)
(* counted.                                                                *)
THEOREM FeedIsBoard == Spec => ImplementsBoard
<1>1. Init => Board!Init
  BY DEF Init, Board!Init, Stored, Authored, Up, Tallies, AllCounted, Counted, Shown, Gone, Absent,
         Item
<1> QED
  BY <1>1, InitBoard, NextBoard, BoardStep, PTL DEF Spec, ImplementsBoard, Board!Spec

-----------------------------------------------------------------------------
(* Nothing is missed, nothing is lost *)

\* The server's story is on every list or on its way there.
OnEveryList ==
    \A s \in Story : feed[s].body =>
        s \in deleted \/ \A d \in Device : rows[d][s].count = 1 \/ OnItsWay(d, s)

(* No device misses a story: whatever connections are lost and apps        *)
(* killed, a story the server has is listed by each device or is in the    *)
(* queue of what it is going to hear, unless it was deleted.               *)
THEOREM NothingIsMissed == Spec => []OnEveryList
<1>1. ListInv => OnEveryList
  <2> SUFFICES ASSUME ListInv, NEW s \in Story, feed[s].body, s \notin deleted,
                      NEW d \in Device, ~OnItsWay(d, s)
               PROVE  rows[d][s].count = 1
    BY DEF OnEveryList
  <2>1. NetworkOK /\ DeviceWhole(d, s) /\ QueuesIn(AgreedOp(deleted))
    BY DEF ListInv, TypeInv, TypeOK, StoryWhole
  <2>2. QueuesIn(KeepingOp(s))
    BY <2>1 DEF QueuesIn, AgreedOp, KeepingOp
  <2>3. cache[d][s].body
    BY <2>1 DEF DeviceWhole
  <2>4. Visible(d)[s].body
    BY <2>1, <2>2, <2>3, VisibleWhole DEF Known
  <2> QED
    BY <2>1, <2>4 DEF DeviceWhole, RowIs
<1> QED
  BY <1>1, InitList, NextList, PTL DEF Spec

\* What no step takes away: recordings, publications, agreements, counted
\* replies; stories and replies of the server and rows of a list, unless their
\* author agreed.  One exception: the list of an app that is killed becomes the
\* server's, and may lose its own user's stories that the server does not have.
Keeps ==
    /\ Stored \subseteq Stored' /\ deleted \subseteq deleted'
    /\ Up \ Up' \subseteq deleted
    /\ \A s \in Story :
        /\ AllCounted[s] \subseteq AllCounted'[s]
        /\ stories[s] \subseteq stories'[s] \/ s \in deleted
    /\ \A d \in Device :
        /\ Authored[d] \subseteq Authored'[d]
        /\ \/ Shown[d] \ Shown'[d] \subseteq deleted'
           \/ Relaunch(d) /\ Shown'[d] = Up /\ Shown[d] \ Up \subseteq deleted \cup Authored[d]

\* On the board the sets are functions of the stories and devices.
BoardType ==
    /\ AllCounted \in [Story -> SUBSET Reply]
    /\ stories \in [Story -> SUBSET Reply]
    /\ Shown \in [Device -> SUBSET Story]
    /\ Authored \in [Device -> SUBSET Story]

(* A step of the board takes nothing away. *)
LEMMA BoardKeeps ==
    ASSUME BoardType, BoardGoesOn \/ \E d \in Device : Relaunch(d) /\ Board!Relaunch(d)
    PROVE  Keeps
<1>1. ASSUME UNCHANGED <<Authored, Up, AllCounted, stories, Shown>>,
             Stored \subseteq Stored', deleted \subseteq deleted'
      PROVE  Keeps
  BY <1>1 DEF Keeps
<1>2. ASSUME NEW i \in Story \cup Reply, Board!Store(i) PROVE Keeps
  BY <1>1, <1>2 DEF Board!Store
<1>3. ASSUME NEW s \in Story, NEW i \in Reply, Board!Attach(s, i) \/ Board!Count(s, i)
      PROVE  Keeps
  BY <1>3 DEF Board!Attach, Board!Count, Keeps, BoardType
<1>4. ASSUME NEW s \in Story, Board!Post(s) \/ Board!Withdraw(s) PROVE Keeps
  BY <1>4 DEF Board!Post, Board!Withdraw, Keeps
<1>5. ASSUME NEW s \in Story, Board!Tally(s) PROVE Keeps
  BY <1>1, <1>5 DEF Board!Tally
<1>6. ASSUME NEW s \in Story, Board!Clear(s) PROVE Keeps
  BY <1>6 DEF Board!Clear, Keeps, BoardType
<1>7. ASSUME NEW d \in Device, NEW s \in Story, Board!Publish(d, s) \/ Board!Agree(d, s)
      PROVE  Keeps
  BY <1>7 DEF Board!Publish, Board!Agree, Keeps, BoardType
<1>8. ASSUME NEW d \in Device, Board!Refresh(d) PROVE Keeps
  BY <1>8 DEF Board!Refresh, Keeps, BoardType
<1>9. ASSUME NEW d \in Device, Relaunch(d), Board!Relaunch(d) PROVE Keeps
  BY <1>9 DEF Board!Relaunch, Keeps, BoardType
<1>10. CASE UNCHANGED Board!vars
  BY <1>1, <1>10 DEF Board!vars
<1> QED
  BY <1>2, <1>3, <1>4, <1>5, <1>6, <1>7, <1>8, <1>9, <1>10 DEF BoardGoesOn, Item

(* The callbacks, the queues and the writes sent again lose nothing: since *)
(* they amount to a board, whose steps take nothing away that its author   *)
(* did not agree to, neither do they, for any number of devices, stories,  *)
(* replies and faults.  A killed app takes off its own list, beside what   *)
(* its authors agreed to, what its user published and it had not sent.     *)
THEOREM NothingIsLost == Spec => [][Keeps]_vars
<1>1. BoardInv /\ [Next]_vars => [Keeps]_vars
  <2> SUFFICES ASSUME BoardInv, [Next]_vars PROVE Keeps
    OBVIOUS
  <2>1. BoardType
    <3>1. UploadsOK /\ ServerOK
      BY DEF BoardInv, DeletionInv, ListInv, TypeInv, TypeOK
    <3>2. /\ AllCounted \in [Story -> SUBSET Reply] /\ Shown \in [Device -> SUBSET Story]
          /\ Authored \in [Device -> SUBSET Story]
      BY DEF AllCounted, Counted, Shown, Authored
    <3> QED
      BY <3>1, <3>2 DEF BoardType, ServerOK
  <2> QED
    BY <2>1, StepOnBoard, BoardKeeps
<1> QED
  BY <1>1, InitBoard, NextBoard, PTL DEF Spec

-----------------------------------------------------------------------------
(* Where rows without a story come from *)

CountedStories == {s \in Story : Counted(s) # {}}

\* The writes that count recordings of stories of C alone, and what such writes
\* can make of the server's nodes and of those the devices have heard of.
CountingOp(C) == {w \in FormedOp : w.op = "count" => w.id \in C}
WholeBut(C) ==
    \A s \in Story \ C : NodeWhole(feed[s]) /\ \A d \in Device : NodeWhole(cache[d][s])

LEMMA AppliedUncounted ==
    ASSUME NEW nodes, NEW C, NEW w \in CountingOp(C), NEW s \in Story \ C, NodeWhole(nodes[s])
    PROVE  NodeWhole(Applied(nodes, w)[s])
<1>1. CASE w.op \notin FeedOps \/ w.id # s
  <2>1. Applied(nodes, w)[s] = nodes[s]
    BY <1>1 DEF Applied
  <2> QED
    BY <2>1
<1>2. CASE w.op \in FeedOps /\ w.id = s
  <2>1. w.op \in {"publish", "remove"} /\ (w.op = "remove" => w.n = Absent)
    BY <1>2 DEF CountingOp, FormedOp, FeedOps
  <2>2. /\ Applied(nodes, w)[s].body <=> w.op = "publish"
        /\ Applied(nodes, w)[s].n = w.n
    BY <1>2, <2>1 DEF Applied
  <2> QED
    BY <2>1, <2>2 DEF NodeWhole
<1> QED
  BY <1>1, <1>2

LEMMA ViewUncounted ==
    ASSUME NEW heard, NEW own \in Seq(Write), NEW C, NEW s \in Story \ C, NodeWhole(heard[s]),
           \A k \in 1..Len(own) : own[k] \in CountingOp(C)
    PROVE  NodeWhole(View(heard, own)[s])
<1> DEFINE writes == {k \in 1..Len(own) : own[k].id = s /\ own[k].op \in FeedOps}
           whole  == {k \in writes : own[k].op # "count"}
<1>1. /\ View(heard, own)[s].body = IF whole = {} THEN heard[s].body
                                    ELSE own[Max(whole)].op = "publish"
      /\ View(heard, own)[s].n = IF writes = {} THEN heard[s].n ELSE own[Max(writes)].n
  BY DEF View
<1>2. \A k \in writes : own[k].op \in {"publish", "remove"}
                        /\ (own[k].op = "remove" => own[k].n = Absent)
  BY DEF CountingOp, FormedOp, FeedOps
<1>3. whole = writes
  BY <1>2
<1>4. writes # {} => Max(writes) \in writes
  BY LenProperties, LastPosition
<1> HIDE DEF writes, whole
<1>5. CASE writes = {}
  BY <1>1, <1>3, <1>5 DEF NodeWhole
<1>6. CASE writes # {}
  <2>1. PICK k \in writes : k = Max(writes)
    BY <1>4, <1>6
  <2>2. /\ View(heard, own)[s].body = (own[k].op = "publish")
        /\ View(heard, own)[s].n = own[k].n
    BY <1>1, <1>3, <1>6, <2>1
  <2>3. own[k].op \in {"publish", "remove"} /\ (own[k].op = "remove" => own[k].n = Absent)
    BY <1>2
  <2> QED
    BY <2>2, <2>3 DEF NodeWhole
<1> QED
  BY <1>5, <1>6

\* Nodes change only when the server applies a write or a device hears of one.
LEMMA NodesMove ==
    ASSUME [Next]_vars
    PROVE  \/ UNCHANGED <<feed, cache>>
           \/ \E d \in Device :
                ServerReceives(d) \/ DeviceHears(d) \/ Reconnect(d) \/ Relaunch(d)
<1>1. ASSUME NEW i \in Item, PutFile(i) \/ DownloadURLFails(i) \/ DownloadURL(i)
      PROVE  UNCHANGED <<feed, cache>>
  BY <1>1 DEF PutFile, DownloadURLFails, DownloadURL, Writes, dbVars, netVars
<1>2. ASSUME NEW i \in Reply, ReadNoRecordings(i) \/ CountRecording(i)
      PROVE  UNCHANGED <<feed, cache>>
  BY <1>2 DEF ReadNoRecordings, CountRecording, Writes, dbVars, netVars
<1>3. ASSUME NEW d \in Device, NEW s \in Story,
             SendStory(d, s) \/ DidSelectRow(d, s) \/ DeleteStory(d, s) \/ EraseFile(s)
      PROVE  UNCHANGED <<feed, cache>>
  BY <1>3 DEF SendStory, DidSelectRow, DeleteStory, EraseFile, Writes, dbVars, netVars
<1>4. ASSUME NEW d \in Device, NEW i \in Reply, SendReply(d, i) PROVE UNCHANGED <<feed, cache>>
  BY <1>4 DEF SendReply, dbVars, netVars
<1>5. ASSUME NEW s \in Story, EraseFile(s) PROVE UNCHANGED <<feed, cache>>
  BY <1>5 DEF EraseFile, dbVars, netVars
<1>6. CASE UNCHANGED vars
  BY <1>6 DEF vars, dbVars, netVars
<1> QED
  BY <1>1, <1>2, <1>3, <1>4, <1>5, <1>6 DEF Next

LEMMA NextWholeBut ==
    ASSUME TypeInv, [Next]_vars, NEW C, QueuesIn(CountingOp(C)), WholeBut(C)
    PROVE  WholeBut(C)'
<1>0. NetworkOK
  BY DEF TypeInv, TypeOK
<1>1. CASE UNCHANGED <<feed, cache>>
  BY <1>1 DEF WholeBut
<1>2. ASSUME NEW d \in Device, ServerReceives(d) PROVE WholeBut(C)'
  <2>1. Sent(d) \in CountingOp(C) /\ feed' = Applied(feed, Sent(d)) /\ cache' = cache
    BY <1>0, <1>2, SentFacts DEF QueuesIn, Sent
  <2>2. \A s \in Story \ C : NodeWhole(Applied(feed, Sent(d))[s])
    BY <2>1, AppliedUncounted DEF WholeBut
  <2> QED
    BY <2>1, <2>2 DEF WholeBut, NodeWhole
<1>3. ASSUME NEW d \in Device, DeviceHears(d) PROVE WholeBut(C)'
  <2>1. Told(d) = inbox[d][1] /\ 1 \in 1..Len(inbox[d])
    BY <1>3, HearFacts
  <2>2. Told(d).write \in CountingOp(C)
    BY <2>1 DEF QueuesIn
  <2>3. cache' = [cache EXCEPT ![d] = Heard(d)] /\ feed' = feed
    BY <1>3, HearFacts
  <2>4. \A s \in Story \ C : NodeWhole(Heard(d)[s])
    BY <2>2, AppliedUncounted DEF WholeBut, Heard
  <2>5. \A e \in Device : cache'[e] = cache[e] \/ cache'[e] = Heard(d)
    BY <1>0, <2>3 DEF NetworkOK
  <2> QED
    BY <2>3, <2>4, <2>5 DEF WholeBut, NodeWhole
<1>4. ASSUME NEW d \in Device, Reconnect(d) \/ Relaunch(d) PROVE WholeBut(C)'
  <2>1. cache' = [cache EXCEPT ![d] = feed] /\ feed' = feed
    BY <1>4 DEF Reconnect, Relaunch, dbVars
  <2>2. \A e \in Device : cache'[e] = cache[e] \/ cache'[e] = feed
    BY <1>0, <2>1 DEF NetworkOK
  <2> QED
    BY <2>1, <2>2 DEF WholeBut, NodeWhole
<1> QED
  BY <1>1, <1>2, <1>3, <1>4, NodesMove

LEMMA NextCounting ==
    ASSUME TypeInv, [Next]_vars, NEW C, QueuesIn(CountingOp(C)),
           \A i \in Reply : CountRecording(i) /\ seen[i] # Absent => parent[i] \in C
    PROVE  QueuesIn(CountingOp(C))'
<1>1. ASSUME NEW i \in Item PROVE SaveOp(i) \in CountingOp(C)
  <2>1. SaveOp(i) \in Write
    BY FeedAssumption, OpTypes, 0 \in Nat DEF Item, SaveOp
  <2> QED
    BY <2>1 DEF CountingOp, FormedOp, SaveOp, PublishOp, ReplyOp
<1>2. ASSUME NEW i \in Reply, CountRecording(i), NEW k \in 1..Len(CountOps(i))
      PROVE  CountOps(i)[k] \in CountingOp(C)
  <2>1. seen[i] \in Nat \cup {Absent} /\ parent[i] \in Story
    BY <1>2 DEF CountRecording, TypeInv, TypeOK, UploadsOK, Item
  <2>2. seen[i] # Absent /\ CountOps(i)[k] = CountOp(parent[i], seen[i] + 1)
    BY <1>2 DEF CountOps
  <2>3. seen[i] \in Nat /\ seen[i] + 1 \in Nat \ {0}
    BY <2>1, <2>2
  <2>4. CountOps(i)[k] \in Write
    BY <2>1, <2>2, <2>3, OpTypes
  <2>5. parent[i] \in C
    BY <1>2, <2>2
  <2> QED
    BY <2>2, <2>3, <2>4, <2>5 DEF CountingOp, FormedOp, CountOp
<1>3. ASSUME NEW d \in Device, NEW s \in Story
      PROVE  RemoveOp(s) \in CountingOp(C) /\ ClearOp(s) \in CountingOp(C)
  BY <1>3, OpTypes, 0 \in Nat DEF CountingOp, FormedOp, RemoveOp, ClearOp
<1>4. PICK W : W = CountingOp(C)
  OBVIOUS
<1>5. QueuesIn(W)'
  BY <1>1, <1>2, <1>3, <1>4, NextQueues
<1> QED
  BY <1>4, <1>5 DEF QueuesIn

\* A list gets a row without a uniqueID for a node that has a counter alone.
LEMMA BareRowAdded ==
    ASSUME ListsOK, NEW d \in Device, NEW old, NEW new \in [Story -> Node],
           ListOfFeedEvents(d, old, new), NEW e \in Device, bare'[e] # 0
    PROVE  bare[e] # 0 \/ (e = d /\ \E s \in Story : ~NodeWhole(new[s]))
<1>1. bare' = [bare EXCEPT ![d] = BareAfter(bare[d], old, new)] /\ bare \in [Device -> Nat]
  BY DEF ListOfFeedEvents, ListsOK
<1>2. CASE e # d
  BY <1>1, <1>2
<1>3. CASE e = d /\ bare[d] = 0
  <2> DEFINE added == {s \in Story : Added(old, new, s) /\ ~new[s].body}
  <2>1. bare'[d] = BareAfter(0, old, new)
    BY <1>1, <1>3
  <2>2. BareAfter(0, old, new) = IF \E s \in Story : Removed(old, new, s) /\ ~old[s].body THEN 0
                                 ELSE 0 + Cardinality(added)
    BY DEF BareAfter
  <2> HIDE DEF added
  <2>3. added # {}
    <3> SUFFICES ASSUME added = {} PROVE FALSE
      OBVIOUS
    <3>1. Cardinality(added) = 0
      BY FS_EmptySet
    <3>2. BareAfter(0, old, new) = 0
      BY <2>2, <3>1
    <3> QED
      BY <1>3, <2>1, <3>2
  <2>4. PICK s \in Story : Exists(new[s]) /\ ~new[s].body
    BY <2>3 DEF added, Added
  <2>5. new[s].n # Absent
    BY <2>4, NodeGone DEF Exists
  <2> QED
    BY <1>3, <2>4, <2>5 DEF NodeWhole
<1> QED
  BY <1>2, <1>3

LEMMA BareRowSeen ==
    ASSUME ListsOK, NEW d \in Device, NEW old, NEW new \in [Story -> Node],
           ListOfFeedEvents(d, old, new), new = Visible(d)', NEW e \in Device, bare'[e] # 0
    PROVE  bare[e] # 0 \/ \E s \in Story : ~NodeWhole(Visible(e)[s])'
<1>1. bare[e] # 0 \/ (e = d /\ \E s \in Story : ~NodeWhole(new[s]))
  BY BareRowAdded
<1>2. CASE bare[e] # 0
  BY <1>2
<1>3. ASSUME e = d, NEW s \in Story, ~NodeWhole(new[s]) PROVE ~NodeWhole(Visible(e)[s])'
  BY <1>3 DEF NodeWhole
<1> QED
  BY <1>1, <1>2, <1>3

LEMMA BareRowComes ==
    ASSUME TypeInv, TypeInv', [Next]_vars, NEW e \in Device, bare'[e] # 0
    PROVE  \/ bare[e] # 0
           \/ \E s \in Story : ~NodeWhole(feed[s])' \/ ~NodeWhole(Visible(e)[s])'
<1>0. TypeOK /\ ListsOK /\ NetworkOK /\ ServerOK /\ UploadsOK /\ NetworkOK' /\ ServerOK'
  BY DEF TypeInv, TypeOK
<1>1. ASSUME bare' = bare PROVE bare[e] # 0
  BY <1>1
<1>2. ASSUME NEW d \in Device, NEW ops \in Seq(Write), Writes(d, ops)
      PROVE  bare[e] # 0 \/ \E s \in Story : ~NodeWhole(Visible(e)[s])'
  <2>1. PICK own : own = out[d] \o ops
    OBVIOUS
  <2>2. out' = [out EXCEPT ![d] = own] /\ cache' = cache
        /\ ListOfFeedEvents(d, Visible(d), View(cache[d], own))
    BY <1>2, <2>1 DEF Writes
  <2>3. own \in Seq(Write) /\ cache[d] \in [Story -> Node] /\ out'[d] = own
    BY <1>0, <2>1, <2>2, ConcatProperties DEF NetworkOK
  <2>4. View(cache[d], own) \in [Story -> Node]
    BY <2>3, ViewType
  <2>5. View(cache[d], own) = Visible(d)'
    BY <2>2, <2>3 DEF Visible
  <2> QED
    BY <1>0, <2>2, <2>4, <2>5, BareRowSeen
<1>3. ASSUME NEW d \in Device, DeviceHears(d)
      PROVE  bare[e] # 0 \/ \E s \in Story : ~NodeWhole(Visible(e)[s])'
  <2>1. /\ cache' = [cache EXCEPT ![d] = Heard(d)] /\ out' = [out EXCEPT ![d] = Kept(d)]
        /\ Heard(d) \in [Story -> Node] /\ Kept(d) \in Seq(Write)
        /\ ListOfFeedEvents(d, Visible(d), View(Heard(d), Kept(d)))
    BY <1>3, HearFacts
  <2>2. View(Heard(d), Kept(d)) \in [Story -> Node]
    BY <2>1, ViewType
  <2>3. cache'[d] = Heard(d) /\ out'[d] = Kept(d)
    BY <1>0, <2>1 DEF NetworkOK
  <2>4. View(Heard(d), Kept(d)) = Visible(d)'
    BY <2>3 DEF Visible
  <2> QED
    BY <1>0, <2>1, <2>2, <2>4, BareRowSeen
<1>4. ASSUME NEW d \in Device, Reconnect(d)
      PROVE  bare[e] # 0 \/ \E s \in Story : ~NodeWhole(Visible(e)[s])'
  <2>1. /\ cache' = [cache EXCEPT ![d] = feed] /\ out' = out
        /\ ListOfFeedEvents(d, Visible(d), View(feed, out[d]))
    BY <1>4 DEF Reconnect
  <2>0. feed \in [Story -> Node] /\ out[d] \in Seq(Write)
    BY <1>0 DEF ServerOK, NetworkOK
  <2>2. View(feed, out[d]) \in [Story -> Node]
    BY <2>0, ViewType
  <2>3. cache'[d] = feed
    BY <1>0, <2>1 DEF NetworkOK
  <2>4. View(feed, out[d]) = Visible(d)'
    BY <2>1, <2>3 DEF Visible
  <2> QED
    BY <1>0, <2>1, <2>2, <2>4, BareRowSeen
<1>5. ASSUME NEW d \in Device, Relaunch(d)
      PROVE  bare[e] # 0 \/ \E s \in Story : ~NodeWhole(feed[s])'
  <2> DEFINE bares == {s \in Story : Exists(feed[s]) /\ ~feed[s].body}
  <2>1. bare' = [bare EXCEPT ![d] = Cardinality(bares)] /\ feed' = feed
    BY <1>5 DEF Relaunch, dbVars
  <2>2. CASE bare'[e] = bare[e]
    BY <2>2
  <2>3. CASE bare'[e] = Cardinality(bares)
    <3>1. bares # {}
      <4> HIDE DEF bares
      <4> QED
        BY <2>3, FS_EmptySet
    <3>2. PICK s \in Story : Exists(feed[s]) /\ ~feed[s].body
      BY <3>1
    <3>3. feed[s] \in Node
      BY <1>0 DEF ServerOK
    <3>4. feed[s].n # Absent
      BY <3>2, <3>3, NodeGone DEF Exists
    <3> QED
      BY <2>1, <3>2, <3>4 DEF NodeWhole
  <2> HIDE DEF bares
  <2>4. bare'[e] = bare[e] \/ bare'[e] = Cardinality(bares)
    BY <1>0, <2>1 DEF ListsOK
  <2> QED
    BY <2>2, <2>3, <2>4
<1>6. ASSUME NEW i \in Item, DownloadURL(i)
      PROVE  \E d \in Device, ops \in Seq(Write) : Writes(d, ops)
  <2>1. owner[i] \in Device /\ Writes(owner[i], <<SaveOp(i)>>) /\ <<SaveOp(i)>> \in Seq(Write)
    BY <1>0, <1>6, OpsFacts DEF DownloadURL, UploadsOK, SaveOp
  <2> QED
    BY <2>1
<1>7. ASSUME NEW i \in Reply, CountRecording(i)
      PROVE  \E d \in Device, ops \in Seq(Write) : Writes(d, ops)
  <2>1. owner[i] \in Device /\ parent[i] \in Story /\ Writes(owner[i], CountOps(i))
    BY <1>0, <1>7 DEF CountRecording, UploadsOK, Item, CountOps
  <2>2. CountOps(i) \in Seq(Write)
    BY <1>0, <2>1, OpsFacts
  <2> QED
    BY <2>1, <2>2
<1>8. ASSUME NEW d \in Device, NEW s \in Story, DeleteStory(d, s)
      PROVE  \E f \in Device, ops \in Seq(Write) : Writes(f, ops)
  <2>1. Writes(d, DeleteOps(s)) /\ DeleteOps(s) \in Seq(Write)
    BY <1>0, <1>8, OpsFacts DEF DeleteStory, DeleteOps
  <2> QED
    BY <2>1
<1>9. ASSUME NEW d \in Device, NEW s \in Story, SendStory(d, s) \/ DidSelectRow(d, s)
      PROVE  bare' = bare
  BY <1>9 DEF SendStory, DidSelectRow, listVars
<1>10. ASSUME NEW d \in Device, NEW i \in Reply, SendReply(d, i) PROVE bare' = bare
  BY <1>10 DEF SendReply, listVars
<1>11. ASSUME NEW d \in Device, ServerReceives(d) PROVE bare' = bare
  BY <1>11 DEF ServerReceives, listVars
<1>12. ASSUME NEW i \in Item, PutFile(i) \/ DownloadURLFails(i) PROVE bare' = bare
  BY <1>12 DEF PutFile, DownloadURLFails, listVars
<1>13. ASSUME NEW i \in Reply, ReadNoRecordings(i) PROVE bare' = bare
  BY <1>13 DEF ReadNoRecordings, listVars
<1>14. ASSUME NEW s \in Story, EraseFile(s) PROVE bare' = bare
  BY <1>14 DEF EraseFile, listVars
<1>15. UNCHANGED vars => bare' = bare
  BY DEF vars, listVars
<1> DEFINE Goal == \/ bare[e] # 0
                   \/ \E s \in Story : ~NodeWhole(feed[s])' \/ ~NodeWhole(Visible(e)[s])'
<1>16. (\E d \in Device, ops \in Seq(Write) : Writes(d, ops)) => Goal
  BY <1>2
<1>17. bare' = bare => Goal
  BY <1>1
<1>18. \A d \in Device : DeviceHears(d) \/ Reconnect(d) \/ Relaunch(d) => Goal
  BY <1>3, <1>4, <1>5
<1> HIDE DEF Goal
<1>19. ASSUME NEW d \in Device,
              \/ \E s \in Story : SendStory(d, s) \/ DidSelectRow(d, s) \/ DeleteStory(d, s)
              \/ \E i \in Reply : SendReply(d, i)
              \/ ServerReceives(d) \/ DeviceHears(d)
              \/ Reconnect(d) \/ Relaunch(d)
       PROVE  Goal
  BY <1>8, <1>9, <1>10, <1>11, <1>16, <1>17, <1>18, <1>19
<1>20. ASSUME \/ \E i \in Item : PutFile(i) \/ DownloadURLFails(i) \/ DownloadURL(i)
              \/ \E i \in Reply : ReadNoRecordings(i) \/ CountRecording(i)
              \/ \E s \in Story : EraseFile(s)
       PROVE  Goal
  BY <1>6, <1>7, <1>12, <1>13, <1>14, <1>16, <1>17, <1>20
<1>21. Next => Goal
  BY ONLY <1>19, <1>20 DEF Next
<1>22. Goal
  BY ONLY [Next]_vars, <1>15, <1>17, <1>21
<1> QED
  BY <1>22 DEF Goal

\* A row without a uniqueID has a story that was deleted and a reply that was
\* counted.
BareRowsAreLate == \A d \in Device : bare[d] # 0 => \E s \in deleted : Counted(s) # {}

ShowsWhole ==
    \A s \in Story \ deleted :
        NodeWhole(feed[s]) /\ \A d \in Device : NodeWhole(Visible(d)[s])

LEMMA ListShowsWhole == ListInv => ShowsWhole
<1> SUFFICES ASSUME ListInv, NEW s \in Story \ deleted, NEW d \in Device
             PROVE  NodeWhole(feed[s]) /\ NodeWhole(Visible(d)[s])
  BY DEF ShowsWhole, ListInv, StoryWhole
<1>1. NetworkOK /\ DeviceWhole(d, s) /\ NodeWhole(feed[s])
  BY DEF ListInv, TypeInv, TypeOK, StoryWhole
<1>2. QueuesIn(KeepingOp(s))
  BY DEF ListInv, QueuesIn, AgreedOp, KeepingOp
<1> QED
  BY <1>1, <1>2, VisibleWhole

LEMMA ListShowsWholeNext == ListInv' => ShowsWhole'
BY ListShowsWhole, PTL

LateInv ==
    /\ ListInv
    /\ QueuesIn(CountingOp(CountedStories)) /\ WholeBut(CountedStories)
    /\ BareRowsAreLate

LEMMA InitLate == Init => LateInv
<1> SUFFICES ASSUME Init PROVE LateInv
  OBVIOUS
<1>1. WholeBut(CountedStories)
  BY DEF Init, WholeBut, NodeWhole, Gone
<1>2. QueuesIn(CountingOp(CountedStories)) /\ BareRowsAreLate
  BY DEF Init, QueuesIn, BareRowsAreLate
<1> QED
  BY <1>1, <1>2, InitList DEF LateInv

LEMMA NextLate == LateInv /\ [Next]_vars => LateInv'
<1> SUFFICES ASSUME LateInv, [Next]_vars PROVE LateInv'
  OBVIOUS
<1>0. TypeInv /\ ListInv /\ ListInv' /\ TypeInv' /\ UploadsOK
  BY NextList DEF LateInv, ListInv, TypeInv, TypeOK
<1>1. PICK C : C = CountedStories'
  OBVIOUS
<1>2. /\ \A s \in Story : Counted(s) # {} => Counted(s)' # {}
      /\ CountedStories \subseteq C
  <2>1. \A s \in Story : Counted(s) \subseteq Counted(s)'
    BY <1>0, CountsGrow
  <2> QED
    BY <1>1, <2>1 DEF CountedStories
<1>3. \A i \in Reply : CountRecording(i) /\ seen[i] # Absent => parent[i] \in C
  <2> SUFFICES ASSUME NEW i \in Reply, CountRecording(i), seen[i] # Absent
               PROVE  parent[i] \in C
    OBVIOUS
  <2>1. /\ phase' = [phase EXCEPT ![i] = "done"] /\ UNCHANGED <<seen, parent>>
        /\ parent[i] \in Story
    BY <1>0 DEF CountRecording, UploadsOK, Item
  <2>2. phase'[i] = "done"
    BY <1>0, <2>1 DEF UploadsOK, Item
  <2>3. PICK p \in Story : p = parent[i]
    BY <2>1
  <2>4. i \in Counted(p)'
    BY <2>1, <2>2, <2>3 DEF Counted
  <2> QED
    BY <1>1, <2>3, <2>4 DEF CountedStories
<1>4. QueuesIn(CountingOp(C)) /\ WholeBut(C)
  BY <1>2 DEF LateInv, QueuesIn, CountingOp, WholeBut
<1>5. QueuesIn(CountingOp(C))' /\ WholeBut(C)'
  BY <1>0, <1>3, <1>4, NextCounting, NextWholeBut
<1>6. QueuesIn(CountingOp(CountedStories))' /\ WholeBut(CountedStories)'
  BY <1>1, <1>5 DEF QueuesIn, CountingOp, WholeBut
<1>7. BareRowsAreLate'
  <2> SUFFICES ASSUME NEW d \in Device, bare'[d] # 0
               PROVE  \E s \in deleted' : Counted(s)' # {}
    BY DEF BareRowsAreLate
  <2>1. deleted \subseteq deleted' /\ deleted \subseteq Story
    BY <1>0, NextAgreed DEF ListInv, UploadsOK
  <2>2. CASE bare[d] # 0
    BY <1>2, <2>1, <2>2 DEF LateInv, BareRowsAreLate
  <2>3. ASSUME NEW s \in Story, ~NodeWhole(feed[s])' \/ ~NodeWhole(Visible(d)[s])'
        PROVE  s \in deleted' /\ s \in C
    <3>1. s \in deleted'
      <4> SUFFICES ASSUME s \notin deleted' PROVE FALSE
        OBVIOUS
      <4>1. NodeWhole(feed[s])' /\ NodeWhole(Visible(d)[s])'
        BY <1>0, ListShowsWholeNext DEF ShowsWhole
      <4> QED
        BY <2>3, <4>1
    <3>2. s \in C
      <4> SUFFICES ASSUME s \notin C PROVE FALSE
        OBVIOUS
      <4>1. out'[d] \in Seq(Write) /\ \A k \in 1..Len(out'[d]) : out'[d][k] \in CountingOp(C)
        BY <1>0, <1>5 DEF QueuesIn, TypeInv, TypeOK, NetworkOK
      <4>2. NodeWhole(feed'[s]) /\ NodeWhole(cache'[d][s])
        BY <1>5 DEF WholeBut, NodeWhole
      <4>3. NodeWhole(View(cache'[d], out'[d])[s])
        BY <4>1, <4>2, ViewUncounted
      <4> QED
        BY <2>3, <4>2, <4>3 DEF Visible, NodeWhole
    <3> QED
      BY <3>1, <3>2
  <2>4. CASE \E s \in Story : ~NodeWhole(feed[s])' \/ ~NodeWhole(Visible(d)[s])'
    <3>1. PICK s \in Story : s \in deleted' /\ s \in C
      BY <2>3, <2>4
    <3> QED
      BY <1>1, <3>1 DEF CountedStories
  <2> QED
    BY <1>0, <2>2, <2>4, BareRowComes
<1> QED
  BY <1>0, <1>6, <1>7 DEF LateInv

(* How far a list is from crashing HomeVC: a row without a uniqueID, which *)
(* the run feed_bare finds, is there only once a story was deleted to      *)
(* which a reply has been counted, for any number of devices, stories,     *)
(* replies and faults.  Uploads, lost connections, killed apps and         *)
(* deletions by themselves bring none.                                     *)
THEOREM BareRowsComeLate == Spec => []BareRowsAreLate
<1>1. LateInv => BareRowsAreLate
  BY DEF LateInv
<1> QED
  BY <1>1, InitLate, NextLate, PTL DEF Spec

=============================================================================
