--------------------------- MODULE StoryFeedProofs --------------------------
EXTENDS StoryFeed, FiniteSetTheorems, FunctionTheorems, SequenceTheorems, WellFoundedInduction, TLAPS

(* A nonempty set of positions of a finite sequence has a last one. *)
LEMMA LastPosition ==
    ASSUME NEW n \in Nat, NEW S \in SUBSET (1..n), S # {}
    PROVE  Max(S) \in S /\ \A k \in S : k <= Max(S)
<1> DEFINE T == {m \in Nat : n - m \in S}
           Less == {p \in Nat \X Nat : p[1] < p[2]}
<1>1. IsWellFoundedOn(Less, Nat)
  BY NatLessThanWellFounded DEF OpToRel
<1>2. T \subseteq Nat /\ T # {}
  <2>1. PICK k \in S : TRUE
    OBVIOUS
  <2>2. n - k \in T
    BY <2>1
  <2> QED
    BY <2>2
<1> HIDE DEF T
<1>3. PICK m \in T : \A y \in T : <<y, m>> \notin Less
  <2> HIDE DEF Less
  <2> QED
  BY <1>1, <1>2, WFMin
<1>4. ASSUME NEW y \in T PROVE m <= y
  <2>1. <<y, m>> \in Nat \X Nat /\ ~(<<y, m>>[1] < <<y, m>>[2])
    BY <1>2, <1>3
  <2> QED
    BY <1>2, <2>1
<1>5. n - m \in S /\ \A k \in S : k <= n - m
  BY <1>4 DEF T
<1>6. \E x \in S : \A y \in S : x >= y
  BY <1>5
<1> QED
  BY <1>6 DEF Max

LEMMA NodeType ==
    ASSUME NEW b \in BOOLEAN, NEW n \in Nat \cup {Absent}
    PROVE  [body |-> b, n |-> n] \in Node
BY DEF Node

(* One write leaves a node of Feed a node, and gives it a body only if it  *)
(* publishes it.                                                           *)
LEMMA AppliedType ==
    ASSUME NEW nodes \in [Story -> Node], NEW w \in Write
    PROVE  /\ Applied(nodes, w) \in [Story -> Node]
           /\ \A s \in Story : Applied(nodes, w)[s].body =>
                nodes[s].body \/ (w.op = "publish" /\ w.id = s)
<1> SUFFICES ASSUME NEW s \in Story
             PROVE  /\ Applied(nodes, w)[s] \in Node
                    /\ Applied(nodes, w)[s].body =>
                         nodes[s].body \/ (w.op = "publish" /\ w.id = s)
  BY DEF Applied
<1>1. CASE w.op \notin FeedOps \/ w.id # s
  BY <1>1 DEF Applied
<1>2. CASE w.op \in FeedOps /\ w.id = s /\ w.op = "count"
  <2>1. Applied(nodes, w)[s] = [body |-> nodes[s].body, n |-> w.n]
    BY <1>2 DEF Applied
  <2>2. nodes[s].body \in BOOLEAN /\ w.n \in Nat \cup {Absent}
    BY DEF Node, Write
  <2>3. Applied(nodes, w)[s] \in Node
    BY <2>1, <2>2, NodeType
  <2>4. Applied(nodes, w)[s].body => nodes[s].body
    BY <2>1
  <2> QED
    BY <2>3, <2>4
<1>3. CASE w.op \in FeedOps /\ w.id = s /\ w.op # "count"
  <2>1. Applied(nodes, w)[s] = [body |-> w.op = "publish", n |-> w.n]
    BY <1>3 DEF Applied
  <2>2. w.n \in Nat \cup {Absent}
    BY DEF Write
  <2>3. (w.op = "publish") \in BOOLEAN
    OBVIOUS
  <2>4. Applied(nodes, w)[s] \in Node
    BY <2>1, <2>2, <2>3, NodeType
  <2>5. Applied(nodes, w)[s].body = (w.op = "publish")
    BY <2>1
  <2> QED
    BY <1>3, <2>4, <2>5
<1> QED
  BY <1>1, <1>2, <1>3

(* What a device sees is a node for each story, and it sees a body only if *)
(* it has heard of one or published one itself.                            *)
LEMMA ViewType ==
    ASSUME NEW heard \in [Story -> Node], NEW own \in Seq(Write)
    PROVE  /\ View(heard, own) \in [Story -> Node]
           /\ \A s \in Story : View(heard, own)[s].body =>
                \/ heard[s].body
                \/ \E k \in 1..Len(own) : own[k].op = "publish" /\ own[k].id = s
<1> SUFFICES ASSUME NEW s \in Story
             PROVE  /\ View(heard, own)[s] \in Node
                    /\ View(heard, own)[s].body =>
                        \/ heard[s].body
                        \/ \E k \in 1..Len(own) :
                              own[k].op = "publish" /\ own[k].id = s
  BY DEF View
<1> DEFINE writes == {k \in 1..Len(own) : own[k].id = s /\ own[k].op \in FeedOps}
           whole  == {k \in writes : own[k].op # "count"}
           b == IF whole = {} THEN heard[s].body ELSE own[Max(whole)].op = "publish"
           m == IF writes = {} THEN heard[s].n ELSE own[Max(writes)].n
<1>1. View(heard, own)[s] = [body |-> b, n |-> m]
  BY DEF View
<1>2. Len(own) \in Nat /\ \A k \in 1..Len(own) : own[k] \in Write
  BY LenProperties, ElementOfSeq
<1>3. whole # {} => Max(whole) \in whole
  BY <1>2, LastPosition
<1>4. writes # {} => Max(writes) \in writes
  BY <1>2, LastPosition
<1>5. heard[s].body \in BOOLEAN /\ heard[s].n \in Nat \cup {Absent}
  BY DEF Node
<1>6. b \in BOOLEAN
  <2>1. (own[Max(whole)].op = "publish") \in BOOLEAN
    OBVIOUS
  <2> QED
    BY <1>5, <2>1
<1>7. m \in Nat \cup {Absent}
  <2>1. CASE writes = {}
    BY <1>5, <2>1
  <2>2. CASE writes # {}
    <3>1. own[Max(writes)] \in Write
      BY <1>2, <1>4, <2>2
    <3> QED
      BY <2>2, <3>1 DEF Write
  <2> QED
    BY <2>1, <2>2
<1>8. b => \/ heard[s].body
           \/ \E k \in 1..Len(own) : own[k].op = "publish" /\ own[k].id = s
  BY <1>3
<1> HIDE DEF b, m
<1> QED
  BY <1>1, <1>6, <1>7, <1>8, NodeType

(* The observers' handlers keep the lists lists. *)
LEMMA ListType ==
    ASSUME ListsOK, NEW d \in Device,
           NEW old \in [Story -> Node], NEW new \in [Story -> Node],
           ListOfFeedEvents(d, old, new)
    PROVE  /\ rows' \in [Device -> [Story -> Row]]
           /\ bare' \in [Device -> Nat]
<1>1. ASSUME NEW s \in Story, NEW row \in Row
      PROVE  RowAfter(row, old, new, s) \in Row
  <2>1. row.count \in Nat /\ row.n \in Nat \cup {Absent}
    BY DEF Row
  <2>2. new[s].n \in Nat \cup {Absent}
    BY DEF Node
  <2> DEFINE c == IF Added(old, new, s) /\ new[s].body THEN row.count + 1
                  ELSE IF Removed(old, new, s) /\ old[s].body THEN 0
                  ELSE row.count
             m == IF new[s].body /\ (Added(old, new, s) \/ Changed(old, new, s))
                  THEN new[s].n ELSE row.n
  <2>3. c \in Nat /\ m \in Nat \cup {Absent}
    BY <2>1, <2>2
  <2>4. RowAfter(row, old, new, s) = [count |-> c, n |-> m]
    BY DEF RowAfter
  <2> HIDE DEF c, m
  <2> QED
    BY <2>3, <2>4 DEF Row
<1>2. ASSUME NEW b \in Nat PROVE BareAfter(b, old, new) \in Nat
  <2> DEFINE A == {s \in Story : Added(old, new, s) /\ ~new[s].body}
  <2>1. Cardinality(A) \in Nat
    BY FeedAssumption, FS_Subset, FS_CardinalityType DEF FeedAssumption
  <2> HIDE DEF A
  <2> QED
    BY <2>1 DEF BareAfter, A
<1>3. [s \in Story |-> RowAfter(rows[d][s], old, new, s)] \in [Story -> Row]
  BY <1>1 DEF ListsOK
<1>4. BareAfter(bare[d], old, new) \in Nat
  BY <1>2 DEF ListsOK
<1> QED
  BY <1>3, <1>4 DEF ListOfFeedEvents, ListsOK

-----------------------------------------------------------------------------
(* Types *)

\* The writes of d that the server has applied and d has not heard of.
Answers(d) == {k \in 1..Len(inbox[d]) : inbox[d][k].by = d}

(* Every write the server has applied has one answer on its way back, so   *)
(* that an answer always finds a write to answer.                          *)
AnswersMatch ==
    \A d \in Device : Cardinality(Answers(d)) = arrived[d]

TypeInv == TypeOK /\ AnswersMatch

LEMMA AppendAnswer ==
    ASSUME NEW M, NEW q \in Seq(M), NEW m \in M, NEW d
    PROVE  {k \in 1..Len(Append(q, m)) : Append(q, m)[k].by = d} =
             {k \in 1..Len(q) : q[k].by = d} \cup
             (IF m.by = d THEN {Len(q) + 1} ELSE {})
OBVIOUS

(* Hearing of a message takes the first place; the others move up. *)
LEMMA TailAnswer ==
    ASSUME NEW M, NEW q \in Seq(M), q # <<>>, NEW d
    PROVE  LET A == {k \in 1..Len(q) : q[k].by = d}
               B == {k \in 1..Len(Tail(q)) : Tail(q)[k].by = d}
           IN  /\ IsFiniteSet(A) /\ IsFiniteSet(B)
               /\ Cardinality(A) \in Nat
               /\ Cardinality(B) = IF Head(q).by = d THEN Cardinality(A) - 1
                                   ELSE Cardinality(A)
               /\ Head(q).by = d => Cardinality(A) >= 1
<1> DEFINE A == {k \in 1..Len(q) : q[k].by = d}
           B == {k \in 1..Len(Tail(q)) : Tail(q)[k].by = d}
           C == A \ {1}
           f == [k \in C |-> k - 1]
<1>1. /\ Len(q) \in Nat \ {0} /\ Len(Tail(q)) = Len(q) - 1
      /\ \A k \in 1..Len(Tail(q)) : Tail(q)[k] = q[k + 1]
      /\ Head(q) = q[1]
  BY HeadTailProperties, EmptySeq
<1>2. IsFiniteSet(A) /\ IsFiniteSet(B)
  <2>1. IsFiniteSet(1..Len(q)) /\ IsFiniteSet(1..Len(Tail(q)))
    BY <1>1, FS_Interval
  <2>2. A \in SUBSET (1..Len(q)) /\ B \in SUBSET (1..Len(Tail(q)))
    OBVIOUS
  <2> QED
    BY <2>1, <2>2, FS_Subset
<1>3. f \in Bijection(C, B)
  <2>1. f \in [C -> B]
    BY <1>1
  <2>2. \A j, k \in C : f[j] = f[k] => j = k
    OBVIOUS
  <2>3. ASSUME NEW b \in B PROVE \E k \in C : f[k] = b
    <3>1. b + 1 \in C /\ f[b + 1] = b
      BY <1>1
    <3> QED
      BY <3>1
  <2> HIDE DEF f, B, C
  <2> QED
    BY <2>1, <2>2, <2>3, Fun_IsBij
<1>4. IsFiniteSet(C) /\ Cardinality(C) = IF 1 \in A THEN Cardinality(A) - 1 ELSE Cardinality(A)
  BY <1>2, FS_RemoveElement
<1>5. Cardinality(B) = Cardinality(C)
  <2> HIDE DEF f, C, B
  <2> QED
    BY <1>3, <1>4, FS_Bijection DEF ExistsBijection
<1>6. 1 \in A <=> Head(q).by = d
  BY <1>1
<1>7. Cardinality(A) \in Nat /\ (1 \in A => Cardinality(A) >= 1)
  <2>1. Cardinality(A) \in Nat
    BY <1>2, FS_CardinalityType
  <2>2. A # {} => Cardinality(A) # 0
    BY <1>2, FS_EmptySet
  <2> HIDE DEF A
  <2> QED
    BY <2>1, <2>2
<1> HIDE DEF A, B, C
<1>8. /\ Cardinality(A) \in Nat
      /\ Cardinality(B) = IF Head(q).by = d THEN Cardinality(A) - 1 ELSE Cardinality(A)
      /\ Head(q).by = d => Cardinality(A) >= 1
  BY <1>4, <1>5, <1>6, <1>7
<1> QED
  BY <1>2, <1>8 DEF A, B

LEMMA InitTypes == Init => TypeInv
<1> SUFFICES ASSUME Init PROVE TypeInv
  OBVIOUS
<1>1. Gone \in Node /\ [count |-> 0, n |-> Absent] \in Row
  BY DEF Gone, Node, Row
<1>2. UploadsOK
  BY DEF Init, UploadsOK, Phase, Item
<1>6. ServerOK
  BY <1>1 DEF Init, ServerOK
<1>3. NetworkOK
  BY <1>1 DEF Init, NetworkOK
<1>4. ListsOK
  BY <1>1, FeedAssumption DEF Init, ListsOK, FeedAssumption
<1>5. ASSUME NEW d \in Device PROVE Cardinality(Answers(d)) = arrived[d]
  <2>1. Answers(d) = {} /\ arrived[d] = 0
    BY DEF Init, Answers
  <2> QED
    BY <2>1, FS_EmptySet
<1> QED
  BY <1>2, <1>3, <1>4, <1>5, <1>6 DEF TypeInv, TypeOK, AnswersMatch

LEMMA OpTypes ==
    ASSUME NEW v \in Nat
    PROVE  /\ \A s \in Story : /\ PublishOp(s) \in Write /\ RemoveOp(s) \in Write
                               /\ ClearOp(s) \in Write /\ CountOp(s, v) \in Write
           /\ \A i \in Reply : ReplyOp(i) \in Write
BY FeedAssumption DEF FeedAssumption, Item, PublishOp, RemoveOp, ReplyOp, ClearOp, CountOp, Write, FeedOps

LEMMA VisibleType ==
    ASSUME NetworkOK, NEW d \in Device PROVE Visible(d) \in [Story -> Node]
BY ViewType DEF NetworkOK, Visible

(* A device that writes keeps its queues and its list well formed. *)
LEMMA WritesType ==
    ASSUME TypeInv, NEW d \in Device, NEW ops \in Seq(Write), Writes(d, ops),
           UNCHANGED <<chosen, faults>>
    PROVE  NetworkOK' /\ ListsOK' /\ AnswersMatch'
<1> USE DEF TypeInv, TypeOK
<1>1. out[d] \in Seq(Write) /\ cache[d] \in [Story -> Node]
  BY DEF NetworkOK
<1>2. out[d] \o ops \in Seq(Write) /\ Len(out[d] \o ops) >= Len(out[d])
  BY <1>1, ConcatProperties, LenProperties
<1>3. NetworkOK'
  <2>1. \A e \in Device : arrived'[e] <= Len(out'[e])
    BY <1>1, <1>2, LenProperties DEF Writes, NetworkOK
  <2> QED
    BY <1>2, <2>1 DEF Writes, NetworkOK
<1>4. Visible(d) \in [Story -> Node] /\ View(cache[d], out[d] \o ops) \in [Story -> Node]
  BY <1>1, <1>2, ViewType, VisibleType
<1>5. ListsOK'
  BY <1>4, ListType DEF Writes, ListsOK
<1>6. AnswersMatch'
  BY DEF Writes, AnswersMatch, Answers
<1> QED
  BY <1>3, <1>5, <1>6

(* A new connection leaves the device what the server has and what it kept *)
(* of its own writes.                                                      *)
LEMMA ResetType ==
    ASSUME NetworkOK, NEW d \in Device, NEW own \in Seq(Write),
           feed \in [Story -> Node],
           cache' = [cache EXCEPT ![d] = feed], inbox' = [inbox EXCEPT ![d] = <<>>],
           arrived' = [arrived EXCEPT ![d] = 0], out' = [out EXCEPT ![d] = own]
    PROVE  NetworkOK'
<1> DEFINE M == [by : Device, write : Write]
<1>1. <<>> \in Seq(M) /\ Len(own) \in Nat
  BY EmptySeq, LenProperties
<1>2. inbox' \in [Device -> Seq(M)]
  BY <1>1 DEF NetworkOK
<1>3. cache' \in [Device -> [Story -> Node]] /\ out' \in [Device -> Seq(Write)]
  BY DEF NetworkOK
<1>4. arrived' \in [Device -> Nat]
  BY DEF NetworkOK
<1>5. \A e \in Device : arrived'[e] <= Len(out'[e])
  BY <1>1 DEF NetworkOK
<1> QED
  BY <1>2, <1>3, <1>4, <1>5 DEF NetworkOK

LEMMA NextTypes == TypeInv /\ [Next]_vars => TypeInv'
<1> SUFFICES ASSUME TypeInv, [Next]_vars PROVE TypeInv'
  OBVIOUS
<1> USE FeedAssumption DEF FeedAssumption, TypeInv, TypeOK, Item
<1>1. ASSUME UNCHANGED <<netVars, listVars, chosen, faults>>
      PROVE  NetworkOK' /\ ListsOK' /\ AnswersMatch'
  BY <1>1 DEF netVars, listVars, NetworkOK, ListsOK, AnswersMatch, Answers
<1>2. ASSUME UNCHANGED <<upVars, fileVars>> PROVE UploadsOK'
  BY <1>2 DEF upVars, fileVars, UploadsOK
<1>3. ASSUME UNCHANGED dbVars PROVE ServerOK'
  BY <1>3 DEF dbVars, ServerOK
<1>4. ASSUME NEW d \in Device, NEW s \in Story, SendStory(d, s)
      PROVE  TypeInv'
  <2>1. UploadsOK'
    BY <1>4 DEF SendStory, UploadsOK, Phase, fileVars
  <2> QED
    BY <1>1, <1>3, <1>4, <2>1 DEF SendStory
<1>5. ASSUME NEW d \in Device, NEW i \in Reply, SendReply(d, i)
      PROVE  TypeInv'
  <2>1. UploadsOK'
    BY <1>5 DEF SendReply, UploadsOK, ListsOK, Phase, fileVars
  <2> QED
    BY <1>1, <1>3, <1>5, <2>1 DEF SendReply
<1>6. ASSUME NEW i \in Item, PutFile(i) \/ DownloadURLFails(i)
      PROVE  TypeInv'
  <2>1. UploadsOK'
    BY <1>6 DEF PutFile, DownloadURLFails, UploadsOK, Phase, fileVars
  <2> QED
    BY <1>1, <1>3, <1>6, <2>1 DEF PutFile, DownloadURLFails
<1>7. ASSUME NEW i \in Item, DownloadURL(i)
      PROVE  TypeInv'
  <2>1. UploadsOK'
    BY <1>7 DEF DownloadURL, UploadsOK, Phase, fileVars
  <2>2. owner[i] \in Device
    BY <1>7 DEF DownloadURL, UploadsOK
  <2>3. <<IF i \in Story THEN PublishOp(i) ELSE ReplyOp(i)>> \in Seq(Write)
    BY OpTypes, 0 \in Nat
  <2>4. NetworkOK' /\ ListsOK' /\ AnswersMatch'
    BY <1>7, <2>2, <2>3, WritesType DEF DownloadURL
  <2> QED
    BY <1>3, <1>7, <2>1, <2>4 DEF DownloadURL
<1>8. ASSUME NEW i \in Reply, ReadNoRecordings(i)
      PROVE  TypeInv'
  <2>1. owner[i] \in Device /\ parent[i] \in Story
    BY <1>8 DEF ReadNoRecordings, UploadsOK
  <2>2. Visible(owner[i])[parent[i]].n \in Nat \cup {Absent}
    BY <2>1, VisibleType DEF Node
  <2>3. UploadsOK'
    BY <1>8, <2>2 DEF ReadNoRecordings, UploadsOK, Phase, fileVars
  <2> QED
    BY <1>1, <1>3, <1>8, <2>3 DEF ReadNoRecordings
<1>9. ASSUME NEW i \in Reply, CountRecording(i)
      PROVE  TypeInv'
  <2>1. UploadsOK'
    BY <1>9 DEF CountRecording, UploadsOK, Phase, fileVars
  <2>2. owner[i] \in Device /\ parent[i] \in Story /\ seen[i] \in Nat \cup {Absent}
    BY <1>9 DEF CountRecording, UploadsOK
  <2> DEFINE ops == IF seen[i] = Absent THEN <<>> ELSE <<CountOp(parent[i], seen[i] + 1)>>
  <2>3. ops \in Seq(Write)
    BY <2>2, OpTypes, EmptySeq
  <2>4. Writes(owner[i], ops) /\ UNCHANGED <<chosen, faults>>
    BY <1>9 DEF CountRecording
  <2> HIDE DEF ops
  <2>5. NetworkOK' /\ ListsOK' /\ AnswersMatch'
    BY <2>2, <2>3, <2>4, WritesType
  <2> QED
    BY <1>3, <1>9, <2>1, <2>5 DEF CountRecording
<1>10. ASSUME NEW d \in Device, NEW s \in Story, DidSelectRow(d, s)
       PROVE  TypeInv'
  <2>1. ListsOK' /\ NetworkOK' /\ AnswersMatch'
    BY <1>10 DEF DidSelectRow, netVars, listVars, NetworkOK, ListsOK, AnswersMatch, Answers
  <2> QED
    BY <1>2, <1>3, <1>10, <2>1 DEF DidSelectRow
<1>11. ASSUME NEW d \in Device, NEW s \in Story, DeleteStory(d, s)
       PROVE  TypeInv'
  <2>1. UploadsOK'
    BY <1>11 DEF DeleteStory, UploadsOK, upVars
  <2>2. <<RemoveOp(s), ClearOp(s)>> \in Seq(Write)
    BY OpTypes, 0 \in Nat
  <2>3. NetworkOK' /\ ListsOK' /\ AnswersMatch'
    BY <1>11, <2>2, WritesType DEF DeleteStory
  <2> QED
    BY <1>3, <1>11, <2>1, <2>3 DEF DeleteStory
<1>12. ASSUME NEW s \in Story, EraseFile(s)
       PROVE  TypeInv'
  <2>1. UploadsOK'
    BY <1>12 DEF EraseFile, UploadsOK, upVars
  <2> QED
    BY <1>1, <1>3, <1>12, <2>1 DEF EraseFile
<1>13. ASSUME NEW d \in Device, ServerReceives(d)
       PROVE  TypeInv'
  <2> DEFINE w == out[d][arrived[d] + 1]
             m == [by |-> d, write |-> w]
             M == [by : Device, write : Write]
  <2>1. w \in Write
    BY <1>13, LenProperties DEF ServerReceives, NetworkOK
  <2>2. ServerOK'
    <3>1. feed' = Applied(feed, w) /\ feed \in [Story -> Node]
      BY <1>13 DEF ServerReceives, ServerOK
    <3>2. feed' \in [Story -> Node]
      BY <2>1, <3>1, AppliedType
    <3>3. stories' = [s \in Story |->
                        IF w.op = "reply" /\ parent[w.id] = s THEN stories[s] \cup {w.id}
                        ELSE IF w.op = "clear" /\ w.id = s THEN {}
                        ELSE stories[s]]
      BY <1>13 DEF ServerReceives
    <3>4. w.op = "reply" => w.id \in Reply
      BY <2>1 DEF Write
    <3>5. stories' \in [Story -> SUBSET Reply]
      BY <3>3, <3>4 DEF ServerOK
    <3> QED
      BY <3>2, <3>5 DEF ServerOK
  <2>3. m \in M
    BY <2>1
  <2>4. /\ inbox' = [e \in Device |-> Append(inbox[e], m)]
        /\ arrived' = [arrived EXCEPT ![d] = arrived[d] + 1]
        /\ arrived[d] < Len(out[d])
        /\ UNCHANGED <<out, cache>>
    BY <1>13 DEF ServerReceives
  <2> HIDE DEF m, w
  <2>5. NetworkOK'
    <3>1. inbox' \in [Device -> Seq(M)]
      <4>1. ASSUME NEW e \in Device PROVE Append(inbox[e], m) \in Seq(M)
        BY <2>3, AppendProperties DEF NetworkOK
      <4> QED
        BY <2>4, <4>1
    <3>2. arrived' \in [Device -> Nat]
      BY <2>4 DEF NetworkOK
    <3>3. \A e \in Device : arrived'[e] <= Len(out'[e])
      BY <2>4, LenProperties DEF NetworkOK
    <3> QED
      BY <2>4, <3>1, <3>2, <3>3 DEF NetworkOK
  <2>6. ASSUME NEW e \in Device PROVE Cardinality(Answers(e))' = arrived'[e]
    <3>1. inbox[e] \in Seq(M) /\ inbox'[e] = Append(inbox[e], m)
      BY <2>4 DEF NetworkOK
    <3>2. m.by = d
      BY DEF m
    <3>3. Answers(e)' = Answers(e) \cup (IF e = d THEN {Len(inbox[e]) + 1} ELSE {})
      BY <2>3, <3>1, <3>2, AppendAnswer DEF Answers
    <3>4. Len(inbox[e]) \in Nat
      BY <3>1, LenProperties
    <3>5. IsFiniteSet(Answers(e)) /\ Len(inbox[e]) + 1 \notin Answers(e)
      <4>1. Answers(e) \in SUBSET (1..Len(inbox[e]))
        BY DEF Answers
      <4>2. IsFiniteSet(1..Len(inbox[e]))
        BY <3>4, FS_Interval
      <4> QED
        BY <3>4, <4>1, <4>2, FS_Subset
    <3>6. /\ Cardinality(Answers(e)) = arrived[e]
          /\ arrived'[e] = IF e = d THEN arrived[e] + 1 ELSE arrived[e]
      BY <2>4 DEF AnswersMatch, NetworkOK
    <3>7. CASE e = d
      <4>1. Answers(e)' = Answers(e) \cup {Len(inbox[e]) + 1}
        BY <3>3, <3>7
      <4>2. Cardinality(Answers(e) \cup {Len(inbox[e]) + 1}) = Cardinality(Answers(e)) + 1
        BY <3>5, FS_AddElement
      <4> QED
        BY <3>6, <3>7, <4>1, <4>2
    <3>8. CASE e # d
      <4>1. Answers(e)' = Answers(e)
        BY <3>3, <3>8
      <4> QED
        BY <3>6, <3>8, <4>1
    <3> QED
      BY <3>7, <3>8
  <2>7. UploadsOK' /\ ListsOK'
    BY <1>2, <1>13 DEF ServerReceives, listVars, ListsOK
  <2> QED
    BY <2>2, <2>5, <2>6, <2>7 DEF AnswersMatch
<1>14. ASSUME NEW d \in Device, DeviceHears(d)
       PROVE  TypeInv'
  <2> DEFINE M == [by : Device, write : Write]
             m == Head(inbox[d])
             heard == Applied(cache[d], m.write)
             own == IF m.by = d THEN Tail(out[d]) ELSE out[d]
  <2>1. inbox[d] \in Seq(M) /\ inbox[d] # <<>>
    BY <1>14 DEF DeviceHears, NetworkOK
  <2>2. m \in M /\ Tail(inbox[d]) \in Seq(M)
    BY <2>1, HeadTailProperties
  <2>3. heard \in [Story -> Node]
    BY <2>2, AppliedType DEF NetworkOK
  <2> DEFINE B == {k \in 1..Len(Tail(inbox[d])) : Tail(inbox[d])[k].by = d}
  <2>4. /\ Cardinality(B) = IF m.by = d THEN arrived[d] - 1 ELSE arrived[d]
        /\ m.by = d => arrived[d] >= 1
        /\ arrived[d] \in Nat
    <3>1. Cardinality(Answers(d)) = arrived[d] /\ arrived[d] \in Nat
      BY DEF AnswersMatch, NetworkOK
    <3> QED
      BY <2>1, <3>1, TailAnswer DEF Answers
  <2>5. out[d] \in Seq(Write) /\ arrived[d] <= Len(out[d])
    BY DEF NetworkOK
  <2>6. /\ own \in Seq(Write)
        /\ m.by = d => Len(own) = Len(out[d]) - 1
    BY <2>4, <2>5, HeadTailProperties, EmptySeq
  <2>7. /\ cache' = [cache EXCEPT ![d] = heard]
        /\ out' = [out EXCEPT ![d] = own]
        /\ arrived' = [arrived EXCEPT ![d] = IF m.by = d THEN arrived[d] - 1 ELSE arrived[d]]
        /\ inbox' = [inbox EXCEPT ![d] = Tail(inbox[d])]
        /\ ListOfFeedEvents(d, Visible(d), View(heard, own))
        /\ UNCHANGED <<upVars, fileVars, dbVars, chosen, faults>>
    BY <1>14 DEF DeviceHears
  <2> HIDE DEF heard, own, m
  <2>8. ListsOK'
    BY <2>3, <2>6, <2>7, ViewType, VisibleType, ListType DEF ListsOK
  <2>9. NetworkOK'
    <3>1. inbox' \in [Device -> Seq(M)]
      BY <2>2, <2>7 DEF NetworkOK
    <3>2. out' \in [Device -> Seq(Write)] /\ cache' \in [Device -> [Story -> Node]]
      BY <2>3, <2>6, <2>7 DEF NetworkOK
    <3>3. arrived' \in [Device -> Nat]
      <4>1. (IF m.by = d THEN arrived[d] - 1 ELSE arrived[d]) \in Nat
        BY <2>4
      <4>2. arrived \in [Device -> Nat]
        BY DEF NetworkOK
      <4> QED
        BY <2>7, <4>1, <4>2
    <3>4. ASSUME NEW e \in Device PROVE arrived'[e] <= Len(out'[e])
      <4>1. CASE e = d
        <5>1. arrived'[d] = (IF m.by = d THEN arrived[d] - 1 ELSE arrived[d]) /\ out'[d] = own
          BY <2>7 DEF NetworkOK
        <5>2. CASE m.by = d
          BY <2>4, <2>5, <2>6, <4>1, <5>1, <5>2, LenProperties
        <5>3. CASE m.by # d
          BY <2>5, <4>1, <5>1, <5>3 DEF own
        <5> QED
          BY <5>2, <5>3
      <4>2. CASE e # d
        BY <2>7, <4>2 DEF NetworkOK
      <4> QED
        BY <4>1, <4>2
    <3> QED
      BY <3>1, <3>2, <3>3, <3>4 DEF NetworkOK
  <2>10. ASSUME NEW e \in Device PROVE Cardinality(Answers(e))' = arrived'[e]
    <3>1. CASE e = d
      <4>1. Answers(d)' = B
        BY <2>7 DEF Answers, NetworkOK
      <4> QED
        BY <2>4, <2>7, <3>1, <4>1 DEF NetworkOK
    <3>2. CASE e # d
      <4>1. Answers(e)' = Answers(e) /\ arrived'[e] = arrived[e]
        BY <2>7, <3>2 DEF Answers, NetworkOK
      <4> QED
        BY <4>1 DEF AnswersMatch
    <3> QED
      BY <3>1, <3>2
  <2> QED
    BY <1>2, <1>3, <2>7, <2>8, <2>9, <2>10 DEF AnswersMatch
<1>15. ASSUME NEW d \in Device, Reconnect(d)
       PROVE  TypeInv'
  <2>1. feed \in [Story -> Node] /\ out[d] \in Seq(Write) /\ Len(out[d]) \in Nat
    BY LenProperties DEF ServerOK, NetworkOK
  <2>2. View(feed, out[d]) \in [Story -> Node]
    BY <2>1, ViewType
  <2>3. ListsOK'
    BY <1>15, <2>2, VisibleType, ListType DEF Reconnect, ListsOK
  <2>4. NetworkOK'
    <3>1. /\ cache' = [cache EXCEPT ![d] = feed] /\ inbox' = [inbox EXCEPT ![d] = <<>>]
          /\ arrived' = [arrived EXCEPT ![d] = 0] /\ out' = out
      BY <1>15 DEF Reconnect
    <3>2. out' = [out EXCEPT ![d] = out[d]]
      BY <3>1 DEF NetworkOK
    <3> QED
      BY <2>1, <3>1, <3>2, ResetType
  <2>5. ASSUME NEW e \in Device PROVE Cardinality(Answers(e))' = arrived'[e]
    <3>1. CASE e = d
      <4>1. Answers(d)' = {} /\ arrived'[d] = 0
        BY <1>15 DEF Reconnect, Answers, NetworkOK
      <4> QED
        BY <3>1, <4>1, FS_EmptySet
    <3>2. CASE e # d
      <4>1. Answers(e)' = Answers(e) /\ arrived'[e] = arrived[e]
        BY <1>15, <3>2 DEF Reconnect, Answers, NetworkOK
      <4> QED
        BY <4>1 DEF AnswersMatch
    <3> QED
      BY <3>1, <3>2
  <2> QED
    BY <1>2, <1>3, <1>15, <2>3, <2>4, <2>5 DEF Reconnect, AnswersMatch
<1>16. ASSUME NEW d \in Device, Relaunch(d)
       PROVE  TypeInv'
  <2>1. feed \in [Story -> Node]
    BY DEF ServerOK
  <2>2. UploadsOK'
    BY <1>16 DEF Relaunch, UploadsOK, Phase, fileVars
  <2>3. NetworkOK'
    <3>1. /\ cache' = [cache EXCEPT ![d] = feed] /\ inbox' = [inbox EXCEPT ![d] = <<>>]
          /\ arrived' = [arrived EXCEPT ![d] = 0] /\ out' = [out EXCEPT ![d] = <<>>]
      BY <1>16 DEF Relaunch
    <3>2. <<>> \in Seq(Write) /\ Len(<<>>) = 0
      BY EmptySeq
    <3>3. NetworkOK
      OBVIOUS
    <3> QED
      BY ONLY <2>1, <3>1, <3>2, <3>3, ResetType, d \in Device
  <2>4. ListsOK'
    <3> DEFINE A == {s \in Story : Exists(feed[s]) /\ ~feed[s].body}
               r == [s \in Story |-> [count |-> IF feed[s].body THEN 1 ELSE 0,
                                       n |-> feed[s].n]]
    <3>1. Cardinality(A) \in Nat
      BY FS_Subset, FS_CardinalityType
    <3>2. r \in [Story -> Row]
      BY <2>1 DEF Node, Row
    <3>3. /\ rows' = [rows EXCEPT ![d] = r]
          /\ bare' = [bare EXCEPT ![d] = Cardinality(A)]
          /\ chosen' = [chosen EXCEPT ![d] = None]
          /\ faults < MaxFaults /\ faults' = faults + 1
      BY <1>16 DEF Relaunch
    <3> HIDE DEF A, r
    <3> QED
      BY <3>1, <3>2, <3>3 DEF ListsOK
  <2>5. ASSUME NEW e \in Device PROVE Cardinality(Answers(e))' = arrived'[e]
    <3>1. CASE e = d
      <4>1. Answers(d)' = {} /\ arrived'[d] = 0
        BY <1>16 DEF Relaunch, Answers, NetworkOK
      <4> QED
        BY <3>1, <4>1, FS_EmptySet
    <3>2. CASE e # d
      <4>1. Answers(e)' = Answers(e) /\ arrived'[e] = arrived[e]
        BY <1>16, <3>2 DEF Relaunch, Answers, NetworkOK
      <4> QED
        BY <4>1 DEF AnswersMatch
    <3> QED
      BY <3>1, <3>2
  <2> QED
    BY <1>3, <1>16, <2>2, <2>3, <2>4, <2>5 DEF Relaunch, AnswersMatch
<1>17. CASE UNCHANGED vars
  BY <1>1, <1>2, <1>3, <1>17 DEF vars
<1> QED
  BY <1>4, <1>5, <1>6, <1>7, <1>8, <1>9, <1>10, <1>11, <1>12, <1>13, <1>14,
     <1>15, <1>16, <1>17 DEF Next

(* Spec keeps every variable in its type: in particular an answer from the *)
(* server always finds a write of the device to answer, so that arrived    *)
(* never runs ahead of out.                                                *)
THEOREM FeedTypes == Spec => []TypeOK
<1>1. TypeInv => TypeOK
  BY DEF TypeInv
<1> QED
  BY <1>1, InitTypes, NextTypes, PTL DEF Spec

-----------------------------------------------------------------------------
(* Audio before story *)

HasAudio == {i \in Item : file[i] # "none"}

\* w names only recordings of F.
Backed(w, F) == w.op \in {"publish", "reply"} => w.id \in F

\* All that is written, on its way, heard of or listed names recordings of F.
QueuesBacked(F) ==
    \A d \in Device :
        /\ \A k \in 1..Len(out[d]) : Backed(out[d][k], F)
        /\ \A k \in 1..Len(inbox[d]) : Backed(inbox[d][k].write, F)
ServerBacked(F) ==
    /\ \A s \in Story : feed[s].body => s \in F
    /\ \A s \in Story : stories[s] \subseteq F
CachesBacked(F) == \A d \in Device, s \in Story : cache[d][s].body => s \in F
RowsBacked(F)   == \A d \in Device, s \in Story : rows[d][s].count > 0 => s \in F

AllBacked(F) == QueuesBacked(F) /\ ServerBacked(F) /\ CachesBacked(F) /\ RowsBacked(F)

\* An upload whose file was not put yet has none.
NoFileYet == \A i \in Item : phase[i] \in {"unused", "putting"} => file[i] = "none"

AudioInv == TypeInv /\ NoFileYet /\ AllBacked(HasAudio)

LEMMA ViewBacked ==
    ASSUME NEW heard \in [Story -> Node], NEW own \in Seq(Write), NEW F,
           \A s \in Story : heard[s].body => s \in F,
           \A k \in 1..Len(own) : Backed(own[k], F)
    PROVE  \A s \in Story : View(heard, own)[s].body => s \in F
BY ViewType DEF Backed

(* A list gains a story only from a view that shows its body. *)
LEMMA ListBacked ==
    ASSUME ListsOK, NEW d \in Device, NEW F, RowsBacked(F),
           NEW old \in [Story -> Node], NEW new \in [Story -> Node],
           \A s \in Story : new[s].body => s \in F,
           ListOfFeedEvents(d, old, new)
    PROVE  RowsBacked(F)'
<1> SUFFICES ASSUME NEW e \in Device, NEW s \in Story, rows'[e][s].count > 0
             PROVE  s \in F
  BY DEF RowsBacked
<1>1. CASE e # d
  BY <1>1 DEF ListOfFeedEvents, ListsOK, RowsBacked
<1>2. CASE e = d
  <2>1. rows'[d][s] = RowAfter(rows[d][s], old, new, s)
    BY DEF ListOfFeedEvents, ListsOK
  <2>2. CASE Added(old, new, s) /\ new[s].body
    BY <2>2
  <2>3. CASE ~(Added(old, new, s) /\ new[s].body)
    <3>1. rows'[d][s].count = 0 \/ rows'[d][s].count = rows[d][s].count
      BY <2>1, <2>3 DEF RowAfter
    <3> QED
      BY <1>2, <3>1 DEF RowsBacked
  <2> QED
    BY <2>2, <2>3
<1> QED
  BY <1>1, <1>2

(* More recordings back what fewer did. *)
LEMMA BackedGrows ==
    ASSUME NEW F, NEW G, F \subseteq G, AllBacked(F)'
    PROVE  AllBacked(G)'
BY DEF AllBacked, QueuesBacked, ServerBacked, CachesBacked, RowsBacked, Backed

(* A device that writes backed writes keeps all backed. *)
LEMMA WritesBacked ==
    ASSUME TypeInv, NEW d \in Device, NEW ops \in Seq(Write), Writes(d, ops),
           UNCHANGED dbVars, NEW F, AllBacked(F),
           \A k \in 1..Len(ops) : Backed(ops[k], F)
    PROVE  AllBacked(F)'
<1> USE DEF TypeInv, TypeOK
<1>1. out[d] \in Seq(Write) /\ cache[d] \in [Story -> Node]
  BY DEF NetworkOK
<1> DEFINE own == out[d] \o ops
<1>2. own \in Seq(Write) /\ \A k \in 1..Len(own) : Backed(own[k], F)
  <2>1. /\ own \in Seq(Write) /\ Len(own) = Len(out[d]) + Len(ops)
        /\ \A k \in 1..Len(own) :
              own[k] = IF k <= Len(out[d]) THEN out[d][k] ELSE ops[k - Len(out[d])]
    BY <1>1, ConcatProperties
  <2>2. \A k \in 1..Len(out[d]) : Backed(out[d][k], F)
    BY DEF AllBacked, QueuesBacked
  <2>3. Len(out[d]) \in Nat /\ Len(ops) \in Nat
    BY <1>1, LenProperties
  <2> HIDE DEF own
  <2>4. ASSUME NEW k \in 1..Len(own) PROVE Backed(own[k], F)
    <3>1. CASE k <= Len(out[d])
      <4>1. k \in 1..Len(out[d]) /\ own[k] = out[d][k]
        BY <2>1, <2>3, <3>1
      <4> QED
        BY <2>2, <4>1
    <3>2. CASE k > Len(out[d])
      <4>1. k - Len(out[d]) \in 1..Len(ops) /\ own[k] = ops[k - Len(out[d])]
        BY <2>1, <2>3, <3>2
      <4> QED
        BY <4>1
    <3> QED
      BY <2>1, <2>3, <3>1, <3>2
  <2> QED
    BY <2>1, <2>4
<1>3. /\ out' = [out EXCEPT ![d] = own] /\ inbox' = inbox /\ cache' = cache
      /\ ListOfFeedEvents(d, Visible(d), View(cache[d], own))
  BY DEF Writes
<1> HIDE DEF own
<1>4. QueuesBacked(F)'
  BY <1>2, <1>3 DEF AllBacked, QueuesBacked, NetworkOK
<1>5. RowsBacked(F)'
  <2>1. \A s \in Story : View(cache[d], own)[s].body => s \in F
    BY <1>1, <1>2, ViewBacked DEF AllBacked, CachesBacked
  <2>2. View(cache[d], own) \in [Story -> Node] /\ Visible(d) \in [Story -> Node]
    BY <1>1, <1>2, ViewType, VisibleType
  <2> QED
    BY <1>3, <2>1, <2>2, ListBacked DEF AllBacked
<1>6. ServerBacked(F)' /\ CachesBacked(F)'
  BY <1>3 DEF AllBacked, ServerBacked, CachesBacked, dbVars
<1> QED
  BY <1>4, <1>5, <1>6 DEF AllBacked

(* One write, backed, leaves the nodes it is applied to backed. *)
LEMMA AppliedBacked ==
    ASSUME NEW nodes \in [Story -> Node], NEW w \in Write, NEW F, Backed(w, F),
           \A s \in Story : nodes[s].body => s \in F
    PROVE  \A s \in Story : Applied(nodes, w)[s].body => s \in F
BY AppliedType DEF Backed

LEMMA ServerReceivesBacked ==
    ASSUME TypeInv, NEW d \in Device, ServerReceives(d), NEW F, AllBacked(F)
    PROVE  AllBacked(F)'
<1> USE DEF TypeInv, TypeOK
<1> DEFINE w == out[d][arrived[d] + 1]
           m == [by |-> d, write |-> w]
           M == [by : Device, write : Write]
<1>1. w \in Write /\ Backed(w, F)
  <2>1. out[d] \in Seq(Write) /\ Len(out[d]) \in Nat /\ arrived[d] \in Nat
    BY LenProperties DEF NetworkOK
  <2>2. arrived[d] + 1 \in 1..Len(out[d])
    BY <2>1 DEF ServerReceives
  <2>3. out[d][arrived[d] + 1] \in Write
    BY <2>1, <2>2, ElementOfSeq
  <2> QED
    BY <2>2, <2>3 DEF AllBacked, QueuesBacked
<1>2. m \in M /\ m.write = w
  BY <1>1
<1>3. /\ feed' = Applied(feed, w)
      /\ inbox' = [e \in Device |-> Append(inbox[e], m)]
      /\ stories' = [s \in Story |->
                        IF w.op = "reply" /\ parent[w.id] = s THEN stories[s] \cup {w.id}
                        ELSE IF w.op = "clear" /\ w.id = s THEN {}
                        ELSE stories[s]]
      /\ UNCHANGED <<out, cache, rows>>
  BY DEF ServerReceives, listVars
<1> HIDE DEF w, m
<1>4. ServerBacked(F)'
  <2>1. \A s \in Story : feed'[s].body => s \in F
    BY <1>1, <1>3, AppliedBacked DEF ServerOK, AllBacked, ServerBacked
  <2>2. \A s \in Story : stories'[s] \subseteq F
    BY <1>1, <1>3 DEF AllBacked, ServerBacked, Backed
  <2> QED
    BY <2>1, <2>2 DEF ServerBacked
<1>5. QueuesBacked(F)'
  <2>1. \A e \in Device : \A k \in 1..Len(out'[e]) : Backed(out'[e][k], F)
    BY <1>3 DEF AllBacked, QueuesBacked
  <2>2. ASSUME NEW e \in Device, NEW k \in 1..Len(inbox'[e])
        PROVE  Backed(inbox'[e][k].write, F)
    <3>1. inbox[e] \in Seq(M) /\ inbox'[e] = Append(inbox[e], m)
      BY <1>3 DEF NetworkOK
    <3>2. /\ Len(inbox'[e]) = Len(inbox[e]) + 1 /\ Len(inbox[e]) \in Nat
          /\ \A j \in 1..Len(inbox[e]) : inbox'[e][j] = inbox[e][j]
          /\ inbox'[e][Len(inbox[e]) + 1] = m
      BY <1>2, <3>1, AppendProperties, LenProperties
    <3>3. CASE k \in 1..Len(inbox[e])
      BY <3>2, <3>3 DEF AllBacked, QueuesBacked
    <3>4. CASE k = Len(inbox[e]) + 1
      BY <1>1, <1>2, <3>2, <3>4
    <3> QED
      BY <3>2, <3>3, <3>4
  <2> QED
    BY <2>1, <2>2 DEF QueuesBacked
<1>6. CachesBacked(F)' /\ RowsBacked(F)'
  BY <1>3 DEF AllBacked, CachesBacked, RowsBacked
<1> QED
  BY <1>4, <1>5, <1>6 DEF AllBacked

LEMMA TailBacked ==
    ASSUME NEW M, NEW q \in Seq(M), q # <<>>, NEW P, \A k \in 1..Len(q) : q[k] \in P
    PROVE  Head(q) \in P /\ \A k \in 1..Len(Tail(q)) : Tail(q)[k] \in P
<1>1. /\ Len(q) \in Nat \ {0} /\ Len(Tail(q)) = Len(q) - 1 /\ Head(q) = q[1]
      /\ \A k \in 1..Len(Tail(q)) : Tail(q)[k] = q[k + 1]
  BY HeadTailProperties, EmptySeq
<1> QED
  BY <1>1

LEMMA DeviceHearsBacked ==
    ASSUME TypeInv, NEW d \in Device, DeviceHears(d), NEW F, AllBacked(F)
    PROVE  AllBacked(F)'
<1> USE DEF TypeInv, TypeOK
<1> DEFINE M == [by : Device, write : Write]
           m == Head(inbox[d])
           heard == Applied(cache[d], m.write)
           own == IF m.by = d THEN Tail(out[d]) ELSE out[d]
           W == {w \in Write : Backed(w, F)}
           N == {n \in M : Backed(n.write, F)}
<1>1. inbox[d] \in Seq(M) /\ inbox[d] # <<>> /\ out[d] \in Seq(Write)
  BY DEF DeviceHears, NetworkOK
<1>2. /\ \A k \in 1..Len(inbox[d]) : inbox[d][k] \in N
      /\ \A k \in 1..Len(out[d]) : out[d][k] \in W
  <2>1. /\ \A k \in 1..Len(inbox[d]) : inbox[d][k] \in M
        /\ \A k \in 1..Len(out[d]) : out[d][k] \in Write
    BY <1>1, ElementOfSeq
  <2> QED
    BY <2>1 DEF AllBacked, QueuesBacked
<1>3. m.by = d => out[d] # <<>>
  <2>1. Cardinality(Answers(d)) = arrived[d] /\ arrived[d] <= Len(out[d])
    BY DEF AnswersMatch, NetworkOK
  <2>2. m.by = d => Cardinality(Answers(d)) >= 1
    BY <1>1, TailAnswer DEF Answers
  <2>3. Cardinality(Answers(d)) \in Nat /\ Len(<<>>) = 0
    BY <2>1, EmptySeq DEF NetworkOK
  <2> HIDE DEF m
  <2> QED
    BY <2>1, <2>2, <2>3, LenProperties, <1>1
<1>4. m \in N /\ \A k \in 1..Len(Tail(inbox[d])) : Tail(inbox[d])[k] \in N
  <2> HIDE DEF N
  <2> QED
    BY <1>1, <1>2, TailBacked
<1>5. own \in Seq(Write) /\ \A k \in 1..Len(own) : own[k] \in W
  <2> HIDE DEF W, m
  <2>1. CASE m.by = d
    BY <1>1, <1>2, <1>3, <2>1, TailBacked, HeadTailProperties
  <2>2. CASE m.by # d
    BY <1>1, <1>2, <2>2
  <2> QED
    BY <2>1, <2>2
<1>6. /\ cache' = [cache EXCEPT ![d] = heard]
      /\ out' = [out EXCEPT ![d] = own]
      /\ inbox' = [inbox EXCEPT ![d] = Tail(inbox[d])]
      /\ ListOfFeedEvents(d, Visible(d), View(heard, own))
      /\ UNCHANGED <<feed, stories>>
  BY DEF DeviceHears, dbVars
<1>7. heard \in [Story -> Node] /\ \A s \in Story : heard[s].body => s \in F
  <2>1. m.write \in Write /\ Backed(m.write, F)
    BY <1>4
  <2>2. cache[d] \in [Story -> Node] /\ \A s \in Story : cache[d][s].body => s \in F
    BY DEF NetworkOK, AllBacked, CachesBacked
  <2> HIDE DEF m
  <2> QED
    BY <2>1, <2>2, AppliedType, AppliedBacked
<1> HIDE DEF heard, own, m
<1>8. CachesBacked(F)'
  BY <1>6, <1>7 DEF AllBacked, CachesBacked, NetworkOK
<1>9. QueuesBacked(F)'
  BY <1>4, <1>5, <1>6 DEF AllBacked, QueuesBacked, NetworkOK
<1>10. RowsBacked(F)'
  <2>1. /\ View(heard, own) \in [Story -> Node] /\ Visible(d) \in [Story -> Node]
        /\ \A s \in Story : View(heard, own)[s].body => s \in F
    BY <1>5, <1>7, ViewType, VisibleType, ViewBacked
  <2> QED
    BY <1>6, <2>1, ListBacked DEF AllBacked
<1> QED
  BY <1>6, <1>8, <1>9, <1>10 DEF AllBacked, ServerBacked

LEMMA ReconnectBacked ==
    ASSUME TypeInv, NEW d \in Device, Reconnect(d) \/ Relaunch(d), NEW F, AllBacked(F)
    PROVE  AllBacked(F)'
<1> USE DEF TypeInv, TypeOK
<1>1. /\ cache' = [cache EXCEPT ![d] = feed]
      /\ inbox' = [inbox EXCEPT ![d] = <<>>]
      /\ out' = out \/ out' = [out EXCEPT ![d] = <<>>]
      /\ UNCHANGED <<feed, stories>>
  BY DEF Reconnect, Relaunch, dbVars
<1>2. \A k \in 1..Len(<<>>) : FALSE
  OBVIOUS
<1>3. QueuesBacked(F)'
  BY <1>1, <1>2 DEF AllBacked, QueuesBacked, NetworkOK
<1>4. CachesBacked(F)' /\ ServerBacked(F)'
  BY <1>1 DEF AllBacked, CachesBacked, ServerBacked, NetworkOK
<1>5. RowsBacked(F)'
  <2>1. CASE Reconnect(d)
    <3>1. feed \in [Story -> Node] /\ out[d] \in Seq(Write)
      BY DEF ServerOK, NetworkOK
    <3>2. /\ View(feed, out[d]) \in [Story -> Node] /\ Visible(d) \in [Story -> Node]
          /\ \A s \in Story : View(feed, out[d])[s].body => s \in F
      BY <3>1, ViewType, VisibleType, ViewBacked DEF AllBacked, ServerBacked, QueuesBacked
    <3> QED
      BY <2>1, <3>2, ListBacked DEF Reconnect, AllBacked
  <2>2. CASE Relaunch(d)
    <3> DEFINE r == [s \in Story |-> [count |-> IF feed[s].body THEN 1 ELSE 0,
                                       n |-> feed[s].n]]
    <3>1. rows' = [rows EXCEPT ![d] = r]
      BY <2>2 DEF Relaunch
    <3>2. \A s \in Story : r[s].count > 0 => s \in F
      BY DEF AllBacked, ServerBacked
    <3> HIDE DEF r
    <3> QED
      BY <3>1, <3>2 DEF AllBacked, RowsBacked, ListsOK
  <2> QED
    BY <2>1, <2>2
<1> QED
  BY <1>3, <1>4, <1>5 DEF AllBacked

(* A file that was stored once is never "none" again. *)
LEMMA AudioGrows ==
    ASSUME TypeInv, NoFileYet, [Next]_vars
    PROVE  HasAudio \subseteq HasAudio' /\ NoFileYet'
<1> USE FeedAssumption DEF FeedAssumption, TypeInv, TypeOK, UploadsOK, NoFileYet, HasAudio, Item
<1>1. ASSUME NEW d \in Device, NEW i \in Item, phase[i] = "unused",
             phase' = [phase EXCEPT ![i] = "putting"], file' = file
      PROVE  HasAudio \subseteq HasAudio' /\ NoFileYet'
  BY <1>1
<1>2. ASSUME NEW i \in Item, NEW p, p \notin {"unused", "putting"},
             phase' = [phase EXCEPT ![i] = p], file' = file
      PROVE  HasAudio \subseteq HasAudio' /\ NoFileYet'
  BY <1>2
<1>3. ASSUME UNCHANGED <<phase, file>>
      PROVE  HasAudio \subseteq HasAudio' /\ NoFileYet'
  BY <1>3
<1>4. ASSUME NEW i \in Item, PutFile(i)
      PROVE  HasAudio \subseteq HasAudio' /\ NoFileYet'
  BY <1>4 DEF PutFile
<1>5. ASSUME NEW s \in Story, EraseFile(s)
      PROVE  HasAudio \subseteq HasAudio' /\ NoFileYet'
  BY <1>5 DEF EraseFile, upVars
<1>6. ASSUME NEW d \in Device, Relaunch(d)
      PROVE  HasAudio \subseteq HasAudio' /\ NoFileYet'
  BY <1>6 DEF Relaunch, fileVars
<1>7. ASSUME NEW d \in Device, NEW i \in Item,
             (i \in Story /\ SendStory(d, i)) \/ (i \in Reply /\ SendReply(d, i))
      PROVE  HasAudio \subseteq HasAudio' /\ NoFileYet'
  BY <1>1, <1>7 DEF SendStory, SendReply, fileVars
<1>8. ASSUME NEW i \in Item, DownloadURLFails(i) \/ DownloadURL(i)
      PROVE  HasAudio \subseteq HasAudio' /\ NoFileYet'
  BY <1>2, <1>8 DEF DownloadURLFails, DownloadURL, fileVars
<1>9. ASSUME NEW i \in Reply, ReadNoRecordings(i) \/ CountRecording(i)
      PROVE  HasAudio \subseteq HasAudio' /\ NoFileYet'
  BY <1>2, <1>9 DEF ReadNoRecordings, CountRecording, fileVars
<1>10. ASSUME NEW d \in Device,
              \/ \E s \in Story : DidSelectRow(d, s) \/ DeleteStory(d, s)
              \/ ServerReceives(d) \/ DeviceHears(d) \/ Reconnect(d)
       PROVE  HasAudio \subseteq HasAudio' /\ NoFileYet'
  BY <1>3, <1>10 DEF DidSelectRow, DeleteStory, ServerReceives, DeviceHears, Reconnect,
                     upVars, fileVars
<1>11. CASE UNCHANGED vars
  BY <1>3, <1>11 DEF vars, upVars, fileVars
<1> QED
  BY <1>4, <1>5, <1>6, <1>7, <1>8, <1>9, <1>10, <1>11 DEF Next

LEMMA NextBacked ==
    ASSUME TypeInv, [Next]_vars, NEW F, AllBacked(F),
           \A i \in Item : DownloadURL(i) => i \in F
    PROVE  AllBacked(F)'
<1> USE FeedAssumption DEF FeedAssumption, Item
<1>1. ASSUME UNCHANGED <<dbVars, netVars, listVars>> PROVE AllBacked(F)'
  BY <1>1 DEF dbVars, netVars, listVars, AllBacked, QueuesBacked, ServerBacked,
              CachesBacked, RowsBacked
<1>2. ASSUME NEW i \in Item, DownloadURL(i) PROVE AllBacked(F)'
  <2> DEFINE w == IF i \in Story THEN PublishOp(i) ELSE ReplyOp(i)
  <2>1. w \in Write /\ Backed(w, F)
    <3>1. i \in F
      BY <1>2
    <3>2. w \in Write
      BY OpTypes, 0 \in Nat
    <3>3. w.id = i
      BY DEF PublishOp, ReplyOp
    <3> QED
      BY <3>1, <3>2, <3>3 DEF Backed
  <2>2. owner[i] \in Device /\ Writes(owner[i], <<w>>) /\ UNCHANGED dbVars
    BY <1>2 DEF DownloadURL, TypeInv, TypeOK, UploadsOK
  <2> HIDE DEF w
  <2>3. <<w>> \in Seq(Write) /\ \A k \in 1..Len(<<w>>) : Backed(<<w>>[k], F)
    BY <2>1
  <2> DEFINE ops == <<w>>
  <2>4. ops \in Seq(Write) /\ Writes(owner[i], ops) /\ \A k \in 1..Len(ops) : Backed(ops[k], F)
    BY <2>2, <2>3
  <2> HIDE DEF ops
  <2> QED
    BY <2>2, <2>4, WritesBacked
<1>3. ASSUME NEW i \in Reply, CountRecording(i) PROVE AllBacked(F)'
  <2> DEFINE ops == IF seen[i] = Absent THEN <<>> ELSE <<CountOp(parent[i], seen[i] + 1)>>
  <2>1. owner[i] \in Device /\ parent[i] \in Story /\ seen[i] \in Nat \cup {Absent}
    BY <1>3 DEF CountRecording, TypeInv, TypeOK, UploadsOK
  <2>2. ops \in Seq(Write)
    BY <2>1, OpTypes, EmptySeq
  <2>3. \A k \in 1..Len(ops) : Backed(ops[k], F)
    BY DEF Backed, CountOp
  <2>4. Writes(owner[i], ops) /\ UNCHANGED dbVars
    BY <1>3 DEF CountRecording
  <2> HIDE DEF ops
  <2> QED
    BY <2>1, <2>2, <2>3, <2>4, WritesBacked
<1>4. ASSUME NEW d \in Device, NEW s \in Story, DeleteStory(d, s) PROVE AllBacked(F)'
  <2> DEFINE ops == <<RemoveOp(s), ClearOp(s)>>
  <2>1. ops \in Seq(Write)
    BY OpTypes, 0 \in Nat
  <2>2. \A k \in 1..Len(ops) : Backed(ops[k], F)
    BY DEF Backed, RemoveOp, ClearOp
  <2>3. Writes(d, ops) /\ UNCHANGED dbVars
    BY <1>4 DEF DeleteStory
  <2> HIDE DEF ops
  <2> QED
    BY <2>1, <2>2, <2>3, WritesBacked
<1>5. ASSUME NEW d \in Device,
             ServerReceives(d) \/ DeviceHears(d) \/ Reconnect(d) \/ Relaunch(d)
      PROVE  AllBacked(F)'
  BY <1>5, ServerReceivesBacked, DeviceHearsBacked, ReconnectBacked
<1>6. ASSUME NEW d \in Device, NEW s \in Story,
             SendStory(d, s) \/ DidSelectRow(d, s)
      PROVE  AllBacked(F)'
  BY <1>1, <1>6 DEF SendStory, DidSelectRow
<1>7. ASSUME NEW d \in Device, NEW i \in Reply, SendReply(d, i)
      PROVE  AllBacked(F)'
  BY <1>1, <1>7 DEF SendReply
<1>8. ASSUME NEW i \in Item, PutFile(i) \/ DownloadURLFails(i) PROVE AllBacked(F)'
  BY <1>1, <1>8 DEF PutFile, DownloadURLFails
<1>9. ASSUME NEW s \in Story, EraseFile(s) PROVE AllBacked(F)'
  BY <1>1, <1>9 DEF EraseFile
<1>10. ASSUME NEW i \in Reply, ReadNoRecordings(i) PROVE AllBacked(F)'
  BY <1>1, <1>10 DEF ReadNoRecordings
<1>11. CASE UNCHANGED vars
  BY <1>1, <1>11 DEF vars
<1> QED
  BY <1>2, <1>3, <1>4, <1>5, <1>6, <1>7, <1>8, <1>9, <1>10, <1>11 DEF Next

LEMMA NextAudio == AudioInv /\ [Next]_vars => AudioInv'
<1> SUFFICES ASSUME AudioInv, [Next]_vars PROVE AudioInv'
  OBVIOUS
<1>1. PICK F : F = HasAudio
  OBVIOUS
<1>2. F \subseteq HasAudio' /\ NoFileYet'
  BY <1>1, AudioGrows DEF AudioInv
<1>3. PICK G : G = HasAudio'
  OBVIOUS
<1>4. AllBacked(F)'
  <2>1. \A i \in Item : DownloadURL(i) => i \in F
    BY <1>1 DEF DownloadURL, HasAudio
  <2> QED
    BY <1>1, <2>1, NextBacked DEF AudioInv
<1>5. AllBacked(G)'
  BY <1>2, <1>3, <1>4, BackedGrows
<1> QED
  BY <1>2, <1>3, <1>5, NextTypes DEF AudioInv

(* Every interleaving of uploads, writes, lost connections and killed apps *)
(* shows only stories whose recording was stored first, for any number of  *)
(* devices, stories and replies.                                           *)
THEOREM AudioSafety == Spec => []AudioBeforeStory
<1>1. Init => AudioInv
  <2>1. Init => NoFileYet
    BY DEF Init, NoFileYet
  <2>2. Init => QueuesBacked(HasAudio)
    BY DEF Init, QueuesBacked
  <2>3. Init => ServerBacked(HasAudio) /\ CachesBacked(HasAudio) /\ RowsBacked(HasAudio)
    BY DEF Init, ServerBacked, CachesBacked, RowsBacked, Gone
  <2> QED
    BY <2>1, <2>2, <2>3, InitTypes DEF AudioInv, AllBacked
<1>2. AudioInv => AudioBeforeStory
  <2> SUFFICES ASSUME AudioInv PROVE AudioBeforeStory
    OBVIOUS
  <2>1. \A i \in HasAudio : file[i] # "none"
    BY DEF HasAudio
  <2> QED
    BY <2>1 DEF AudioInv, AllBacked, ServerBacked, RowsBacked, AudioBeforeStory
<1> QED
  BY <1>1, <1>2, NextAudio, PTL DEF Spec

=============================================================================
