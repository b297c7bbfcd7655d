-------------------------- MODULE ProfileListProofs --------------------------
(* ProfileList keeps the user's own stories, for any number of stories and *)
(* every order of what the observers, the main queue and the user do.      *)
EXTENDS ProfileList, SequenceTheorems, TLAPS

ListInv ==
    /\ TypeOK
    /\ ListIsOwnFeed
    /\ OnlyOwnAreErased
    /\ SteadyAlertIsRight
    /\ SettledTableIsTheList

\* list has a row for each story of shown, with its counter, and no other.
Mirrors(list, shown, n) ==
    /\ \A s \in Story : IsListed(list, s) <=> s \in shown
    /\ \A i, j \in DOMAIN list : list[i].story = list[j].story => i = j
    /\ \A i \in DOMAIN list : list[i].n = n[list[i].story]

\* The stories of list were added as a says, the last one first.
NewestFirst(list, a) ==
    \A i, j \in DOMAIN list : i < j => a[list[i].story] > a[list[j].story]

LEMMA MirrorsIsListIsOwnFeed ==
  ListIsOwnFeed <=> Mirrors(feedList, Own \cap There, count) /\ NewestFirst(feedList, added)
  BY DEF ListIsOwnFeed, Mirrors, NewestFirst

LEMMA ListIsOwnFeedNext ==
  ASSUME Mirrors(feedList', Own \cap (published' \ deleted'), count'),
         NewestFirst(feedList', added')
  PROVE  ListIsOwnFeed'
  BY DEF ListIsOwnFeed, Mirrors, NewestFirst, IsListed, There

LEMMA StoriesType ==
  ASSUME NEW list \in Seq(Item)
  PROVE  /\ Stories(list) \in Seq(Story)
         /\ DOMAIN Stories(list) = 1..Len(list)
         /\ \A i \in 1..Len(list) : Stories(list)[i] = list[i].story
<1>1. Len(list) \in Nat /\ DOMAIN list = 1..Len(list)
  BY LenProperties
<1>2. \A i \in 1..Len(list) : list[i] \in Item
  BY ElementOfSeq
<1> QED
  BY <1>1, <1>2, IsASeq DEF Stories, Item

LEMMA RowOfType ==
  ASSUME NEW list \in Seq(Item), NEW s \in Story, IsListed(list, s)
  PROVE  RowOf(list, s) \in 1..Len(list) /\ list[RowOf(list, s)].story = s
<1>1. DOMAIN list = 1..Len(list)
  BY LenProperties
<1> QED
  BY <1>1 DEF RowOf, IsListed

LEMMA Pushed ==
  ASSUME NEW list \in Seq(Item), NEW x \in Item
  PROVE  LET new == <<x>> \o list
         IN  /\ new \in Seq(Item)
             /\ Len(new) = Len(list) + 1
             /\ new[1] = x
             /\ \A i \in 1..Len(list) : new[i + 1] = list[i]
<1> DEFINE new == <<x>> \o list
<1>1. <<x>> \in Seq(Item) /\ Len(<<x>>) = 1 /\ <<x>>[1] = x /\ Len(list) \in Nat
  BY LenProperties
<1>2. /\ new \in Seq(Item)
      /\ Len(new) = 1 + Len(list)
      /\ \A i \in 1..(1 + Len(list)) :
            new[i] = IF i <= 1 THEN <<x>>[i] ELSE list[i - 1]
  BY <1>1, ConcatProperties
<1>3. ASSUME NEW i \in 1..Len(list) PROVE new[i + 1] = list[i]
  <2>1. i + 1 \in 1..(1 + Len(list)) /\ ~(i + 1 <= 1) /\ (i + 1) - 1 = i
    BY <1>1
  <2> QED
    BY <1>2, <2>1
<1>4. new[1] = x
  BY <1>1, <1>2
<1> QED
  BY <1>1, <1>2, <1>3, <1>4

LEMMA Dropped ==
  ASSUME NEW list \in Seq(Item), NEW s \in Story, IsListed(list, s)
  PROVE  LET r   == RowOf(list, s)
             new == Without(list, s)
         IN  /\ r \in 1..Len(list) /\ list[r].story = s
             /\ new \in Seq(Item)
             /\ Len(new) = Len(list) - 1
             /\ \A i \in 1..Len(new) : new[i] = list[IF i < r THEN i ELSE i + 1]
<1> DEFINE r   == RowOf(list, s)
           new == Without(list, s)
           low == SubSeq(list, 1, r - 1)
           high == SubSeq(list, r + 1, Len(list))
<1>1. r \in 1..Len(list) /\ list[r].story = s /\ Len(list) \in Nat
  BY RowOfType, LenProperties
<1>2. \A i \in 1..Len(list) : list[i] \in Item
  BY ElementOfSeq
<1> HIDE DEF r
<1>3. /\ low \in Seq(Item)
      /\ Len(low) = r - 1
      /\ \A i \in 1..(r - 1) : low[i] = list[i]
  <2>1. \A i \in 1..(r - 1) : list[i] \in Item
    BY <1>1, <1>2
  <2>2. /\ low \in Seq(Item)
        /\ Len(low) = IF 1 <= r - 1 THEN (r - 1) - 1 + 1 ELSE 0
        /\ \A i \in 1..((r - 1) - 1 + 1) : low[i] = list[1 + i - 1]
    <3>1. 1 \in Int /\ r - 1 \in Int
      BY <1>1
    <3> QED
      BY <2>1, <3>1, SubSeqProperties
  <2> QED
    BY <1>1, <2>2
<1>4. /\ high \in Seq(Item)
      /\ Len(high) = Len(list) - r
      /\ \A i \in 1..(Len(list) - r) : high[i] = list[r + i]
  <2>1. \A i \in (r + 1)..Len(list) : list[i] \in Item
    BY <1>1, <1>2
  <2>2. /\ high \in Seq(Item)
        /\ Len(high) = IF r + 1 <= Len(list) THEN Len(list) - (r + 1) + 1 ELSE 0
        /\ \A i \in 1..(Len(list) - (r + 1) + 1) : high[i] = list[(r + 1) + i - 1]
    <3>1. r + 1 \in Int /\ Len(list) \in Int
      BY <1>1
    <3> QED
      BY <2>1, <3>1, SubSeqProperties
  <2> QED
    BY <1>1, <2>2
<1>5. new = low \o high
  BY DEF Without, RemoveAt, r
<1> HIDE DEF new, low, high
<1>6. /\ new \in Seq(Item)
      /\ Len(new) = Len(low) + Len(high)
      /\ \A i \in 1..(Len(low) + Len(high)) :
            new[i] = IF i <= Len(low) THEN low[i] ELSE high[i - Len(low)]
  BY <1>3, <1>4, <1>5, ConcatProperties
<1>7. Len(new) = Len(list) - 1
  BY <1>1, <1>3, <1>4, <1>6
<1>8. ASSUME NEW i \in 1..Len(new) PROVE new[i] = list[IF i < r THEN i ELSE i + 1]
  <2>1. i \in 1..(Len(low) + Len(high))
    BY <1>6
  <2>2. CASE i < r
    <3>1. i <= Len(low) /\ i \in 1..(r - 1)
      BY <1>1, <1>3, <2>2
    <3> QED
      BY <1>3, <1>6, <2>1, <2>2, <3>1
  <2>3. CASE ~(i < r)
    <3>1. ~(i <= Len(low)) /\ i - Len(low) \in 1..(Len(list) - r) /\ r + (i - Len(low)) = i + 1
      BY <1>1, <1>3, <1>4, <1>7, <2>3
    <3> QED
      BY <1>4, <1>6, <2>1, <2>3, <3>1
  <2> QED
    BY <2>2, <2>3
<1> QED
  BY <1>1, <1>6, <1>7, <1>8 DEF r, new

\* A story listed on top, or taken out, or counted: the list still mirrors.
LEMMA MirrorsPush ==
  ASSUME NEW list \in Seq(Item), NEW shown, NEW n, NEW s \in Story,
         Mirrors(list, shown, n), s \notin shown, n[s] \in 0..MaxCount
  PROVE  Mirrors(<<[story |-> s, n |-> n[s]]>> \o list, shown \cup {s}, n)
<1> DEFINE x   == [story |-> s, n |-> n[s]]
           new == <<x>> \o list
<1>1. x \in Item /\ x.story = s /\ x.n = n[s]
  BY DEF Item
<1>2. /\ new \in Seq(Item) /\ Len(new) = Len(list) + 1 /\ new[1] = x
      /\ \A i \in 1..Len(list) : new[i + 1] = list[i]
  BY <1>1, Pushed
<1>3. /\ DOMAIN list = 1..Len(list) /\ Len(list) \in Nat
      /\ DOMAIN new = 1..Len(new)
  BY <1>2, LenProperties
<1> HIDE DEF x, new
<1>4. \A i \in DOMAIN new : i = 1 \/ (i - 1 \in DOMAIN list /\ new[i] = list[i - 1])
  <2> SUFFICES ASSUME NEW i \in DOMAIN new, i # 1
               PROVE  i - 1 \in DOMAIN list /\ new[i] = list[i - 1]
    OBVIOUS
  <2>1. i - 1 \in 1..Len(list) /\ (i - 1) + 1 = i
    BY <1>2, <1>3
  <2> QED
    BY <1>2, <1>3, <2>1
<1>5. \A i \in DOMAIN list : i + 1 \in DOMAIN new /\ new[i + 1] = list[i]
  BY <1>2, <1>3
<1>6. \A i \in DOMAIN list : list[i].story # s
  BY DEF Mirrors, IsListed
<1>7. ASSUME NEW t \in Story PROVE IsListed(new, t) <=> t \in shown \cup {s}
  <2>1. IsListed(list, t) <=> t \in shown
    BY DEF Mirrors
  <2>2. 1 \in DOMAIN new
    BY <1>2, <1>3
  <2>3. new[1].story = s
    BY <1>1, <1>2
  <2>4. ASSUME NEW i \in DOMAIN new, new[i].story = t PROVE t \in shown \cup {s}
    <3>1. CASE i = 1
      BY <2>3, <2>4, <3>1
    <3>2. CASE i - 1 \in DOMAIN list /\ new[i] = list[i - 1]
      BY <2>1, <2>4, <3>2 DEF IsListed
    <3> QED
      BY <1>4, <3>1, <3>2
  <2>5. t \in shown => \E i \in DOMAIN new : new[i].story = t
    <3> SUFFICES ASSUME t \in shown PROVE \E i \in DOMAIN new : new[i].story = t
      OBVIOUS
    <3>1. PICK i \in DOMAIN list : list[i].story = t
      BY <2>1 DEF IsListed
    <3> QED
      BY <1>5, <3>1
  <2> QED
    BY <2>2, <2>3, <2>4, <2>5 DEF IsListed
<1>8. ASSUME NEW i \in DOMAIN new, NEW j \in DOMAIN new, new[i].story = new[j].story
      PROVE  i = j
  <2>1. CASE i = 1 \/ j = 1
    BY <1>1, <1>2, <1>4, <1>6, <1>8, <2>1
  <2>2. CASE i # 1 /\ j # 1
    <3>1. i - 1 = j - 1
      BY <1>4, <1>8, <2>2 DEF Mirrors
    <3> QED
      BY <1>3, <3>1
  <2> QED
    BY <2>1, <2>2
<1>9. \A i \in DOMAIN new : new[i].n = n[new[i].story]
  BY <1>1, <1>2, <1>4 DEF Mirrors
<1> QED
  BY <1>7, <1>8, <1>9 DEF Mirrors, new, x

LEMMA MirrorsDrop ==
  ASSUME NEW list \in Seq(Item), NEW shown, NEW n, NEW s \in Story,
         Mirrors(list, shown, n)
  PROVE  /\ Without(list, s) \in Seq(Item)
         /\ Mirrors(Without(list, s), shown \ {s}, n)
<1>1. CASE ~IsListed(list, s)
  <2>1. s \notin shown /\ Without(list, s) = list
    BY <1>1 DEF Mirrors, Without
  <2>2. shown \ {s} = shown
    BY <2>1
  <2> QED
    BY <2>1, <2>2
<1>2. CASE IsListed(list, s)
  <2> DEFINE r   == RowOf(list, s)
             new == Without(list, s)
             back(i) == IF i < r THEN i ELSE i + 1
  <2>1. /\ r \in 1..Len(list) /\ list[r].story = s
        /\ new \in Seq(Item) /\ Len(new) = Len(list) - 1
        /\ \A i \in 1..Len(new) : new[i] = list[back(i)]
    BY <1>2, Dropped
  <2>2. /\ DOMAIN list = 1..Len(list) /\ Len(list) \in Nat
        /\ DOMAIN new = 1..Len(new)
    BY <2>1, LenProperties
  <2> HIDE DEF r, new
  <2>3. \A i \in DOMAIN new : back(i) \in DOMAIN list /\ back(i) # r /\ new[i] = list[back(i)]
    BY <2>1, <2>2
  <2>4. \A i, j \in DOMAIN new : back(i) = back(j) => i = j
    BY <2>1, <2>2
  <2>5. \A j \in DOMAIN list : j # r => \E i \in DOMAIN new : back(i) = j
    <3> SUFFICES ASSUME NEW j \in DOMAIN list, j # r
                 PROVE  \E i \in DOMAIN new : back(i) = j
      OBVIOUS
    <3>1. CASE j < r
      <4>1. j \in DOMAIN new /\ back(j) = j
        BY <2>1, <2>2, <3>1
      <4> QED
        BY <4>1
    <3>2. CASE ~(j < r)
      <4>1. j - 1 \in DOMAIN new /\ back(j - 1) = j
        BY <2>1, <2>2, <3>2
      <4> QED
        BY <4>1
    <3> QED
      BY <3>1, <3>2
  <2> HIDE DEF back
  <2>6. \A i, j \in DOMAIN list : list[i].story = list[j].story => i = j
    BY DEF Mirrors
  <2>7. r \in DOMAIN list
    BY <2>1, <2>2
  <2>8. ASSUME NEW t \in Story PROVE IsListed(new, t) <=> t \in shown \ {s}
    <3>1. IsListed(list, t) <=> t \in shown
      BY DEF Mirrors
    <3>2. IsListed(new, t) => t \in shown \ {s}
      BY <2>1, <2>3, <2>6, <2>7, <3>1 DEF IsListed
    <3>3. t \in shown \ {s} => IsListed(new, t)
      BY <2>1, <2>3, <2>5, <3>1 DEF IsListed
    <3> QED
      BY <3>2, <3>3
  <2>9. \A i, j \in DOMAIN new : new[i].story = new[j].story => i = j
    BY <2>3, <2>4, <2>6
  <2>10. \A i \in DOMAIN new : new[i].n = n[new[i].story]
    BY <2>3 DEF Mirrors
  <2> QED
    BY <2>1, <2>8, <2>9, <2>10 DEF Mirrors, new
<1> QED
  BY <1>1, <1>2

LEMMA MirrorsCount ==
  ASSUME NEW list \in Seq(Item), NEW shown, NEW n \in [Story -> 0..MaxCount],
         NEW s \in Story, Mirrors(list, shown, n), IsListed(list, s), n[s] < MaxCount
  PROVE  LET new == [list EXCEPT ![RowOf(list, s)].n = n[s] + 1]
         IN  /\ new \in Seq(Item)
             /\ Mirrors(new, shown, [n EXCEPT ![s] = @ + 1])
<1> DEFINE r   == RowOf(list, s)
           x   == [list[r] EXCEPT !.n = n[s] + 1]
           new == [list EXCEPT ![r] = x]
           m   == [n EXCEPT ![s] = @ + 1]
<1>1. r \in 1..Len(list) /\ list[r].story = s
  BY RowOfType
<1>2. n[s] + 1 \in 0..MaxCount
  BY ListAssumption DEF ListAssumption
<1>3. x \in Item /\ x.story = s /\ x.n = n[s] + 1
  <2>1. list[r] \in Item
    BY <1>1, ElementOfSeq
  <2> QED
    BY <1>1, <1>2, <2>1 DEF Item
<1> HIDE DEF r, x
<1>4. /\ new \in Seq(Item) /\ Len(new) = Len(list)
      /\ \A i \in 1..Len(list) : new[i] = IF i = r THEN x ELSE list[i]
  BY <1>1, <1>3, ExceptSeq
<1>5. DOMAIN list = 1..Len(list) /\ DOMAIN new = 1..Len(list)
  BY <1>4, LenProperties
<1> HIDE DEF new
<1>6. \A i \in DOMAIN list : new[i].story = list[i].story
  BY <1>1, <1>3, <1>4, <1>5
<1>7. \A t \in Story : IsListed(new, t) <=> IsListed(list, t)
  BY <1>5, <1>6 DEF IsListed
<1>8. ASSUME NEW i \in DOMAIN new PROVE new[i].n = m[new[i].story]
  <2>1. CASE i = r
    BY <1>1, <1>3, <1>4, <1>5, <2>1
  <2>2. CASE i # r
    <3>1. list[i].story # s
      BY <1>1, <1>5, <2>2 DEF Mirrors
    <3>2. new[i] = list[i]
      BY <1>4, <1>5, <2>2
    <3> QED
      BY <1>5, <3>1, <3>2 DEF Mirrors
  <2> QED
    BY <2>1, <2>2
<1>9. Mirrors(new, shown, m)
  BY <1>5, <1>6, <1>7, <1>8 DEF Mirrors
<1>10. new = [list EXCEPT ![RowOf(list, s)].n = n[s] + 1]
  BY DEF new, r, x
<1> QED
  BY <1>4, <1>9, <1>10

\* A story that comes on top is the newest of all.
LEMMA NewestFirstPush ==
  ASSUME NEW list \in Seq(Item), NEW x \in Item, NEW h \in Nat, NEW a \in [Story -> 0..h],
         NewestFirst(list, a), ~IsListed(list, x.story)
  PROVE  NewestFirst(<<x>> \o list, [a EXCEPT ![x.story] = h + 1])
<1> DEFINE new == <<x>> \o list
           b   == [a EXCEPT ![x.story] = h + 1]
<1>1. /\ new \in Seq(Item) /\ Len(new) = Len(list) + 1 /\ new[1] = x
      /\ \A i \in 1..Len(list) : new[i + 1] = list[i]
  BY Pushed
<1>2. /\ DOMAIN list = 1..Len(list) /\ Len(list) \in Nat
      /\ DOMAIN new = 1..Len(new)
  BY <1>1, LenProperties
<1>3. \A i \in DOMAIN list : list[i].story \in Story /\ list[i].story # x.story
  <2>1. \A i \in DOMAIN list : list[i] \in Item
    BY <1>2, ElementOfSeq
  <2> QED
    BY <2>1 DEF IsListed, Item
<1>4. x.story \in Story
  BY DEF Item
<1>5. /\ b[x.story] = h + 1
      /\ \A i \in DOMAIN list : b[list[i].story] = a[list[i].story] /\ a[list[i].story] \in 0..h
  BY <1>3, <1>4
<1> HIDE DEF new, b
<1>6. SUFFICES ASSUME NEW i \in DOMAIN new, NEW j \in DOMAIN new, i < j
               PROVE  b[new[i].story] > b[new[j].story]
  BY DEF NewestFirst, new, b
<1>7. j - 1 \in DOMAIN list /\ new[j] = list[j - 1]
  <2>1. j - 1 \in 1..Len(list) /\ (j - 1) + 1 = j
    BY <1>1, <1>2, <1>6
  <2> QED
    BY <1>1, <1>2, <2>1
<1>8. CASE i = 1
  <2>1. b[new[i].story] = h + 1 /\ b[new[j].story] \in 0..h
    BY <1>1, <1>5, <1>7, <1>8
  <2> QED
    BY <2>1
<1>9. CASE i # 1
  <2>1. i - 1 \in 1..Len(list) /\ (i - 1) + 1 = i /\ i - 1 < j - 1
    BY <1>1, <1>2, <1>6, <1>9
  <2>2. i - 1 \in DOMAIN list /\ new[i] = list[i - 1]
    BY <1>1, <1>2, <2>1
  <2>3. a[list[i - 1].story] > a[list[j - 1].story]
    BY <1>7, <2>1, <2>2 DEF NewestFirst
  <2> QED
    BY <1>5, <1>7, <2>2, <2>3
<1> QED
  BY <1>8, <1>9

\* A story that goes leaves the others in their order.
LEMMA NewestFirstDrop ==
  ASSUME NEW list \in Seq(Item), NEW a, NEW s \in Story, NewestFirst(list, a)
  PROVE  NewestFirst(Without(list, s), a)
<1>1. CASE ~IsListed(list, s)
  BY <1>1 DEF Without
<1>2. CASE IsListed(list, s)
  <2> DEFINE r   == RowOf(list, s)
             new == Without(list, s)
             back(i) == IF i < r THEN i ELSE i + 1
  <2>1. /\ r \in 1..Len(list)
        /\ new \in Seq(Item) /\ Len(new) = Len(list) - 1
        /\ \A i \in 1..Len(new) : new[i] = list[back(i)]
    BY <1>2, Dropped
  <2>2. /\ DOMAIN list = 1..Len(list) /\ Len(list) \in Nat
        /\ DOMAIN new = 1..Len(new)
    BY <2>1, LenProperties
  <2> HIDE DEF r, new
  <2>3. \A i \in DOMAIN new : back(i) \in DOMAIN list /\ new[i] = list[back(i)]
    BY <2>1, <2>2
  <2>4. \A i, j \in DOMAIN new : i < j => back(i) < back(j)
    BY <2>1, <2>2
  <2> HIDE DEF back
  <2>5. NewestFirst(new, a)
    BY <2>3, <2>4 DEF NewestFirst
  <2> QED
    BY <2>5 DEF new
<1> QED
  BY <1>1, <1>2

\* A counter is no part of the order.
LEMMA NewestFirstCount ==
  ASSUME NEW list \in Seq(Item), NEW a, NEW s \in Story, NEW n, NewestFirst(list, a),
         IsListed(list, s)
  PROVE  NewestFirst([list EXCEPT ![RowOf(list, s)].n = n], a)
<1> DEFINE r   == RowOf(list, s)
           x   == [list[r] EXCEPT !.n = n]
           new == [list EXCEPT ![r] = x]
<1>1. r \in DOMAIN list
  BY RowOfType, LenProperties
<1>2. x.story = list[r].story
  <2>1. list[r] \in Item
    BY <1>1, ElementOfSeq, LenProperties
  <2> QED
    BY <2>1 DEF Item
<1> HIDE DEF r, x
<1>3. DOMAIN new = DOMAIN list /\ \A i \in DOMAIN list : new[i].story = list[i].story
  BY <1>1, <1>2
<1>4. NewestFirst(new, a)
  BY <1>3 DEF NewestFirst
<1> QED
  BY <1>4 DEF r, x

\* A change of the list leaves a steady alert about the row that was swiped.
LEMMA SteadyStays ==
  ASSUME NEW list \in Seq(Item), feedList \in Seq(Item), feedList' = list,
         SteadyAlertIsRight, AlertStays(list)
  PROVE  SteadyAlertIsRight'
<1> SUFFICES ASSUME alert' # 0, steady'
             PROVE  alert' \in DOMAIN feedList' /\ feedList'[alert'].story = asked'
  BY DEF SteadyAlertIsRight
<1>1. /\ alert' = alert /\ asked' = asked /\ steady
      /\ Stories(list) = Stories(feedList)
  BY DEF AlertStays
<1>2. /\ DOMAIN Stories(list) = 1..Len(list) /\ DOMAIN list = 1..Len(list)
      /\ \A i \in 1..Len(list) : Stories(list)[i] = list[i].story
  BY StoriesType, LenProperties
<1>3. /\ DOMAIN Stories(feedList) = 1..Len(feedList) /\ DOMAIN feedList = 1..Len(feedList)
      /\ \A i \in 1..Len(feedList) : Stories(feedList)[i] = feedList[i].story
  BY StoriesType, LenProperties
<1>4. alert \in DOMAIN feedList /\ feedList[alert].story = asked
  BY <1>1 DEF SteadyAlertIsRight
<1> QED
  BY <1>1, <1>2, <1>3, <1>4

\* What every change of the list needs for the invariant.
LEMMA ListChanges ==
  ASSUME ListInv, NEW list \in Seq(Item),
         Becomes(list), AlertStays(list), erased' = erased, crashed' = crashed,
         chosen' = chosen, published' \subseteq Story, deleted' \subseteq published',
         heard' \in Nat, added' \in [Story -> 0..heard'],
         deleted \subseteq deleted', count' \in [Story -> 0..MaxCount],
         Mirrors(list, Own \cap (published' \ deleted'), count'),
         NewestFirst(list, added')
  PROVE  ListInv'
<1>1. feedList' = list /\ reloading' = TRUE /\ drawn' = drawn
  BY DEF Becomes
<1>2. feedList \in Seq(Item) /\ steady \in BOOLEAN
  BY DEF ListInv, TypeOK
<1>3. SteadyAlertIsRight'
  BY <1>1, <1>2, SteadyStays DEF ListInv
<1>4. TypeOK'
  <2>1. steady' \in BOOLEAN /\ alert' = alert /\ asked' = asked /\ agreed' = agreed
    BY <1>2 DEF AlertStays
  <2> QED
    BY <1>1, <2>1 DEF ListInv, TypeOK
<1>5. ListIsOwnFeed'
  BY <1>1, ListIsOwnFeedNext
<1>6. OnlyOwnAreErased' /\ SettledTableIsTheList'
  BY <1>1 DEF ListInv, OnlyOwnAreErased, SettledTableIsTheList
<1> QED
  BY <1>3, <1>4, <1>5, <1>6 DEF ListInv

LEMMA InitList == Init => ListInv
<1> SUFFICES ASSUME Init PROVE ListInv
  OBVIOUS
<1>1. TypeOK
  <2>1. feedList \in Seq(Item) /\ drawn \in Seq(Story)
    BY EmptySeq DEF Init
  <2>2. count \in [Story -> 0..MaxCount]
    <3>1. 0 \in 0..MaxCount
      BY ListAssumption DEF ListAssumption
    <3> QED
      BY <3>1 DEF Init
  <2>3. heard \in Nat /\ added \in [Story -> 0..heard]
    <3>1. heard = 0 /\ added = [s \in Story |-> 0] /\ 0 \in 0..heard
      BY DEF Init
    <3> QED
      BY <3>1
  <2>4. /\ published = {} /\ deleted = {} /\ erased = {} /\ agreed = {}
        /\ alert = 0 /\ asked = None /\ chosen = None
        /\ reloading = FALSE /\ steady = TRUE /\ crashed = FALSE
    BY DEF Init
  <2> QED
    BY <2>1, <2>2, <2>3, <2>4 DEF TypeOK
<1>2. feedList = <<>> /\ DOMAIN feedList = {}
  <2>1. feedList = <<>> /\ feedList \in Seq(Item)
    BY <1>1 DEF Init, TypeOK
  <2> QED
    BY <2>1, EmptySeq, LenProperties
<1>3. ListIsOwnFeed
  BY <1>2 DEF Init, ListIsOwnFeed, IsListed, There
<1>4. SteadyAlertIsRight /\ OnlyOwnAreErased
  BY DEF Init, SteadyAlertIsRight, OnlyOwnAreErased
<1>5. SettledTableIsTheList
  <2>1. Stories(feedList) \in Seq(Story) /\ DOMAIN Stories(feedList) = 1..Len(feedList)
    BY <1>1, StoriesType DEF TypeOK
  <2>2. Stories(feedList) = <<>>
    BY <1>2, <2>1, EmptySeq, LenProperties
  <2> QED
    BY <2>2 DEF Init, SettledTableIsTheList
<1> QED
  BY <1>1, <1>3, <1>4, <1>5 DEF ListInv

LEMMA AddedKeeps == ASSUME NEW s \in Story, ListInv, ChildAdded(s) PROVE ListInv'
<1> DEFINE list == IF s \in Own THEN <<[story |-> s, n |-> count[s]]>> \o feedList ELSE feedList
<1>1. /\ TypeOK /\ Mirrors(feedList, Own \cap There, count)
      /\ NewestFirst(feedList, added)
  BY MirrorsIsListIsOwnFeed DEF ListInv
<1>2. published' = published \cup {s} /\ UNCHANGED <<count, deleted, erased, chosen, crashed>>
      /\ Becomes(list) /\ AlertStays(list) /\ s \notin published
      /\ heard' = heard + 1 /\ added' = [added EXCEPT ![s] = heard + 1]
  BY DEF ChildAdded, Arrives
<1>4. heard' \in Nat /\ added' \in [Story -> 0..heard']
  BY <1>1, <1>2 DEF TypeOK
<1>5. ~IsListed(feedList, s)
  BY <1>1, <1>2 DEF Mirrors, There
<1>6. NewestFirst(list, added')
  <2>1. CASE s \in Own
    <3> DEFINE x == [story |-> s, n |-> count[s]]
    <3>1. x \in Item /\ x.story = s
      BY <1>1 DEF Item, TypeOK
    <3> HIDE DEF x
    <3>2. NewestFirst(<<x>> \o feedList, [added EXCEPT ![x.story] = heard + 1])
      BY <1>1, <1>5, <3>1, NewestFirstPush DEF TypeOK
    <3> QED
      BY <1>2, <2>1, <3>1, <3>2 DEF x
  <2>2. CASE s \notin Own
    <3>1. \A i \in DOMAIN feedList : feedList[i].story \in Story /\ feedList[i].story # s
      <4>1. \A i \in DOMAIN feedList : feedList[i] \in Item
        BY <1>1, ElementOfSeq, LenProperties DEF TypeOK
      <4> QED
        BY <1>5, <4>1 DEF IsListed, Item
    <3>2. \A i \in DOMAIN feedList : added'[feedList[i].story] = added[feedList[i].story]
      BY <1>1, <1>2, <3>1 DEF TypeOK
    <3> QED
      BY <1>1, <2>2, <3>2 DEF NewestFirst
  <2> QED
    BY <2>1, <2>2
<1>3. list \in Seq(Item) /\ Mirrors(list, Own \cap (published' \ deleted'), count')
  <2>1. CASE s \notin Own
    <3>1. Own \cap (published' \ deleted') = Own \cap There
      BY <1>2, <2>1 DEF There
    <3> QED
      BY <1>1, <1>2, <2>1, <3>1 DEF TypeOK
  <2>2. CASE s \in Own
    <3>1. Own \cap (published' \ deleted') = (Own \cap There) \cup {s}
      BY <1>1, <1>2, <2>2 DEF There, TypeOK
    <3>2. s \notin Own \cap There /\ count[s] \in 0..MaxCount
      BY <1>1, <1>2 DEF There, TypeOK
    <3>3. [story |-> s, n |-> count[s]] \in Item /\ feedList \in Seq(Item)
      BY <1>1, <3>2 DEF Item, TypeOK
    <3>4. list \in Seq(Item)
      BY <2>2, <3>3, Pushed
    <3>5. Mirrors(list, (Own \cap There) \cup {s}, count)
      BY <1>1, <2>2, <3>2, <3>3, MirrorsPush
    <3> QED
      BY <1>2, <3>1, <3>4, <3>5
  <2> QED
    BY <2>1, <2>2
<1> QED
  BY <1>1, <1>2, <1>3, <1>4, <1>6, ListChanges DEF TypeOK

LEMMA ChangedKeeps == ASSUME NEW s \in Story, ListInv, ChildChanged(s) PROVE ListInv'
<1> DEFINE list == IF s \in Own /\ IsListed(feedList, s)
                   THEN [feedList EXCEPT ![RowOf(feedList, s)].n = count[s] + 1]
                   ELSE feedList
<1>1. /\ TypeOK /\ Mirrors(feedList, Own \cap There, count)
      /\ NewestFirst(feedList, added)
  BY MirrorsIsListIsOwnFeed DEF ListInv
<1>2. /\ s \in There /\ count[s] < MaxCount
      /\ count' = [count EXCEPT ![s] = @ + 1]
      /\ Becomes(list) /\ AlertStays(list)
      /\ UNCHANGED <<published, heard, added, deleted, erased, chosen, crashed>>
  BY DEF ChildChanged, arrivals
<1>3. count' \in [Story -> 0..MaxCount]
  <2>1. count[s] + 1 \in 0..MaxCount
    BY <1>1, <1>2, ListAssumption DEF TypeOK, ListAssumption
  <2> QED
    BY <1>1, <1>2, <2>1 DEF TypeOK
<1>4. list \in Seq(Item) /\ Mirrors(list, Own \cap There, count')
  <2>1. CASE s \in Own
    <3>1. IsListed(feedList, s)
      BY <1>1, <1>2, <2>1 DEF Mirrors
    <3> QED
      BY <1>1, <1>2, <2>1, <3>1, MirrorsCount DEF TypeOK
  <2>2. CASE s \notin Own
    <3>1. ~IsListed(feedList, s)
      BY <1>1, <2>2 DEF Mirrors
    <3>2. \A i \in DOMAIN feedList : feedList[i].story \in Story /\ feedList[i].story # s
      <4>1. \A i \in DOMAIN feedList : feedList[i] \in Item
        BY <1>1, ElementOfSeq, LenProperties DEF TypeOK
      <4> QED
        BY <3>1, <4>1 DEF IsListed, Item
    <3>3. \A i \in DOMAIN feedList : count'[feedList[i].story] = count[feedList[i].story]
      BY <1>1, <1>2, <3>2 DEF TypeOK
    <3> QED
      BY <1>1, <2>2, <3>3 DEF Mirrors, TypeOK
  <2> QED
    BY <2>1, <2>2
<1>5. There' = There
  BY <1>2 DEF There
<1>6. NewestFirst(list, added')
  BY <1>1, <1>2, NewestFirstCount DEF TypeOK
<1> QED
  BY <1>1, <1>2, <1>3, <1>4, <1>5, <1>6, ListChanges DEF TypeOK, There

LEMMA RemovedKeeps == ASSUME NEW s \in Story, ListInv, ChildRemoved(s) PROVE ListInv'
<1> DEFINE list == Without(feedList, s)
<1>1. /\ TypeOK /\ Mirrors(feedList, Own \cap There, count)
      /\ NewestFirst(feedList, added)
  BY MirrorsIsListIsOwnFeed DEF ListInv
<1>2. /\ s \in There /\ deleted' = deleted \cup {s}
      /\ Becomes(list) /\ AlertStays(list)
      /\ UNCHANGED <<published, heard, added, count, erased, chosen, crashed>>
  BY DEF ChildRemoved, arrivals
<1>3. list \in Seq(Item) /\ Mirrors(list, (Own \cap There) \ {s}, count)
  BY <1>1, MirrorsDrop DEF TypeOK
<1>4. (Own \cap There) \ {s} = Own \cap (published' \ deleted')
  BY <1>2 DEF There
<1>5. NewestFirst(list, added')
  BY <1>1, <1>2, NewestFirstDrop DEF TypeOK
<1> QED
  BY <1>1, <1>2, <1>3, <1>4, <1>5, ListChanges DEF TypeOK, There

LEMMA ReloadKeeps == ListInv /\ ReloadData => ListInv'
<1> SUFFICES ASSUME ListInv, ReloadData PROVE ListInv'
  OBVIOUS
<1>1. /\ drawn' = Stories(feedList) /\ reloading' = FALSE
      /\ UNCHANGED <<feedVars, feedList, alertVars, chosen, crashed>>
  BY DEF ReloadData
<1>2. Stories(feedList) \in Seq(Story)
  BY StoriesType DEF ListInv, TypeOK
<1>3. TypeOK'
  BY <1>1, <1>2 DEF ListInv, TypeOK, feedVars, arrivals, alertVars
<1>4. ListIsOwnFeed' /\ OnlyOwnAreErased' /\ SteadyAlertIsRight'
  BY <1>1 DEF ListInv, ListIsOwnFeed, IsListed, There, OnlyOwnAreErased,
              SteadyAlertIsRight, feedVars, arrivals, alertVars
<1>5. SettledTableIsTheList'
  BY <1>1 DEF SettledTableIsTheList, Stories
<1> QED
  BY <1>3, <1>4, <1>5 DEF ListInv

LEMMA TouchesKeep ==
  ASSUME ListInv, NEW i \in DOMAIN drawn,
         CellForRowAt(i) \/ DidSelectRowAt(i) \/ CommitDelete(i)
  PROVE  ListInv'
<1>1. /\ UNCHANGED <<feedVars, feedList, reloading, agreed>>
      /\ feedList \in Seq(Item) /\ drawn \in Seq(Story)
      /\ i \in 1..Len(drawn) /\ i \in Nat /\ i # 0 /\ drawn[i] \in Story
  <2>1. feedList \in Seq(Item) /\ drawn \in Seq(Story)
    BY DEF ListInv, TypeOK
  <2>2. i \in 1..Len(drawn) /\ Len(drawn) \in Nat
    BY <2>1, LenProperties
  <2>3. drawn[i] \in Story
    BY <2>1, <2>2, ElementOfSeq
  <2> QED
    BY <2>1, <2>2, <2>3
       DEF CellForRowAt, DidSelectRowAt, CommitDelete, feedVars, tableVars, alertVars
<1>2. /\ \A j \in DOMAIN feedList : feedList[j].story \in Story
      /\ \A j \in DOMAIN feedList : Stories(feedList)[j] = feedList[j].story
      /\ DOMAIN Stories(feedList) = DOMAIN feedList
  <2>1. \A j \in DOMAIN feedList : feedList[j] \in Item
    BY <1>1, ElementOfSeq, LenProperties
  <2> QED
    BY <2>1 DEF Stories, Item
<1>3. ListIsOwnFeed' /\ OnlyOwnAreErased'
  BY <1>1 DEF ListInv, ListIsOwnFeed, IsListed, There, OnlyOwnAreErased, feedVars, arrivals
<1>4. CASE CellForRowAt(i)
  <2>1. UNCHANGED <<feedVars, alertVars, chosen>>
    BY <1>4 DEF CellForRowAt
  <2>2. CASE i \in DOMAIN feedList
    <3>1. drawn' = [drawn EXCEPT ![i] = feedList[i].story] /\ crashed' = crashed
      BY <1>4, <2>2 DEF CellForRowAt
    <3>2. drawn' \in Seq(Story)
      BY <1>1, <1>2, <2>2, <3>1, ExceptSeq
    <3>3. TypeOK'
      BY <1>1, <2>1, <3>1, <3>2 DEF ListInv, TypeOK, feedVars, arrivals, alertVars
    <3>4. SettledTableIsTheList'
      <4> SUFFICES ASSUME ~reloading' PROVE drawn' = Stories(feedList')
        BY DEF SettledTableIsTheList
      <4>1. drawn = Stories(feedList)
        BY <1>1 DEF ListInv, SettledTableIsTheList
      <4>2. drawn[i] = feedList[i].story
        BY <1>2, <2>2, <4>1
      <4>3. drawn' = drawn
        BY <1>1, <3>1, <4>2
      <4> QED
        BY <1>1, <4>1, <4>3 DEF Stories
    <3> QED
      BY <1>1, <1>3, <2>1, <3>3, <3>4 DEF ListInv, SteadyAlertIsRight, alertVars
  <2>3. CASE i \notin DOMAIN feedList
    <3>1. crashed' = TRUE /\ drawn' = drawn
      BY <1>4, <2>3 DEF CellForRowAt
    <3>2. TypeOK'
      BY <1>1, <2>1, <3>1 DEF ListInv, TypeOK, feedVars, arrivals, alertVars
    <3> QED
      BY <1>1, <1>3, <2>1, <3>1, <3>2
         DEF ListInv, SteadyAlertIsRight, SettledTableIsTheList, Stories, alertVars
  <2> QED
    BY <2>2, <2>3
<1>5. CASE DidSelectRowAt(i)
  <2>1. UNCHANGED <<tableVars, alertVars>>
        /\ \/ i \in DOMAIN feedList /\ chosen' = feedList[i].story /\ crashed' = crashed
           \/ crashed' = TRUE /\ chosen' = chosen
    BY <1>5 DEF DidSelectRowAt
  <2>2. TypeOK'
    BY <1>1, <1>2, <2>1 DEF ListInv, TypeOK, feedVars, arrivals, alertVars, tableVars
  <2> QED
    BY <1>1, <1>3, <2>1, <2>2
       DEF ListInv, SteadyAlertIsRight, SettledTableIsTheList, Stories, alertVars, tableVars
<1>6. CASE CommitDelete(i)
  <2>1. /\ alert' = i /\ asked' = drawn[i] /\ steady' = ~reloading
        /\ UNCHANGED <<tableVars, chosen, crashed>>
    BY <1>6 DEF CommitDelete
  <2>2. steady' \in BOOLEAN
    BY <2>1 DEF ListInv, TypeOK
  <2>3. TypeOK'
    BY <1>1, <2>1, <2>2 DEF ListInv, TypeOK, feedVars, arrivals, tableVars
  <2>4. SteadyAlertIsRight'
    BY <1>1, <1>2, <2>1 DEF ListInv, SteadyAlertIsRight, SettledTableIsTheList
  <2> QED
    BY <1>1, <1>3, <2>1, <2>3, <2>4 DEF ListInv, SettledTableIsTheList, Stories, tableVars
<1> QED
  BY <1>4, <1>5, <1>6

LEMMA YesKeeps == ListInv /\ Yes => ListInv'
<1> SUFFICES ASSUME ListInv, Yes PROVE ListInv'
  OBVIOUS
<1>1. /\ TypeOK /\ Mirrors(feedList, Own \cap There, count)
      /\ NewestFirst(feedList, added)
      /\ alert' = 0 /\ agreed' = agreed \cup {asked} /\ alert # 0 /\ ~crashed
      /\ UNCHANGED <<published, heard, added, count, asked, steady, chosen>>
  BY MirrorsIsListIsOwnFeed DEF ListInv, Yes, arrivals
<1>2. SteadyAlertIsRight'
  BY <1>1 DEF SteadyAlertIsRight
<1>3. CASE alert \in DOMAIN feedList
  <2> DEFINE s == feedList[alert].story
             list == Without(feedList, s)
  <2>1. /\ deleted' = deleted \cup {s} /\ erased' = erased \cup {s}
        /\ Becomes(list) /\ crashed' = crashed
    BY <1>3 DEF Yes
  <2>2. s \in Story
    <3>1. feedList[alert] \in Item
      BY <1>1, <1>3, ElementOfSeq, LenProperties DEF TypeOK
    <3> QED
      BY <3>1 DEF Item
  <2>3. s \in Own \cap There
    BY <1>1, <1>3, <2>2 DEF Mirrors, IsListed
  <2>4. /\ list \in Seq(Item) /\ Mirrors(list, (Own \cap There) \ {s}, count)
        /\ NewestFirst(list, added)
    BY <1>1, <2>2, MirrorsDrop, NewestFirstDrop DEF TypeOK
  <2>5. (Own \cap There) \ {s} = Own \cap (published' \ deleted')
    BY <1>1, <2>1 DEF There
  <2> HIDE DEF s, list
  <2>6. feedList' = list /\ reloading' = TRUE /\ drawn' = drawn
    BY <2>1 DEF Becomes
  <2>7. ListIsOwnFeed'
    BY <1>1, <2>4, <2>5, <2>6, ListIsOwnFeedNext
  <2>8. asked \in Story
    BY <1>1 DEF TypeOK
  <2>9. TypeOK'
    BY <1>1, <2>1, <2>3, <2>4, <2>6, <2>8 DEF TypeOK, There
  <2>10. OnlyOwnAreErased' /\ SettledTableIsTheList'
    BY <2>1, <2>3, <2>6 DEF ListInv, OnlyOwnAreErased, SettledTableIsTheList
  <2> QED
    BY <1>2, <2>7, <2>9, <2>10 DEF ListInv
<1>4. CASE alert \notin DOMAIN feedList
  <2>1. crashed' = TRUE /\ UNCHANGED <<deleted, erased, tableVars>>
    BY <1>4 DEF Yes
  <2>2. TypeOK'
    BY <1>1, <2>1 DEF TypeOK, tableVars
  <2>3. ListIsOwnFeed' /\ OnlyOwnAreErased' /\ SettledTableIsTheList'
    BY <1>1, <2>1 DEF ListInv, ListIsOwnFeed, IsListed, There, OnlyOwnAreErased,
                      SettledTableIsTheList, Stories, tableVars
  <2> QED
    BY <1>2, <2>2, <2>3 DEF ListInv
<1> QED
  BY <1>3, <1>4

LEMMA CancelKeeps == ListInv /\ Cancel => ListInv'
<1> SUFFICES ASSUME ListInv, Cancel PROVE ListInv'
  OBVIOUS
<1>1. /\ alert' = 0
      /\ UNCHANGED <<feedVars, tableVars, asked, steady, agreed, chosen, crashed>>
  BY DEF Cancel
<1>2. TypeOK'
  BY <1>1 DEF ListInv, TypeOK, feedVars, arrivals, tableVars
<1>3. ListIsOwnFeed' /\ OnlyOwnAreErased' /\ SettledTableIsTheList'
  BY <1>1 DEF ListInv, ListIsOwnFeed, IsListed, There, OnlyOwnAreErased,
              SettledTableIsTheList, Stories, feedVars, arrivals, tableVars
<1>4. SteadyAlertIsRight'
  BY <1>1 DEF SteadyAlertIsRight
<1> QED
  BY <1>2, <1>3, <1>4 DEF ListInv

LEMMA ListStutters == ListInv /\ UNCHANGED vars => ListInv'
<1> SUFFICES ASSUME ListInv, UNCHANGED vars PROVE ListInv'
  OBVIOUS
<1>1. UNCHANGED <<published, heard, added, count, deleted, erased, feedList, drawn,
                  reloading, alert, asked, steady, agreed, chosen, crashed>>
  BY DEF vars, feedVars, arrivals, tableVars, alertVars
<1> QED
  BY <1>1 DEF ListInv, TypeOK, ListIsOwnFeed, IsListed, There, OnlyOwnAreErased,
              SteadyAlertIsRight, SettledTableIsTheList, Stories

LEMMA ListKeeps == ListInv /\ [Next]_vars => ListInv'
<1> SUFFICES ASSUME ListInv, [Next]_vars PROVE ListInv'
  OBVIOUS
<1>1. ASSUME NEW s \in Story, ChildAdded(s) PROVE ListInv'
  BY <1>1, AddedKeeps
<1>2. ASSUME NEW s \in Story, ChildChanged(s) PROVE ListInv'
  BY <1>2, ChangedKeeps
<1>3. ASSUME NEW s \in Story, ChildRemoved(s) PROVE ListInv'
  BY <1>3, RemovedKeeps
<1>4. CASE \E i \in DOMAIN drawn : CellForRowAt(i) \/ DidSelectRowAt(i) \/ CommitDelete(i)
  BY <1>4, TouchesKeep
<1>5. CASE ReloadData
  BY <1>5, ReloadKeeps
<1>6. CASE Cancel
  BY <1>6, CancelKeeps
<1>7. CASE Yes
  BY <1>7, YesKeeps
<1>8. CASE UNCHANGED vars
  BY <1>8, ListStutters
<1> QED
  BY <1>1, <1>2, <1>3, <1>4, <1>5, <1>6, <1>7, <1>8 DEF Next

(* The invariant all the others follow from. *)
THEOREM ListCorrect == Spec => []ListInv
<1>1. Init => ListInv
  BY InitList
<1>2. ListInv /\ [Next]_vars => ListInv'
  BY ListKeeps
<1> QED
  BY <1>1, <1>2, PTL DEF Spec

(* Every variable of ProfileVC has its type; every story whose audio files *)
(* this screen deleted is also out of Feed.                                *)
THEOREM ListTypes == Spec => []TypeOK
<1>1. ListInv => TypeOK
  BY DEF ListInv
<1> QED
  BY <1>1, ListCorrect, PTL

(* listOfFeedEvents keeps exactly the user's stories that are in Feed,     *)
(* each once, with its counter and the last to come first, for every order *)
(* of the events.                                                          *)
THEOREM ListSafety == Spec => []ListIsOwnFeed
<1>1. ListInv => ListIsOwnFeed
  BY DEF ListInv
<1> QED
  BY <1>1, ListCorrect, PTL

(* The delete alert deletes nobody else's story.                           *)
THEOREM EraseSafety == Spec => []OnlyOwnAreErased
<1>1. ListInv => OnlyOwnAreErased
  BY DEF ListInv
<1> QED
  BY <1>1, ListCorrect, PTL

(* The alert's index still names the story that was swiped when the list   *)
(* has not changed since the table was drawn.                              *)
THEOREM AlertSafety == Spec => []SteadyAlertIsRight
<1>1. ListInv => SteadyAlertIsRight
  BY DEF ListInv
<1> QED
  BY <1>1, ListCorrect, PTL

(* A table with no reload waiting on the main queue shows the list.        *)
THEOREM TableSafety == Spec => []SettledTableIsTheList
<1>1. ListInv => SettledTableIsTheList
  BY DEF ListInv
<1> QED
  BY <1>1, ListCorrect, PTL

=============================================================================
