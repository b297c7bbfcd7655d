------------------------- MODULE ProfileImagesProofs -------------------------
(* What ProfileImages promises, for any number of users, rows, cells and   *)
(* loads under way.                                                        *)
EXTENDS ProfileImages, TLAPS

\* Loads and image of a cell that was not overtaken are its row's creator's.
CellsFit ==
    \A c \in Cell :
       /\ shown[c] # Picked
       /\ ~overtaken[c] =>
             /\ \A l \in Load : load[l].view = c =>
                   row[c] # None /\ Owner(load[l].key) = creator[row[c]]
             /\ shown[c] \in Picture => row[c] # None /\ shown[c][1] = creator[row[c]]

\* The cache is fresh because the loads that will be cached are.
LoadsAreFresh ==
    /\ imageRef[2] <= stored[2]
    /\ imageRef = stored /\ ~late =>
          \A l \in Load : load[l].pc # "idle" /\ Owner(load[l].key) = Me => load[l].urls = {stored}

\* What EditProfileVC may show once an image was picked on it.
PickOrOwn == {Picked, Blank} \cup {p \in Picture : p[1] = Me}

\* Nothing will be drawn over an image that was picked calmly, and over any
\* other only the user's own.
PickIsKept ==
    /\ canSave /\ calm =>
         shown[Edit] = Picked /\ redraw # Edit /\ \A l \in Load : load[l].view # Edit
    /\ editing /\ canSave => shown[Edit] \in PickOrOwn
    /\ \A l \in Load : load[l].view = Edit => load[l].key = Me

ImagesInv == TypeOK /\ CellsFit /\ LoadsAreFresh /\ OwnCacheIsFresh /\ PickIsKept

LEMMA Apart ==
  /\ None \notin Key /\ None \notin View /\ None # Elsewhere /\ None \notin Picture
  /\ Elsewhere \notin View /\ Edit \in View /\ Edit \notin Cell /\ Cell \subseteq View
  /\ Placeholder \notin Picture /\ Blank \notin Picture /\ Picked \notin Picture
  /\ Placeholder # Blank /\ Placeholder # Picked /\ Blank # Picked
  /\ Me \in Key /\ Me \in User
  /\ \A r \in Row : r \in Key /\ Owner(r) = creator[r] /\ creator[r] \in User
  /\ Owner(Me) = Me
  /\ \A k \in Key : Owner(k) \in User
  BY ImagesAssumption DEF ImagesAssumption, View, Key, Owner

LEMMA LoadTypes ==
  ASSUME NEW ld \in LoadType
  PROVE  /\ ld.pc \in {"idle", "asking", "fetching"}
         /\ ld.pc = "idle" <=> ld = Idle
         /\ ld.pc = "idle" => ld.view = None
         /\ ld.pc # "idle" =>
              /\ ld = [pc |-> ld.pc, view |-> ld.view, key |-> ld.key, urls |-> ld.urls]
              /\ ld.view \in View \cup {Elsewhere} /\ ld.key \in Key
              /\ ld.urls \in SUBSET Picture
              /\ \A p \in ld.urls : p[1] = Owner(ld.key)
              /\ ld.pc = "fetching" => \E p \in Picture : ld.urls = {p}
  BY DEF LoadType, Idle

LEMMA IsALoad ==
  ASSUME NEW pc \in {"asking", "fetching"}, NEW v \in View \cup {Elsewhere}, NEW k \in Key,
         NEW urls \in SUBSET Picture, \A p \in urls : p[1] = Owner(k),
         pc = "fetching" => \E p \in Picture : urls = {p}
  PROVE  [pc |-> pc, view |-> v, key |-> k, urls |-> urls] \in LoadType
  BY DEF LoadType

LEMMA NewestType ==
  ASSUME TypeOK, NEW k \in Key
  PROVE  Newest(Owner(k)) \in Picture /\ Newest(Owner(k))[1] = Owner(k)
<1>1. Owner(k) \in User /\ 1 \in 1..MaxUpload
  BY Apart, ImagesAssumption DEF ImagesAssumption
<1> QED
  BY <1>1 DEF Newest, TypeOK, Picture

\* What a new load changes.
LEMMA NewLoad ==
  ASSUME TypeOK, NEW v \in View \cup {Elsewhere}, NEW k \in Key, DownloadAndCacheImage(v, k)
  PROVE  /\ load' \in [Load -> LoadType]
         /\ \E l \in Load :
              /\ load'[l].pc = "asking" /\ load'[l].view = v /\ load'[l].key = k
              /\ load'[l].urls = {Newest(Owner(k))}
              /\ \A m \in Load : m # l => load'[m] = load[m]
<1>1. PICK l \in Load : load' = [load EXCEPT ![l] = Asking(v, k)]
  BY DEF DownloadAndCacheImage
<1>2. Asking(v, k) \in LoadType
  <2>1. Newest(Owner(k)) \in Picture /\ Newest(Owner(k))[1] = Owner(k)
    BY NewestType
  <2> DEFINE urls == {Newest(Owner(k))}
  <2>2. urls \in SUBSET Picture /\ \A p \in urls : p[1] = Owner(k)
    BY <2>1
  <2> HIDE DEF urls
  <2>3. [pc |-> "asking", view |-> v, key |-> k, urls |-> urls] \in LoadType
    BY <2>2, IsALoad
  <2> QED
    BY <2>3 DEF Asking, urls
<1>3. load \in [Load -> LoadType]
  BY DEF TypeOK
<1> HIDE DEF LoadType
<1>4. load' \in [Load -> LoadType]
  BY <1>1, <1>2, <1>3
<1>5. load'[l] = Asking(v, k) /\ \A m \in Load : m # l => load'[m] = load[m]
  BY <1>1, <1>3
<1>6. /\ Asking(v, k).pc = "asking" /\ Asking(v, k).view = v /\ Asking(v, k).key = k
      /\ Asking(v, k).urls = {Newest(Owner(k))}
  BY DEF Asking
<1> QED
  BY <1>4, <1>5, <1>6

\* What loadImageUsingCache changes.
LEMMA Loaded ==
  ASSUME TypeOK, NEW v \in View, NEW k \in Key, NEW former, LoadImageUsingCache(v, k, former),
         former \in Picture \cup {Placeholder, Blank, Picked}
  PROVE  /\ shown' \in [View -> Picture \cup {Placeholder, Blank, Picked}]
         /\ load' \in [Load -> LoadType]
         /\ \A w \in View : w # v => shown'[w] = shown[w]
         /\ shown'[v] = former \/ (shown'[v] \in Picture /\ shown'[v][1] = Owner(k))
         /\ \A l \in Load :
               \/ load'[l] = load[l]
               \/ /\ load'[l].pc = "asking" /\ load'[l].view = v /\ load'[l].key = k
                  /\ load'[l].urls = {Newest(Owner(k))}
<1>1. /\ shown \in [View -> Picture \cup {Placeholder, Blank, Picked}]
      /\ load \in [Load -> LoadType]
      /\ imageCache \in [Key -> Picture \cup {None}]
      /\ imageCache[k] # None => imageCache[k][1] = Owner(k)
  BY DEF TypeOK
<1> HIDE DEF LoadType
<1>2. CASE imageCache[k] # None /\ Shows(v, imageCache[k]) /\ UNCHANGED load
  BY <1>1, <1>2 DEF Shows
<1>3. CASE imageCache[k] = None /\ Shows(v, former) /\ DownloadAndCacheImage(v, k)
  <2>1. /\ load' \in [Load -> LoadType]
        /\ \E l \in Load :
              /\ load'[l].pc = "asking" /\ load'[l].view = v /\ load'[l].key = k
              /\ load'[l].urls = {Newest(Owner(k))}
              /\ \A m \in Load : m # l => load'[m] = load[m]
    BY <1>3, NewLoad
  <2> QED
    BY <1>1, <1>3, <2>1 DEF Shows
<1> QED
  BY <1>2, <1>3 DEF LoadImageUsingCache

LEMMA MovedAway ==
  ASSUME NEW ld, NEW v, ld = [pc |-> ld.pc, view |-> ld.view, key |-> ld.key, urls |-> ld.urls]
  PROVE  [ld EXCEPT !.view = v] = [pc |-> ld.pc, view |-> v, key |-> ld.key, urls |-> ld.urls]
  OBVIOUS

LEMMA MoreAnswers ==
  ASSUME NEW ld, NEW urls, ld = [pc |-> "asking", view |-> ld.view, key |-> ld.key, urls |-> ld.urls]
  PROVE  [ld EXCEPT !.urls = urls] = [pc |-> "asking", view |-> ld.view, key |-> ld.key, urls |-> urls]
  OBVIOUS

\* Steps that rebind no cell, give it no image and start no load.
LEMMA CellsStay ==
  ASSUME CellsFit, row' = row, overtaken' = overtaken,
         \A c \in Cell : shown'[c] \in {Blank, Placeholder} \/ shown'[c] = shown[c],
         \A l \in Load : \/ load'[l].view \in {None, Elsewhere}
                         \/ load'[l].view = load[l].view /\ load'[l].key = load[l].key
  PROVE  CellsFit'
<1> SUFFICES ASSUME NEW c \in Cell
             PROVE  /\ shown'[c] # Picked
                    /\ ~overtaken[c] =>
                         /\ \A m \in Load : load'[m].view = c =>
                               row[c] # None /\ Owner(load'[m].key) = creator[row[c]]
                         /\ shown'[c] \in Picture =>
                               row[c] # None /\ shown'[c][1] = creator[row[c]]
  BY DEF CellsFit
<1>1. shown'[c] # Picked
  BY Apart DEF CellsFit
<1>2. ~overtaken[c] => \A m \in Load : load'[m].view = c =>
          row[c] # None /\ Owner(load'[m].key) = creator[row[c]]
  BY Apart DEF CellsFit
<1>3. ~overtaken[c] /\ shown'[c] \in Picture => row[c] # None /\ shown'[c][1] = creator[row[c]]
  BY Apart DEF CellsFit
<1> QED
  BY <1>1, <1>2, <1>3

LEMMA URLArrivesKeeps == ASSUME ImagesInv, NEW l \in Load, URLArrives(l) PROVE ImagesInv'
<1> USE DEF ImagesInv
<1> DEFINE v == load[l].view
<1>1. PICK url \in load[l].urls :
         /\ Shows(v, Blank)
         /\ webURL' = [w \in View |-> IF w = v THEN url ELSE webURL[w]]
         /\ load' = [load EXCEPT ![l] = Fetching(v, load[l].key, url)]
  BY DEF URLArrives
<1>2. /\ UNCHANGED <<stored, row, imageCache, imageRef, menuRef, editing, canSave, save,
                     redraw, late, overtaken, calm>>
      /\ load[l].pc = "asking"
  BY DEF URLArrives, editVars, past
<1>3. load \in [Load -> LoadType] /\ load[l] \in LoadType
  BY DEF TypeOK
<1>4. /\ v \in View \cup {Elsewhere} /\ load[l].key \in Key
      /\ load[l].urls \in SUBSET Picture /\ \A p \in load[l].urls : p[1] = Owner(load[l].key)
      /\ load[l] = [pc |-> "asking", view |-> v, key |-> load[l].key, urls |-> load[l].urls]
  BY <1>2, <1>3, LoadTypes
<1>5. [pc |-> "fetching", view |-> v, key |-> load[l].key, urls |-> {url}] \in LoadType
  BY <1>1, <1>4, IsALoad
<1>6. Fetching(v, load[l].key, url) =
         [pc |-> "fetching", view |-> v, key |-> load[l].key, urls |-> {url}]
  BY DEF Fetching
<1> HIDE DEF LoadType, v
<1>7. /\ load' \in [Load -> LoadType]
      /\ load'[l] = [pc |-> "fetching", view |-> v, key |-> load[l].key, urls |-> {url}]
      /\ \A m \in Load : m # l => load'[m] = load[m]
  BY <1>1, <1>3, <1>5, <1>6
<1>8. /\ \A m \in Load : load'[m].view = load[m].view /\ load'[m].key = load[m].key
      /\ \A m \in Load : load'[m].pc = "idle" <=> load[m].pc = "idle"
      /\ \A m \in Load : load'[m].urls \subseteq load[m].urls /\ (m = l => load'[m].urls = {url})
  BY <1>1, <1>2, <1>7 DEF v
<1>9. TypeOK'
  <2>1. shown' \in [View -> Picture \cup {Placeholder, Blank, Picked}]
    BY <1>1 DEF TypeOK, Shows
  <2>2. webURL' \in [View -> Picture \cup {None}]
    BY <1>1, <1>4 DEF TypeOK
  <2> QED
    BY <1>2, <1>7, <2>1, <2>2 DEF TypeOK
<1>10. CellsFit'
  <2>1. \A c \in Cell : shown'[c] = Blank \/ shown'[c] = shown[c]
    BY <1>1, Apart DEF Shows
  <2> QED
    BY <1>2, <1>8, <2>1, CellsStay
<1>11. LoadsAreFresh' /\ OwnCacheIsFresh'
  BY <1>1, <1>2, <1>7, <1>8 DEF LoadsAreFresh, OwnCacheIsFresh
<1>12. PickIsKept'
  <2>1. shown'[Edit] = shown[Edit] \/ (v = Edit /\ shown'[Edit] = Blank)
    BY <1>1, Apart DEF Shows
  <2>2. v = Edit => ~(canSave /\ calm)
    BY DEF PickIsKept, v
  <2> QED
    BY <1>2, <1>8, <2>1, <2>2 DEF PickIsKept, PickOrOwn
<1> QED
  BY <1>9, <1>10, <1>11, <1>12

\* A load ends: one less has to be right.
LEMMA LoadEnds ==
  ASSUME load \in [Load -> LoadType], NEW l \in Load, load' = [load EXCEPT ![l] = Idle]
  PROVE  /\ load' \in [Load -> LoadType]
         /\ \A m \in Load : load'[m] = load[m] \/ (load'[m].pc = "idle" /\ load'[m].view = None)
<1>1. Idle \in LoadType /\ Idle.pc = "idle" /\ Idle.view = None
  BY DEF LoadType, Idle
<1> QED
  BY <1>1

LEMMA URLFailsKeeps == ASSUME ImagesInv, NEW l \in Load, URLFails(l) PROVE ImagesInv'
<1> USE DEF ImagesInv
<1>1. /\ UNCHANGED <<stored, shown, webURL, row, imageCache, imageRef, menuRef, editing,
                     canSave, save, redraw, late, overtaken, calm>>
      /\ load' = [load EXCEPT ![l] = Idle]
  BY DEF URLFails, editVars, past, viewVars
<1>2. /\ load' \in [Load -> LoadType]
      /\ \A m \in Load : load'[m] = load[m] \/ (load'[m].pc = "idle" /\ load'[m].view = None)
  BY <1>1, LoadEnds DEF TypeOK
<1> HIDE DEF LoadType
<1>3. TypeOK'
  BY <1>1, <1>2 DEF TypeOK
<1>4. CellsFit'
  BY <1>1, <1>2, CellsStay
<1>5. LoadsAreFresh' /\ OwnCacheIsFresh'
  BY <1>1, <1>2 DEF LoadsAreFresh, OwnCacheIsFresh
<1>6. PickIsKept'
  BY <1>1, <1>2, Apart DEF PickIsKept
<1> QED
  BY <1>3, <1>4, <1>5, <1>6

LEMMA ImageArrivesKeeps == ASSUME ImagesInv, NEW l \in Load, ImageArrives(l) PROVE ImagesInv'
<1> USE DEF ImagesInv
<1> DEFINE v == load[l].view
           k == load[l].key
<1>1. PICK url \in load[l].urls :
         /\ shown' = [w \in View |-> IF w = v /\ webURL[w] = url THEN url ELSE shown[w]]
         /\ imageCache' = [imageCache EXCEPT ![k] = url]
  BY DEF ImageArrives
<1>2. /\ UNCHANGED <<stored, webURL, row, imageRef, menuRef, editing, canSave, save, redraw,
                     late, overtaken, calm>>
      /\ load' = [load EXCEPT ![l] = Idle] /\ load[l].pc = "fetching"
  BY DEF ImageArrives, editVars, past
<1>3. /\ load' \in [Load -> LoadType]
      /\ \A m \in Load : load'[m] = load[m] \/ (load'[m].pc = "idle" /\ load'[m].view = None)
  BY <1>2, LoadEnds DEF TypeOK
<1>4. k \in Key /\ url \in Picture /\ url[1] = Owner(k)
  <2>1. load[l] \in LoadType
    BY DEF TypeOK
  <2> QED
    BY <1>1, <1>2, <2>1, LoadTypes
<1>5. load[l].urls = {stored} => url = stored
  BY <1>1
<1>6. \A m \in Key : imageCache'[m] = IF m = k THEN url ELSE imageCache[m]
  BY <1>1, <1>4 DEF TypeOK
<1>7. \A w \in View : shown'[w] = shown[w] \/ (w = v /\ shown'[w] = url)
  BY <1>1
<1> HIDE DEF LoadType
<1>8. TypeOK'
  <2>1. shown' \in [View -> Picture \cup {Placeholder, Blank, Picked}]
    BY <1>1, <1>4 DEF TypeOK
  <2>2. imageCache' \in [Key -> Picture \cup {None}]
    BY <1>1, <1>4 DEF TypeOK
  <2>3. \A m \in Key : imageCache'[m] # None => imageCache'[m][1] = Owner(m)
    BY <1>4, <1>6 DEF TypeOK
  <2> QED
    BY <1>2, <1>3, <2>1, <2>2, <2>3 DEF TypeOK
<1>9. CellsFit'
  <2> SUFFICES ASSUME NEW c \in Cell
               PROVE  /\ shown'[c] # Picked
                      /\ ~overtaken[c] =>
                           /\ \A m \in Load : load'[m].view = c =>
                                 row[c] # None /\ Owner(load'[m].key) = creator[row[c]]
                           /\ shown'[c] \in Picture =>
                                 row[c] # None /\ shown'[c][1] = creator[row[c]]
    BY <1>2 DEF CellsFit
  <2>1. shown'[c] = shown[c] \/ (c = v /\ shown'[c] = url)
    BY <1>7, Apart
  <2>2. shown'[c] # Picked
    BY <1>4, <2>1, Apart DEF CellsFit
  <2>3. ~overtaken[c] => \A m \in Load : load'[m].view = c =>
            row[c] # None /\ Owner(load'[m].key) = creator[row[c]]
    BY <1>3, Apart DEF CellsFit
  <2>4. ~overtaken[c] /\ shown'[c] \in Picture => row[c] # None /\ shown'[c][1] = creator[row[c]]
    BY <1>4, <2>1 DEF CellsFit
  <2> QED
    BY <2>2, <2>3, <2>4
<1>10. LoadsAreFresh'
  BY <1>2, <1>3 DEF LoadsAreFresh
<1>11. OwnCacheIsFresh'
  <2> SUFFICES ASSUME imageRef = stored, ~late, NEW m \in Key, Owner(m) = Me
               PROVE  imageCache'[m] \in {None, stored}
    BY <1>2 DEF OwnCacheIsFresh
  <2>1. m = k => url = stored
    BY <1>2, <1>5 DEF LoadsAreFresh
  <2> QED
    BY <1>6, <2>1 DEF OwnCacheIsFresh
<1>12. PickIsKept'
  <2>1. v = Edit => url \in PickOrOwn /\ ~(canSave /\ calm)
    BY <1>4, Apart DEF PickIsKept, PickOrOwn
  <2>2. shown'[Edit] = shown[Edit] \/ (v = Edit /\ shown'[Edit] = url)
    BY <1>7, Apart
  <2>3. \A m \in Load : load'[m].view = Edit => load'[m] = load[m]
    BY <1>3, Apart
  <2> QED
    BY <1>2, <2>1, <2>2, <2>3 DEF PickIsKept
<1> QED
  BY <1>8, <1>9, <1>10, <1>11, <1>12

\* A new load fits with what is asked for now.
LEMMA FreshStarts ==
  ASSUME TypeOK, LoadsAreFresh, NEW v, NEW k \in Key,
         UNCHANGED <<stored, imageRef, late>>,
         \A l \in Load :
            \/ load'[l] = load[l]
            \/ load'[l].key = k /\ load'[l].urls = {Newest(Owner(k))}
  PROVE  LoadsAreFresh'
<1> SUFFICES ASSUME imageRef = stored, ~late, NEW l \in Load,
                    load'[l].pc # "idle", Owner(load'[l].key) = Me
             PROVE  load'[l].urls = {stored}
  BY DEF LoadsAreFresh
<1>1. CASE load'[l] = load[l]
  BY <1>1 DEF LoadsAreFresh
<1>2. CASE load'[l].key = k /\ load'[l].urls = {Newest(Owner(k))}
  BY <1>2 DEF Newest
<1> QED
  BY <1>1, <1>2

LEMMA CellForRowAtKeeps ==
  ASSUME ImagesInv, NEW c \in Cell, NEW r \in Row, CellForRowAt(c, r) PROVE ImagesInv'
<1> USE DEF ImagesInv
<1>1. /\ UNCHANGED <<stored, webURL, imageCache, imageRef, menuRef, editing, canSave, save, redraw,
                     late, calm>>
      /\ row' = [row EXCEPT ![c] = r]
      /\ LoadImageUsingCache(c, r, Placeholder)
      /\ overtaken' = [overtaken EXCEPT ![c] = Overtaken(c, r)]
  BY DEF CellForRowAt, editVars
<1>2. c \in View /\ r \in Key /\ Owner(r) = creator[r] /\ r # None
  BY Apart
<1>3. /\ shown' \in [View -> Picture \cup {Placeholder, Blank, Picked}]
      /\ load' \in [Load -> LoadType]
      /\ \A w \in View : w # c => shown'[w] = shown[w]
      /\ shown'[c] = Placeholder \/ (shown'[c] \in Picture /\ shown'[c][1] = creator[r])
      /\ \A l \in Load :
            \/ load'[l] = load[l]
            \/ load'[l].view = c /\ load'[l].key = r /\ load'[l].urls = {Newest(Owner(r))}
  BY <1>1, <1>2, Loaded
<1>4. load \in [Load -> LoadType]
  BY DEF TypeOK
<1>5. /\ row'[c] = r /\ overtaken'[c] = Overtaken(c, r)
      /\ \A d \in Cell : d # c => row'[d] = row[d] /\ overtaken'[d] = overtaken[d]
  BY <1>1 DEF TypeOK
<1>6. \A l \in Load : load[l].pc = "idle" => load[l].view = None
  BY <1>4, LoadTypes
<1> HIDE DEF LoadType
<1>7. TypeOK'
  <2>1. Overtaken(c, r) \in BOOLEAN
    BY DEF Overtaken
  <2>2. overtaken' \in [Cell -> BOOLEAN]
    BY <1>1, <2>1 DEF TypeOK
  <2>3. row' \in [Cell -> Row \cup {None}]
    BY <1>1 DEF TypeOK
  <2> QED
    BY <1>1, <1>3, <2>2, <2>3 DEF TypeOK
<1>8. CellsFit'
  <2> SUFFICES ASSUME NEW d \in Cell
               PROVE  /\ shown'[d] # Picked
                      /\ ~overtaken'[d] =>
                           /\ \A m \in Load : load'[m].view = d =>
                                 row'[d] # None /\ Owner(load'[m].key) = creator[row'[d]]
                           /\ shown'[d] \in Picture =>
                                 row'[d] # None /\ shown'[d][1] = creator[row'[d]]
    BY DEF CellsFit
  <2>1. CASE d = c
    <3>1. shown'[d] # Picked
      BY <1>3, <2>1, Apart
    <3>2. shown'[d] \in Picture => row'[d] # None /\ shown'[d][1] = creator[row'[d]]
      BY <1>2, <1>3, <1>5, <2>1, Apart
    <3>3. ASSUME ~overtaken'[d], NEW m \in Load, load'[m].view = d
          PROVE  row'[d] # None /\ Owner(load'[m].key) = creator[row'[d]]
      <4>1. CASE load'[m] = load[m]
        <5>1. load[m].view = c /\ load[m].pc # "idle"
          BY <1>6, <2>1, <3>3, <4>1, Apart
        <5> QED
          BY <1>2, <1>5, <2>1, <3>3, <4>1, <5>1 DEF Overtaken, Under
      <4>2. CASE load'[m].key = r
        BY <1>2, <1>5, <2>1, <4>2
      <4> QED
        BY <1>3, <4>1, <4>2
    <3> QED
      BY <3>1, <3>2, <3>3
  <2>2. CASE d # c
    <3>1. shown'[d] = shown[d] /\ row'[d] = row[d] /\ overtaken'[d] = overtaken[d]
      BY <1>3, <1>5, <2>2, Apart
    <3>2. \A m \in Load : load'[m].view = d => load'[m] = load[m]
      BY <1>3, <2>2
    <3> QED
      BY <3>1, <3>2 DEF CellsFit
  <2> QED
    BY <2>1, <2>2
<1>9. LoadsAreFresh'
  BY <1>1, <1>2, <1>3, FreshStarts
<1>10. OwnCacheIsFresh'
  BY <1>1 DEF OwnCacheIsFresh
<1>11. PickIsKept'
  <2>1. shown'[Edit] = shown[Edit]
    BY <1>3, Apart
  <2>2. \A m \in Load : load'[m].view = Edit => load'[m] = load[m]
    BY <1>3, Apart
  <2> QED
    BY <1>1, <2>1, <2>2 DEF PickIsKept
<1> QED
  BY <1>7, <1>8, <1>9, <1>10, <1>11

\* A load starts for a view that is no cell.
LEMMA CellsUntouched ==
  ASSUME CellsFit, row' = row, overtaken' = overtaken,
         \A c \in Cell : shown'[c] = shown[c],
         \A l \in Load : load'[l] = load[l] \/ load'[l].view \notin Cell
  PROVE  CellsFit'
  BY DEF CellsFit

LEMMA MenuAppearsKeeps == ASSUME ImagesInv, MenuAppears PROVE ImagesInv'
<1> USE DEF ImagesInv
<1>1. /\ UNCHANGED <<stored, shown, webURL, row, imageCache, imageRef, editing, canSave, save,
                     redraw, late, overtaken, calm>>
      /\ menuRef' = imageRef
      /\ UNCHANGED load \/ DownloadAndCacheImage(Elsewhere, Me)
  BY DEF MenuAppears, viewVars, editVars, past
<1>2. /\ load' \in [Load -> LoadType]
      /\ \A l \in Load :
            \/ load'[l] = load[l]
            \/ load'[l].view = Elsewhere /\ load'[l].key = Me /\ load'[l].urls = {Newest(Owner(Me))}
  <2>1. CASE UNCHANGED load
    BY <2>1 DEF TypeOK
  <2>2. CASE DownloadAndCacheImage(Elsewhere, Me)
    <3>1. Elsewhere \in View \cup {Elsewhere} /\ Me \in Key
      BY Apart
    <3> QED
      BY <2>2, <3>1, NewLoad
  <2> QED
    BY <1>1, <2>1, <2>2
<1> HIDE DEF LoadType
<1>3. TypeOK'
  BY <1>1, <1>2 DEF TypeOK
<1>4. CellsFit'
  BY <1>1, <1>2, CellsUntouched, Apart
<1>5. LoadsAreFresh' /\ OwnCacheIsFresh'
  <2>1. LoadsAreFresh'
    BY <1>1, <1>2, FreshStarts, Apart
  <2> QED
    BY <1>1, <2>1 DEF OwnCacheIsFresh
<1>6. PickIsKept'
  <2>1. \A m \in Load : load'[m].view = Edit => load'[m] = load[m]
    BY <1>2, Apart
  <2> QED
    BY <1>1, <2>1 DEF PickIsKept
<1> QED
  BY <1>3, <1>4, <1>5, <1>6

LEMMA OpenEditProfileKeeps == ASSUME ImagesInv, OpenEditProfile PROVE ImagesInv'
<1> USE DEF ImagesInv
<1>1. /\ UNCHANGED <<stored, webURL, row, imageCache, imageRef, menuRef, save, redraw,
                     late, overtaken, calm>>
      /\ editing' = TRUE /\ canSave' = FALSE
      /\ LoadImageUsingCache(Edit, Me, Placeholder)
  BY DEF OpenEditProfile, past
<1>2. /\ shown' \in [View -> Picture \cup {Placeholder, Blank, Picked}]
      /\ load' \in [Load -> LoadType]
      /\ \A w \in View : w # Edit => shown'[w] = shown[w]
      /\ \A l \in Load :
            \/ load'[l] = load[l]
            \/ load'[l].view = Edit /\ load'[l].key = Me /\ load'[l].urls = {Newest(Owner(Me))}
  <2>1. Edit \in View /\ Me \in Key
    BY Apart
  <2> QED
    BY <1>1, <2>1, Loaded
<1> HIDE DEF LoadType
<1>3. TypeOK'
  BY <1>1, <1>2 DEF TypeOK
<1>4. CellsFit'
  BY <1>1, <1>2, CellsUntouched, Apart
<1>5. LoadsAreFresh'
  BY <1>1, <1>2, FreshStarts, Apart
<1>6. OwnCacheIsFresh'
  BY <1>1 DEF OwnCacheIsFresh
<1>7. PickIsKept'
  <2>1. \A m \in Load : load'[m].view = Edit => load'[m].key = Me
    BY <1>2 DEF PickIsKept
  <2> QED
    BY <1>1, <2>1 DEF PickIsKept
<1> QED
  BY <1>3, <1>4, <1>5, <1>6, <1>7

LEMMA CloseEditProfileKeeps == ASSUME ImagesInv, CloseEditProfile PROVE ImagesInv'
<1> USE DEF ImagesInv
<1>1. /\ UNCHANGED <<stored, row, imageCache, imageRef, menuRef, late, overtaken>>
      /\ save' = (IF save = "stuck" THEN "none" ELSE save)
      /\ redraw' = (IF redraw = Edit THEN Elsewhere ELSE redraw)
      /\ editing' = FALSE /\ canSave' = FALSE /\ calm' = FALSE
      /\ Shows(Edit, Placeholder)
      /\ webURL' = [webURL EXCEPT ![Edit] = None]
      /\ load' = [l \in Load |-> IF load[l].view = Edit THEN [load[l] EXCEPT !.view = Elsewhere]
                                                       ELSE load[l]]
  BY DEF CloseEditProfile
<1>2. ASSUME NEW l \in Load
      PROVE  /\ load'[l] \in LoadType
             /\ load'[l].pc = load[l].pc /\ load'[l].key = load[l].key /\ load'[l].urls = load[l].urls
             /\ load'[l].view \in {load[l].view, Elsewhere}
  <2>1. load[l] \in LoadType
    BY DEF TypeOK
  <2>2. CASE load[l].view # Edit
    BY <1>1, <2>1, <2>2
  <2>3. CASE load[l].view = Edit
    <3> DEFINE ld == load[l]
    <3>1. /\ ld.pc \in {"asking", "fetching"} /\ ld.key \in Key /\ ld.urls \in SUBSET Picture
          /\ \A p \in ld.urls : p[1] = Owner(ld.key)
          /\ ld.pc = "fetching" => \E p \in Picture : ld.urls = {p}
          /\ ld = [pc |-> ld.pc, view |-> ld.view, key |-> ld.key, urls |-> ld.urls]
      BY <2>1, <2>3, LoadTypes, Apart
    <3>2. [pc |-> ld.pc, view |-> Elsewhere, key |-> ld.key, urls |-> ld.urls] \in LoadType
      <4>1. Elsewhere \in View \cup {Elsewhere}
        OBVIOUS
      <4> QED
        BY <3>1, <4>1, IsALoad
    <3> HIDE DEF ld, LoadType
    <3>3. [ld EXCEPT !.view = Elsewhere] =
             [pc |-> ld.pc, view |-> Elsewhere, key |-> ld.key, urls |-> ld.urls]
      BY <3>1, MovedAway
    <3>4. load'[l] = [ld EXCEPT !.view = Elsewhere]
      BY <1>1, <2>3 DEF ld
    <3> QED
      BY <3>2, <3>3, <3>4 DEF ld
  <2> QED
    BY <2>2, <2>3
<1> HIDE DEF LoadType
<1>3. load' \in [Load -> LoadType]
  BY <1>1, <1>2
<1>4. TypeOK'
  <2>1. shown' \in [View -> Picture \cup {Placeholder, Blank, Picked}]
    BY <1>1 DEF TypeOK, Shows
  <2>2. webURL' \in [View -> Picture \cup {None}]
    BY <1>1 DEF TypeOK
  <2> QED
    BY <1>1, <1>3, <2>1, <2>2 DEF TypeOK
<1>5. CellsFit'
  <2>1. \A c \in Cell : shown'[c] = shown[c]
    BY <1>1, Apart DEF Shows
  <2> QED
    BY <1>1, <1>2, <2>1, CellsStay
<1>6. LoadsAreFresh' /\ OwnCacheIsFresh'
  BY <1>1, <1>2 DEF LoadsAreFresh, OwnCacheIsFresh
<1>7. PickIsKept'
  <2>1. \A m \in Load : load'[m].view = Edit => load'[m].key = Me
    BY <1>2, Apart DEF PickIsKept
  <2> QED
    BY <1>1, <2>1 DEF PickIsKept
<1> QED
  BY <1>4, <1>5, <1>6, <1>7

LEMMA ImagePickedKeeps == ASSUME ImagesInv, ImagePicked PROVE ImagesInv'
<1> USE DEF ImagesInv
<1>1. /\ UNCHANGED <<stored, webURL, row, load, imageCache, imageRef, menuRef, editing, save,
                     redraw, late, overtaken>>
      /\ Shows(Edit, Picked) /\ canSave' = TRUE
      /\ calm' = (redraw # Edit /\ \A l \in Under : load[l].view # Edit)
  BY DEF ImagePicked
<1>2. \A l \in Load : load[l].view = Edit => l \in Under
  <2> SUFFICES ASSUME NEW l \in Load, load[l].view = Edit PROVE load[l].pc # "idle"
    BY DEF Under
  <2>1. load[l] \in LoadType
    BY DEF TypeOK
  <2> QED
    BY <2>1, LoadTypes, Apart
<1> HIDE DEF LoadType
<1>3. TypeOK'
  <2>1. shown' \in [View -> Picture \cup {Placeholder, Blank, Picked}]
    BY <1>1 DEF TypeOK, Shows
  <2>2. calm' \in BOOLEAN
    BY <1>1
  <2> QED
    BY <1>1, <2>1, <2>2 DEF TypeOK
<1>4. CellsFit'
  <2>1. \A c \in Cell : shown'[c] = shown[c]
    BY <1>1, Apart DEF Shows
  <2> QED
    BY <1>1, <2>1, CellsUntouched
<1>5. LoadsAreFresh' /\ OwnCacheIsFresh'
  BY <1>1 DEF LoadsAreFresh, OwnCacheIsFresh
<1>6. PickIsKept'
  <2>1. shown'[Edit] = Picked
    BY <1>1, Apart DEF Shows
  <2> QED
    BY <1>1, <1>2, <2>1 DEF PickIsKept, PickOrOwn
<1> QED
  BY <1>3, <1>4, <1>5, <1>6

LEMMA ImageStoredKeeps == ASSUME ImagesInv, ImageStored PROVE ImagesInv'
<1> USE DEF ImagesInv
<1>1. /\ UNCHANGED <<shown, webURL, row, imageCache, imageRef, menuRef, editing, canSave,
                     redraw, late, overtaken, calm>>
      /\ save = "sending" /\ save' = "stored" /\ stored' = <<Me, stored[2] + 1>>
      /\ load' = [l \in Load |->
                    IF load[l].pc = "asking" /\ Owner(load[l].key) = Me
                    THEN [load[l] EXCEPT !.urls = @ \cup {stored'}] ELSE load[l]]
  BY DEF ImageStored, viewVars, past
<1>2. /\ stored' \in Picture /\ stored'[1] = Me /\ stored'[2] = stored[2] + 1
      /\ imageRef[2] \in Nat /\ stored[2] \in Nat
  <2>1. stored \in Picture /\ imageRef \in Picture /\ MaxUpload \in Nat /\ Me \in User
    BY ImagesAssumption DEF TypeOK, ImagesAssumption
  <2>2. stored[2] \in 1..MaxUpload /\ imageRef[2] \in 1..MaxUpload
    BY <2>1 DEF Picture
  <2>3. stored[2] + 1 \in 1..MaxUpload
    BY <1>1, <2>1, <2>2 DEF TypeOK
  <2> QED
    BY <1>1, <2>1, <2>2, <2>3 DEF Picture
<1>3. ASSUME NEW l \in Load
      PROVE  load'[l] \in LoadType /\ load'[l].view = load[l].view /\ load'[l].key = load[l].key
  <2>1. load[l] \in LoadType
    BY DEF TypeOK
  <2>2. CASE ~(load[l].pc = "asking" /\ Owner(load[l].key) = Me)
    BY <1>1, <2>1, <2>2
  <2>3. CASE load[l].pc = "asking" /\ Owner(load[l].key) = Me
    <3> DEFINE ld   == load[l]
               urls == ld.urls \cup {stored'}
    <3>1. /\ ld.view \in View \cup {Elsewhere} /\ ld.key \in Key /\ ld.urls \in SUBSET Picture
          /\ \A p \in ld.urls : p[1] = Owner(ld.key)
          /\ ld = [pc |-> "asking", view |-> ld.view, key |-> ld.key, urls |-> ld.urls]
      BY <2>1, <2>3, LoadTypes
    <3>2. urls \in SUBSET Picture /\ \A p \in urls : p[1] = Owner(ld.key)
      BY <1>2, <2>3, <3>1
    <3>3. load'[l] = [ld EXCEPT !.urls = urls]
      BY <1>1, <2>3
    <3> HIDE DEF ld, urls
    <3>4. [pc |-> "asking", view |-> ld.view, key |-> ld.key, urls |-> urls] \in LoadType
      BY <3>1, <3>2, IsALoad
    <3> HIDE DEF LoadType
    <3>5. [ld EXCEPT !.urls = urls] =
             [pc |-> "asking", view |-> ld.view, key |-> ld.key, urls |-> urls]
      BY <3>1, MoreAnswers
    <3> QED
      BY <3>3, <3>4, <3>5 DEF ld
  <2> QED
    BY <2>2, <2>3
<1> HIDE DEF LoadType
<1>4. load' \in [Load -> LoadType]
  BY <1>1, <1>3
<1>5. TypeOK'
  BY <1>1, <1>2, <1>4 DEF TypeOK
<1>6. CellsFit'
  BY <1>1, <1>3, CellsStay
<1>7. imageRef # stored' /\ imageRef[2] <= stored'[2]
  BY <1>2 DEF LoadsAreFresh
<1>8. LoadsAreFresh' /\ OwnCacheIsFresh'
  BY <1>1, <1>7 DEF LoadsAreFresh, OwnCacheIsFresh
<1>9. PickIsKept'
  BY <1>1, <1>3 DEF PickIsKept
<1> QED
  BY <1>5, <1>6, <1>8, <1>9

LEMMA SaveStepsKeep ==
  ASSUME ImagesInv, (SaveBtnPressed /\ ~Relaunch) \/ SaveFails PROVE ImagesInv'
<1> USE DEF ImagesInv
<1>1. /\ UNCHANGED <<stored, shown, webURL, row, load, imageCache, imageRef, menuRef, editing,
                     canSave, redraw, late, overtaken, calm>>
      /\ \/ save' \in {"none", "stuck"}
         \/ save' = "sending" /\ stored[2] < MaxUpload
  BY DEF SaveBtnPressed, SaveFails, viewVars, past
<1> HIDE DEF LoadType
<1>2. TypeOK'
  BY <1>1 DEF TypeOK
<1>3. CellsFit' /\ LoadsAreFresh' /\ OwnCacheIsFresh' /\ PickIsKept'
  BY <1>1 DEF CellsFit, LoadsAreFresh, OwnCacheIsFresh, PickIsKept
<1> QED
  BY <1>2, <1>3

LEMMA SaveEndsKeeps == ASSUME ImagesInv, SaveEnds PROVE ImagesInv'
<1> USE DEF ImagesInv
<1>1. /\ UNCHANGED <<stored, shown, webURL, row, load, menuRef, editing, overtaken>>
      /\ save' = "none" /\ redraw' \in {Edit, Elsewhere} /\ imageRef' = stored /\ imageCache' = [k \in Key |-> None]
      /\ late' = AfterFormer /\ canSave' = FALSE /\ calm' = FALSE
  BY DEF SaveEnds, LeaveRedraw, viewVars
<1>2. AfterFormer \in BOOLEAN
  BY DEF AfterFormer
<1>3. stored[2] \in Nat
  <2>1. MaxUpload \in Nat /\ stored \in User \X (1..MaxUpload)
    BY ImagesAssumption DEF TypeOK, Picture, ImagesAssumption
  <2> QED
    BY <2>1
<1>4. TypeOK'
  BY <1>1, <1>2 DEF TypeOK
<1>5. CellsFit'
  BY <1>1 DEF CellsFit
<1>6. LoadsAreFresh'
  BY <1>1, <1>3 DEF LoadsAreFresh, AfterFormer, Under
<1>7. OwnCacheIsFresh' /\ PickIsKept'
  BY <1>1 DEF OwnCacheIsFresh, PickIsKept
<1> QED
  BY <1>4, <1>5, <1>6, <1>7

LEMMA RedrawKeeps == ASSUME ImagesInv, Redraw PROVE ImagesInv'
<1> USE DEF ImagesInv
<1> DEFINE v == redraw
<1>1. /\ UNCHANGED <<stored, shown, webURL, row, imageCache, imageRef, menuRef, editing, canSave,
                     save, late, overtaken, calm>>
      /\ redraw # None /\ redraw' = None
      /\ DownloadAndCacheImage(v, Me)
  BY DEF Redraw, viewVars, past
<1>2. v \in View \cup {Elsewhere} /\ v \notin Cell /\ Me \in Key
  BY <1>1, Apart DEF TypeOK
<1>8. redraw = v
  OBVIOUS
<1> HIDE DEF v
<1>3. /\ load' \in [Load -> LoadType]
      /\ \A l \in Load :
            \/ load'[l] = load[l]
            \/ load'[l].view = v /\ load'[l].key = Me /\ load'[l].urls = {Newest(Owner(Me))}
  BY <1>1, <1>2, NewLoad
<1> HIDE DEF LoadType
<1>4. TypeOK'
  BY <1>1, <1>3 DEF TypeOK
<1>5. CellsFit'
  BY <1>1, <1>2, <1>3, CellsUntouched
<1>6. LoadsAreFresh'
  BY <1>1, <1>2, <1>3, FreshStarts
<1>7. OwnCacheIsFresh'
  BY <1>1 DEF OwnCacheIsFresh
<1>9. PickIsKept'
  <2>1. \A l \in Load : load'[l].view = Edit => load'[l].key = Me
    BY <1>3 DEF PickIsKept
  <2>2. canSave /\ calm => \A l \in Load : load'[l].view # Edit
    BY <1>3, <1>8 DEF PickIsKept
  <2>3. redraw' # Edit
    BY <1>1, Apart
  <2> QED
    BY <1>1, <2>1, <2>2, <2>3 DEF PickIsKept
<1> QED
  BY <1>4, <1>5, <1>6, <1>7, <1>9

LEMMA CacheEmptiedKeeps == ASSUME ImagesInv, NEW k \in Key, CacheEmptied(k) PROVE ImagesInv'
<1> USE DEF ImagesInv
<1>1. /\ UNCHANGED <<stored, shown, webURL, row, load, imageRef, menuRef, editing, canSave, save,
                     redraw, late, overtaken, calm>>
      /\ imageCache' = [imageCache EXCEPT ![k] = None]
  BY DEF CacheEmptied, viewVars, editVars, past
<1>2. \A m \in Key : imageCache'[m] \in {None, imageCache[m]}
  BY <1>1 DEF TypeOK
<1> HIDE DEF LoadType
<1>3. TypeOK'
  <2>1. imageCache' \in [Key -> Picture \cup {None}]
    BY <1>1 DEF TypeOK
  <2> QED
    BY <1>1, <1>2, <2>1 DEF TypeOK
<1>4. CellsFit' /\ LoadsAreFresh' /\ PickIsKept'
  BY <1>1 DEF CellsFit, LoadsAreFresh, PickIsKept
<1>5. OwnCacheIsFresh'
  BY <1>1, <1>2 DEF OwnCacheIsFresh
<1> QED
  BY <1>3, <1>4, <1>5

\* A launch: nothing is shown, loaded or cached.
LEMMA LaunchFits ==
  ASSUME stored' \in Picture, stored'[1] = Me, imageRef' \in Picture, menuRef' \in Picture,
         imageRef'[2] <= stored'[2],
         shown' = Unseen, webURL' = [v \in View |-> None], row' = NoRow,
         load' = [l \in Load |-> Idle], imageCache' = [k \in Key |-> None],
         editing' = FALSE, canSave' = FALSE, save' = "none", redraw' = None,
         late' = FALSE, overtaken' = [c \in Cell |-> FALSE], calm' = FALSE
  PROVE  ImagesInv'
<1>1. Idle \in LoadType /\ Idle.pc = "idle" /\ Idle.view = None
  BY DEF LoadType, Idle
<1> HIDE DEF LoadType, Idle
<1>2. TypeOK'
  BY <1>1 DEF TypeOK, Unseen, NoRow
<1>3. CellsFit'
  BY <1>1, Apart DEF CellsFit, Unseen
<1>4. LoadsAreFresh' /\ OwnCacheIsFresh'
  BY <1>1 DEF LoadsAreFresh, OwnCacheIsFresh
<1>5. PickIsKept'
  BY <1>1, Apart DEF PickIsKept
<1> QED
  BY <1>2, <1>3, <1>4, <1>5 DEF ImagesInv

LEMMA RelaunchKeeps == ASSUME ImagesInv, Relaunch PROVE ImagesInv'
<1>1. /\ stored \in Picture /\ stored[1] = Me /\ imageRef \in Picture
      /\ imageRef[2] <= stored[2]
  BY DEF ImagesInv, TypeOK, LoadsAreFresh
<1> QED
  BY <1>1, LaunchFits DEF Relaunch

LEMMA InitImages == Init => ImagesInv
<1> SUFFICES ASSUME Init PROVE ImagesInv
  OBVIOUS
<1>1. stored \in Picture /\ stored[1] = Me /\ stored[2] = 1
  BY ImagesAssumption DEF Init, Picture, ImagesAssumption
<1>2. Idle \in LoadType /\ Idle.pc = "idle" /\ Idle.view = None
  BY DEF LoadType, Idle
<1> HIDE DEF LoadType, Idle
<1>3. TypeOK
  BY <1>1, <1>2 DEF Init, TypeOK, Unseen, NoRow
<1>4. CellsFit
  BY <1>2, Apart DEF Init, CellsFit, Unseen
<1>5. LoadsAreFresh /\ OwnCacheIsFresh
  BY <1>1, <1>2 DEF Init, LoadsAreFresh, OwnCacheIsFresh
<1>6. PickIsKept
  BY <1>2, Apart DEF Init, PickIsKept
<1> QED
  BY <1>3, <1>4, <1>5, <1>6 DEF ImagesInv

LEMMA ImagesStutter == ASSUME ImagesInv, UNCHANGED vars PROVE ImagesInv'
<1>1. UNCHANGED <<stored, shown, webURL, row, load, imageCache, imageRef, menuRef, editing,
                  canSave, save, redraw, late, overtaken, calm>>
  BY DEF vars, viewVars, editVars, past
<1> HIDE DEF LoadType
<1> QED
  BY <1>1 DEF ImagesInv, TypeOK, CellsFit, LoadsAreFresh, OwnCacheIsFresh, PickIsKept

LEMMA ImagesKeep == ImagesInv /\ [Next]_vars => ImagesInv'
<1> SUFFICES ASSUME ImagesInv, [Next]_vars PROVE ImagesInv'
  OBVIOUS
<1>1. ASSUME NEW l \in Load, URLArrives(l) \/ URLFails(l) \/ ImageArrives(l) \/ ImageFails(l)
      PROVE  ImagesInv'
  <2>1. CASE ImageFails(l)
    BY <2>1, RelaunchKeeps DEF ImageFails
  <2> QED
    BY <1>1, <2>1, URLArrivesKeeps, URLFailsKeeps, ImageArrivesKeeps
<1>2. ASSUME NEW c \in Cell, NEW r \in Row, CellForRowAt(c, r) PROVE ImagesInv'
  BY <1>2, CellForRowAtKeeps
<1>3. CASE MenuAppears
  BY <1>3, MenuAppearsKeeps
<1>4. CASE OpenEditProfile \/ CloseEditProfile \/ ImagePicked
  BY <1>4, OpenEditProfileKeeps, CloseEditProfileKeeps, ImagePickedKeeps
<1>5. CASE SaveBtnPressed \/ SaveFails
  BY <1>5, SaveStepsKeep, RelaunchKeeps
<1>6. CASE ImageStored \/ SaveEnds \/ Redraw
  BY <1>6, ImageStoredKeeps, SaveEndsKeeps, RedrawKeeps
<1>7. ASSUME NEW k \in Key, CacheEmptied(k) PROVE ImagesInv'
  BY <1>7, CacheEmptiedKeeps
<1>8. CASE UNCHANGED vars
  BY <1>8, ImagesStutter
<1> QED
  BY <1>1, <1>2, <1>3, <1>4, <1>5, <1>6, <1>7, <1>8 DEF Next

(* The invariant all the others follow from. *)
THEOREM ImagesCorrect == Spec => []ImagesInv
<1>1. Init => ImagesInv
  BY InitImages
<1>2. ImagesInv /\ [Next]_vars => ImagesInv'
  BY ImagesKeep
<1> QED
  BY <1>1, <1>2, PTL DEF Spec

(* Every variable has its type, and imageCache holds for each row a        *)
(* picture of its creator, though cells are used again meanwhile.          *)
THEOREM ImagesTypes == Spec => []TypeOK
<1>1. ImagesInv => TypeOK
  BY DEF ImagesInv
<1> QED
  BY <1>1, ImagesCorrect, PTL

(* A cell that was used again only when its downloads of other users'      *)
(* pictures were over never shows another's face: setPlaceholderImage and  *)
(* loadImageUsingCache together.  Of a cell that was used again sooner     *)
(* nothing is said: the code may leave the wrong face there.               *)
THEOREM FaceSafety == Spec => []PatientCellsAreRight
<1>1. ImagesInv => PatientCellsAreRight
  <2> SUFFICES ASSUME ImagesInv, NEW c \in Cell, row[c] # None, ~overtaken[c],
                      shown[c] \notin {Placeholder, Blank}
               PROVE  shown[c] \in Picture /\ shown[c][1] = creator[row[c]]
    BY DEF PatientCellsAreRight
  <2>1. shown[c] \in Picture \cup {Placeholder, Blank, Picked}
    BY Apart DEF ImagesInv, TypeOK
  <2> QED
    BY <2>1 DEF ImagesInv, CellsFit
<1> QED
  BY <1>1, ImagesCorrect, PTL

(* removeAllObjects is enough to be rid of the user's former picture, when *)
(* no download of it is under way.                                         *)
THEOREM CacheSafety == Spec => []OwnCacheIsFresh
<1>1. ImagesInv => OwnCacheIsFresh
  BY DEF ImagesInv
<1> QED
  BY <1>1, ImagesCorrect, PTL

(* saveBtnPressed uploads what the user picked, if no download to the view *)
(* was under way or due when it was picked; else the pick may be lost, but *)
(* only to an image of the user's own, or to none: never to the            *)
(* placeholder or to another user's face.                                  *)
THEOREM PickSafety == Spec => []PickIsSaved
<1>1. ImagesInv => PickIsSaved
  BY DEF ImagesInv, PickIsKept, PickOrOwn, PickIsSaved
<1> QED
  BY <1>1, ImagesCorrect, PTL

-----------------------------------------------------------------------------
(* A blank view is waiting for its image *)

Awaits(l, v) == load[l].pc = "fetching" /\ load[l].view = v /\ load[l].urls = {webURL[v]}

\* What blanked a view was a load that is still to bring the view's own image.
BlankViewsAwait == \A v \in View : shown[v] = Blank => \E l \in Load : Awaits(l, v)

\* Views that are blank after the step were before it, and wait as they did.
LEMMA StillAwaited ==
  ASSUME BlankViewsAwait,
         \A v \in View : shown'[v] = Blank => shown[v] = Blank /\ webURL'[v] = webURL[v],
         \A v \in View, l \in Load : shown'[v] = Blank /\ Awaits(l, v) => load'[l] = load[l]
  PROVE  BlankViewsAwait'
<1> SUFFICES ASSUME NEW v \in View, shown'[v] = Blank PROVE \E l \in Load : Awaits(l, v)'
  BY DEF BlankViewsAwait
<1>1. shown[v] = Blank /\ webURL'[v] = webURL[v]
  OBVIOUS
<1>2. PICK l \in Load : Awaits(l, v)
  BY <1>1 DEF BlankViewsAwait
<1>3. load'[l] = load[l]
  BY <1>2
<1> QED
  BY <1>1, <1>2, <1>3 DEF Awaits

\* A load that is under way stays as it is when another starts.
LEMMA NewLoadTakesIdle ==
  ASSUME load \in [Load -> LoadType], NEW v, NEW k, DownloadAndCacheImage(v, k),
         NEW l \in Load, load[l].pc # "idle"
  PROVE  load'[l] = load[l]
<1>1. PICK m \in Load : load[m] = Idle /\ load' = [load EXCEPT ![m] = Asking(v, k)]
  BY DEF DownloadAndCacheImage
<1>2. l # m
  BY <1>1 DEF Idle
<1> HIDE DEF LoadType
<1> QED
  BY <1>1, <1>2

LEMMA LoadedAwaits ==
  ASSUME TypeOK, BlankViewsAwait, NEW v \in View, NEW k \in Key,
         LoadImageUsingCache(v, k, Placeholder), webURL' = webURL
  PROVE  BlankViewsAwait'
<1>1. load \in [Load -> LoadType] /\ imageCache \in [Key -> Picture \cup {None}]
  BY DEF TypeOK
<1>2. /\ shown' = [w \in View |-> IF w = v THEN shown'[v] ELSE shown[w]]
      /\ shown'[v] # Blank
  BY <1>1, Apart DEF LoadImageUsingCache, Shows
<1>3. \A l \in Load : load[l].pc = "fetching" => load'[l] = load[l]
  BY <1>1, NewLoadTakesIdle DEF LoadImageUsingCache
<1>4. \A w \in View : shown'[w] = Blank => shown[w] = Blank
  BY <1>2
<1>5. \A w \in View, l \in Load : Awaits(l, w) => load'[l] = load[l]
  BY <1>3 DEF Awaits
<1> HIDE DEF LoadType
<1> QED
  BY <1>4, <1>5, StillAwaited

LEMMA URLArrivesAwaits ==
  ASSUME TypeOK, BlankViewsAwait, NEW l \in Load, URLArrives(l) PROVE BlankViewsAwait'
<1> DEFINE v == load[l].view
<1>1. PICK url \in load[l].urls :
         /\ Shows(v, Blank)
         /\ webURL' = [w \in View |-> IF w = v THEN url ELSE webURL[w]]
         /\ load' = [load EXCEPT ![l] = Fetching(v, load[l].key, url)]
  BY DEF URLArrives
<1>2. load[l].pc = "asking" /\ load \in [Load -> LoadType]
  BY DEF URLArrives, TypeOK
<1> HIDE DEF v
<1>3. /\ load'[l].pc = "fetching" /\ load'[l].view = v /\ load'[l].urls = {url}
      /\ \A m \in Load : m # l => load'[m] = load[m]
  <2>1. load'[l] = Fetching(v, load[l].key, url) /\ \A m \in Load : m # l => load'[m] = load[m]
    BY <1>1, <1>2
  <2> QED
    BY <2>1 DEF Fetching
<1> SUFFICES ASSUME NEW w \in View, shown'[w] = Blank PROVE \E m \in Load : Awaits(m, w)'
  BY DEF BlankViewsAwait
<1>4. CASE w = v
  <2>1. webURL'[w] = url
    BY <1>1, <1>4
  <2>2. Awaits(l, w)'
    BY <1>3, <1>4, <2>1 DEF Awaits
  <2> QED
    BY <2>2
<1>5. CASE w # v
  <2>1. shown[w] = Blank /\ webURL'[w] = webURL[w]
    BY <1>1, <1>5 DEF Shows
  <2>2. PICK m \in Load : Awaits(m, w)
    BY <2>1 DEF BlankViewsAwait
  <2>3. m # l
    BY <1>2, <2>2 DEF Awaits
  <2>4. load'[m] = load[m]
    BY <1>3, <2>3
  <2>5. Awaits(m, w)'
    BY <2>1, <2>2, <2>4 DEF Awaits
  <2> QED
    BY <2>5
<1> QED
  BY <1>4, <1>5

LEMMA ImageArrivesAwaits ==
  ASSUME TypeOK, BlankViewsAwait, NEW l \in Load, ImageArrives(l) PROVE BlankViewsAwait'
<1> DEFINE v == load[l].view
<1>1. PICK url \in load[l].urls :
         shown' = [w \in View |-> IF w = v /\ webURL[w] = url THEN url ELSE shown[w]]
  BY DEF ImageArrives
<1>2. /\ webURL' = webURL /\ load[l].pc = "fetching" /\ load' = [load EXCEPT ![l] = Idle]
      /\ load \in [Load -> LoadType]
  BY DEF ImageArrives, TypeOK
<1>3. url \in Picture /\ load[l].urls = {url}
  <2>1. load[l] \in LoadType
    BY <1>2
  <2> QED
    BY <1>1, <1>2, <2>1, LoadTypes
<1> HIDE DEF LoadType, v
<1>4. \A m \in Load : m # l => load'[m] = load[m]
  BY <1>2
<1> SUFFICES ASSUME NEW w \in View, shown'[w] = Blank PROVE \E m \in Load : Awaits(m, w)'
  BY DEF BlankViewsAwait
<1>5. ~(w = v /\ webURL[w] = url) /\ shown[w] = Blank
  BY <1>1, <1>3, Apart
<1>6. PICK m \in Load : Awaits(m, w)
  BY <1>5 DEF BlankViewsAwait
<1>7. m # l
  <2> SUFFICES ASSUME m = l PROVE FALSE
    OBVIOUS
  <2>1. w = v /\ {url} = {webURL[w]}
    BY <1>3, <1>6 DEF Awaits, v
  <2> QED
    BY <1>5, <2>1
<1>8. load'[m] = load[m]
  BY <1>4, <1>7
<1>9. Awaits(m, w)'
  BY <1>2, <1>6, <1>8 DEF Awaits
<1> QED
  BY <1>9

\* The steps on EditProfileVC.
LEMMA EditAwaits ==
  ASSUME TypeOK, BlankViewsAwait, OpenEditProfile \/ CloseEditProfile \/ ImagePicked
  PROVE  BlankViewsAwait'
<1>1. CASE OpenEditProfile
  BY <1>1, LoadedAwaits, Apart DEF OpenEditProfile
<1>2. CASE CloseEditProfile
  <2>1. /\ webURL' = [webURL EXCEPT ![Edit] = None]
        /\ shown' = [w \in View |-> IF w = Edit THEN Placeholder ELSE shown[w]]
        /\ \A l \in Load : load[l].view # Edit => load'[l] = load[l]
        /\ webURL \in [View -> Picture \cup {None}]
    BY <1>2 DEF CloseEditProfile, Shows, TypeOK
  <2>2. \A w \in View : shown'[w] = Blank => w # Edit /\ shown[w] = Blank /\ webURL'[w] = webURL[w]
    BY <2>1, Apart
  <2>3. \A w \in View, l \in Load : shown'[w] = Blank /\ Awaits(l, w) => load'[l] = load[l]
    BY <2>1, <2>2 DEF Awaits
  <2> QED
    BY <2>2, <2>3, StillAwaited
<1>3. CASE ImagePicked
  <2>1. /\ webURL' = webURL /\ load' = load
        /\ shown' = [w \in View |-> IF w = Edit THEN Picked ELSE shown[w]]
    BY <1>3 DEF ImagePicked, Shows
  <2>2. \A w \in View : shown'[w] = Blank => shown[w] = Blank
    BY <2>1, Apart
  <2> QED
    BY <2>1, <2>2, StillAwaited
<1> QED
  BY <1>1, <1>2, <1>3

LEMMA RelaunchAwaits == ASSUME Relaunch PROVE BlankViewsAwait'
<1>1. \A v \in View : shown'[v] = Placeholder
  BY DEF Relaunch, Unseen
<1> QED
  BY <1>1, Apart DEF BlankViewsAwait

\* Steps that show nothing: they start loads, or touch those that still ask.
LEMMA QuietAwaits ==
  ASSUME BlankViewsAwait, UNCHANGED <<shown, webURL>>,
         \A l \in Load : load[l].pc = "fetching" => load'[l] = load[l]
  PROVE  BlankViewsAwait'
<1>1. \A w \in View, l \in Load : Awaits(l, w) => load'[l] = load[l]
  BY DEF Awaits
<1> QED
  BY <1>1, StillAwaited

LEMMA LoadStepsAwait ==
  ASSUME TypeOK, BlankViewsAwait,
         MenuAppears \/ Redraw \/ ImageStored \/ \E l \in Load : URLFails(l)
  PROVE  BlankViewsAwait'
<1>1. UNCHANGED <<shown, webURL>>
  BY DEF MenuAppears, Redraw, ImageStored, URLFails, viewVars
<1>2. load \in [Load -> LoadType]
  BY DEF TypeOK
<1>3. ASSUME NEW l \in Load, load[l].pc = "fetching" PROVE load'[l] = load[l]
  <2>1. CASE MenuAppears
    BY <1>2, <1>3, <2>1, NewLoadTakesIdle DEF MenuAppears
  <2>2. CASE Redraw
    BY <1>2, <1>3, <2>2, NewLoadTakesIdle DEF Redraw
  <2>3. CASE ImageStored
    BY <1>3, <2>3 DEF ImageStored
  <2>4. ASSUME NEW m \in Load, URLFails(m) PROVE load'[l] = load[l]
    <3>1. load[m].pc = "asking" /\ load' = [load EXCEPT ![m] = Idle]
      BY <2>4 DEF URLFails
    <3> HIDE DEF LoadType, Idle
    <3> QED
      BY <1>2, <1>3, <3>1
  <2> QED
    BY <2>1, <2>2, <2>3, <2>4
<1> HIDE DEF LoadType
<1> QED
  BY <1>1, <1>3, QuietAwaits

LEMMA OtherStepsAwait ==
  ASSUME BlankViewsAwait,
         \/ SaveBtnPressed /\ ~Relaunch
         \/ SaveFails \/ SaveEnds
         \/ \E k \in Key : CacheEmptied(k)
         \/ UNCHANGED vars
  PROVE  BlankViewsAwait'
<1>1. UNCHANGED <<shown, webURL, load>>
  BY DEF SaveBtnPressed, SaveFails, SaveEnds, CacheEmptied, vars, viewVars
<1> QED
  BY <1>1, QuietAwaits

LEMMA NextAwaits == TypeOK /\ BlankViewsAwait /\ [Next]_vars => BlankViewsAwait'
<1> SUFFICES ASSUME TypeOK, BlankViewsAwait, [Next]_vars PROVE BlankViewsAwait'
  OBVIOUS
<1>1. ASSUME NEW l \in Load, URLArrives(l) \/ URLFails(l) \/ ImageArrives(l) \/ ImageFails(l)
      PROVE  BlankViewsAwait'
  BY <1>1, URLArrivesAwaits, ImageArrivesAwaits, LoadStepsAwait, RelaunchAwaits DEF ImageFails
<1>2. ASSUME NEW c \in Cell, NEW r \in Row, CellForRowAt(c, r) PROVE BlankViewsAwait'
  BY <1>2, LoadedAwaits, Apart DEF CellForRowAt
<1>3. CASE OpenEditProfile \/ CloseEditProfile \/ ImagePicked
  BY <1>3, EditAwaits
<1>4. CASE MenuAppears \/ Redraw \/ ImageStored
  BY <1>4, LoadStepsAwait
<1>5. CASE SaveBtnPressed
  BY <1>5, RelaunchAwaits, OtherStepsAwait
<1>6. ASSUME SaveFails \/ SaveEnds \/ (\E k \in Key : CacheEmptied(k)) \/ UNCHANGED vars
      PROVE  BlankViewsAwait'
  BY <1>6, OtherStepsAwait
<1> QED
  BY <1>1, <1>2, <1>3, <1>4, <1>5, <1>6 DEF Next

(* No view is left blank with nothing to fill it: the load that blanked it *)
(* still waits for Kingfisher, with the very URL Kingfisher wants for the  *)
(* view, however often the cell was used again or the screen reopened.     *)
THEOREM BlankViewsAreAwaited == Spec => []BlankViewsAwait
<1>1. Init => BlankViewsAwait
  BY Apart DEF Init, Unseen, BlankViewsAwait
<1>2. TypeOK /\ BlankViewsAwait /\ [Next]_vars => BlankViewsAwait'
  BY NextAwaits
<1>3. ImagesInv => TypeOK
  BY DEF ImagesInv
<1> QED
  BY <1>1, <1>2, <1>3, ImagesCorrect, PTL DEF Spec

=============================================================================
