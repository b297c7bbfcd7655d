---------------------------- MODULE ProfileImages ----------------------------
(***************************************************************************)
(* Faces: UIImageView.loadImageUsingCache and downloadAndCacheImage, the   *)
(* cells that are used again for another row while their downloads go on,  *)
(* imageCache, and EditProfileVC, which uploads what its image view shows  *)
(* and then forgets every cached image.                                    *)
(*                                                                         *)
(* A load asks Storage for a download URL, then Kingfisher for the image.  *)
(* Kingfisher blanks the view when it is given the URL, shows the image    *)
(* only if the view has been given no other URL since, and calls the       *)
(* completion handler, which caches the image, in any case.  A picture and *)
(* the URL it is downloaded from are one value, <<whose, which upload>>:   *)
(* each upload makes a URL of its own.  An answer of Storage is the URL of *)
(* any picture that was stored since it was asked.  What other users upload *)
(* meanwhile is left out: nothing here depends on it.                      *)
(***************************************************************************)
EXTENDS Integers

CONSTANTS
    User,
    Me,          \* the user who is signed in
    Row,         \* stories and recordings: keys of imageCache, as Me is
    creator,     \* creatorID of each row
    Cell,        \* FeedTableViewCells
    Edit,        \* EditProfileVC's image view
    Elsewhere,   \* the image views of SideMenuVC, of ProfileVC and of screens closed
    Load,        \* as many loads may be under way at once (a bound)
    None,        \* no row, picture, view or key
    Placeholder, \* "person_icon"
    Blank,       \* a view with a nil image
    Picked,      \* the image last picked on EditProfileVC
    MaxUpload    \* bound on the pictures of the user

View == Cell \cup {Edit}
Key  == Row \cup {Me}
Picture == User \X (1..MaxUpload)

ASSUME ImagesAssumption ==
    /\ Me \in User /\ creator \in [Row -> User] /\ MaxUpload \in Nat \ {0}
    /\ Me \notin Row /\ None \notin Key \cup View \cup Picture \cup {Elsewhere}
    /\ Elsewhere \notin View /\ Edit \notin Cell
    /\ {Placeholder, Blank, Picked} \cap Picture = {}
    /\ Placeholder # Blank /\ Placeholder # Picked /\ Blank # Picked

Owner(k) == IF k \in Row THEN creator[k] ELSE k

VARIABLES
    stored,     \* the newest picture of the user in Storage
    shown,      \* the image of each view
    webURL,     \* kf.webURL of each view
    row,        \* the row each cell was last used for
    load,       \* the loads under way
    imageCache, \* Cache.imageCache
    imageRef,   \* imageRef of the details in Cache
    menuRef,    \* imageRef of the menu's userInfo
    editing,    \* EditProfileVC is open
    canSave,    \* its saveBtn is not hidden
    save,       \* where its upload is; "stuck" if there is nothing to send
    redraw,     \* the view its block on the main queue is due to draw, or None
    late,       \* a load was after a former picture of Me when the cache was cleared,
    overtaken,  \* after another creator's when the cell was used again,
    calm        \* none was under way, or due, when the image was picked (only recorded)

viewVars == <<shown, webURL, row>>
editVars == <<editing, canSave, save, redraw>>
past     == <<late, overtaken, calm>>
vars == <<stored, viewVars, load, imageCache, imageRef, menuRef, editVars, past>>

Idle == [pc |-> "idle", view |-> None, key |-> None, urls |-> {}]
Under == {l \in Load : load[l].pc # "idle"}

Unseen == [v \in View |-> Placeholder]
NoRow  == [c \in Cell |-> None]

Init ==
    /\ stored = <<Me, 1>> /\ imageRef = stored /\ menuRef = stored
    /\ shown = Unseen /\ webURL = [v \in View |-> None] /\ row = NoRow
    /\ load = [l \in Load |-> Idle] /\ imageCache = [k \in Key |-> None]
    /\ editing = FALSE /\ canSave = FALSE /\ save = "none" /\ redraw = None
    /\ late = FALSE /\ overtaken = [c \in Cell |-> FALSE] /\ calm = FALSE

\* The app ends and is launched again; the details are read from Users.
Relaunch ==
    /\ shown' = Unseen /\ webURL' = [v \in View |-> None] /\ row' = NoRow
    /\ load' = [l \in Load |-> Idle] /\ imageCache' = [k \in Key |-> None]
    /\ editing' = FALSE /\ canSave' = FALSE /\ save' = "none" /\ redraw' = None
    /\ late' = FALSE /\ overtaken' = [c \in Cell |-> FALSE] /\ calm' = FALSE
    /\ menuRef' = imageRef
    /\ UNCHANGED <<stored, imageRef>>

-----------------------------------------------------------------------------
(* UIImageViewExtension *)

\* The newest picture of u.
Newest(u) == IF u = Me THEN stored ELSE <<u, 1>>

\* A request for the URL of the picture as it is now, or will be.
Asking(v, k) == [pc |-> "asking", view |-> v, key |-> k, urls |-> {Newest(Owner(k))}]

Fetching(v, k, url) == [pc |-> "fetching", view |-> v, key |-> k, urls |-> {url}]

\* v shows image, if there is a v still.
Shows(v, image) == shown' = [w \in View |-> IF w = v THEN image ELSE shown[w]]

\* downloadAndCacheImage
DownloadAndCacheImage(v, k) ==
    \E l \in Load : load[l] = Idle /\ load' = [load EXCEPT ![l] = Asking(v, k)]

\* loadImageUsingCache on a view that shows former; webURL is not touched.
LoadImageUsingCache(v, k, former) ==
    \/ /\ imageCache[k] # None
       /\ Shows(v, imageCache[k])
       /\ UNCHANGED load
    \/ /\ imageCache[k] = None
       /\ Shows(v, former)
       /\ DownloadAndCacheImage(v, k)

\* downloadURL's callback: setImage blanks the view.
URLArrives(l) ==
    /\ load[l].pc = "asking"
    /\ \E url \in load[l].urls :
          /\ Shows(load[l].view, Blank)
          /\ webURL' = [w \in View |-> IF w = load[l].view THEN url ELSE webURL[w]]
          /\ load' = [load EXCEPT ![l] = Fetching(load[l].view, load[l].key, url)]
    /\ UNCHANGED <<stored, row, imageCache, imageRef, menuRef, editVars, past>>

URLFails(l) ==
    /\ load[l].pc = "asking"
    /\ load' = [load EXCEPT ![l] = Idle]
    /\ UNCHANGED <<stored, viewVars, imageCache, imageRef, menuRef, editVars, past>>

\* Seeded fault: the image is cached, but not shown.
ImageArrives_NotShown(l) ==
    /\ load[l].pc = "fetching"
    /\ \E url \in load[l].urls : imageCache' = [imageCache EXCEPT ![load[l].key] = url]
    /\ load' = [load EXCEPT ![l] = Idle]
    /\ UNCHANGED <<stored, viewVars, imageRef, menuRef, editVars, past>>

\* Seeded fault: the image is cached for the row that the cell is used for now.
ImageArrives_ForRowNow(l) ==
    /\ load[l].pc = "fetching"
    /\ \E url \in load[l].urls :
          /\ shown' = [w \in View |-> IF w = load[l].view /\ webURL[w] = url
                                      THEN url ELSE shown[w]]
          /\ imageCache' = [imageCache EXCEPT
                ![IF load[l].view \in Cell THEN row[load[l].view] ELSE load[l].key] = url]
    /\ load' = [load EXCEPT ![l] = Idle]
    /\ UNCHANGED <<stored, webURL, row, imageRef, menuRef, editVars, past>>

\* Kingfisher has the image and calls the completion handler.
ImageArrives(l) ==
    /\ load[l].pc = "fetching"
    /\ \E url \in load[l].urls :
          /\ shown' = [w \in View |-> IF w = load[l].view /\ webURL[w] = url
                                      THEN url ELSE shown[w]]
          /\ imageCache' = [imageCache EXCEPT ![load[l].key] = url]
    /\ load' = [load EXCEPT ![l] = Idle]
    /\ UNCHANGED <<stored, webURL, row, imageRef, menuRef, editVars, past>>

\* It has none: the handler unwraps nil, and the app ends.
ImageFails(l) ==
    /\ load[l].pc = "fetching"
    /\ Relaunch

-----------------------------------------------------------------------------
(* The lists and the menu *)

\* Loads on c after the picture of somebody else than r's creator.
Overtaken(c, r) == \E l \in Under : load[l].view = c /\ Owner(load[l].key) # creator[r]

\* Seeded fault: no setPlaceholderImage, the cell keeps its former image.
CellForRowAt_KeepsImage(c, r) ==
    /\ row' = [row EXCEPT ![c] = r]
    /\ LoadImageUsingCache(c, r, shown[c])
    /\ overtaken' = [overtaken EXCEPT ![c] = Overtaken(c, r)]
    /\ UNCHANGED <<stored, webURL, imageCache, imageRef, menuRef, editVars, late, calm>>

CellForRowAt(c, r) ==
    /\ row' = [row EXCEPT ![c] = r]
    /\ LoadImageUsingCache(c, r, Placeholder)
    /\ overtaken' = [overtaken EXCEPT ![c] = Overtaken(c, r)]
    /\ UNCHANGED <<stored, webURL, imageCache, imageRef, menuRef, editVars, late, calm>>

\* viewDidAppear, after a new picture; ProfileVC has the same.
MenuAppears ==
    /\ ~editing
    /\ imageRef # menuRef
    /\ menuRef' = imageRef
    /\ \/ imageCache[Me] # None /\ UNCHANGED load
       \/ imageCache[Me] = None /\ DownloadAndCacheImage(Elsewhere, Me)
    /\ UNCHANGED <<stored, viewVars, imageCache, imageRef, editVars, past>>

-----------------------------------------------------------------------------
(* EditProfileVC; one save at a time is a bound *)

OpenEditProfile ==
    /\ ~editing /\ save = "none"
    /\ editing' = TRUE /\ canSave' = FALSE
    /\ LoadImageUsingCache(Edit, Me, Placeholder)
    /\ UNCHANGED <<stored, webURL, row, imageCache, imageRef, menuRef, save, redraw, past>>

\* The callbacks hold on to a view that no screen shows any more.
CloseEditProfile ==
    /\ editing
    /\ editing' = FALSE /\ canSave' = FALSE /\ calm' = FALSE
    /\ Shows(Edit, Placeholder)
    /\ webURL' = [webURL EXCEPT ![Edit] = None]
    /\ load' = [l \in Load |-> IF load[l].view = Edit THEN [load[l] EXCEPT !.view = Elsewhere] ELSE load[l]]
    /\ save' = IF save = "stuck" THEN "none" ELSE save
    /\ redraw' = IF redraw = Edit THEN Elsewhere ELSE redraw
    /\ UNCHANGED <<stored, row, imageCache, imageRef, menuRef, late, overtaken>>

\* imagePickerController(_:didFinishPickingMediaWithInfo:)
ImagePicked ==
    /\ editing
    /\ Shows(Edit, Picked)
    /\ canSave' = TRUE
    /\ calm' = (redraw # Edit /\ \A l \in Under : load[l].view # Edit)
    /\ UNCHANGED <<stored, webURL, row, load, imageCache, imageRef, menuRef, editing, save,
                   redraw, late, overtaken>>

\* What is uploaded is what the view shows; a nil image ends the app. Of one
\* without jpegData nothing is sent, and the button stays disabled.
SaveBtnPressed ==
    /\ editing /\ canSave /\ save = "none"
    /\ \/ /\ shown[Edit] # Blank /\ stored[2] < MaxUpload
          /\ save' \in {"sending", "stuck"}
          /\ UNCHANGED <<stored, viewVars, load, imageCache, imageRef, menuRef, editing,
                         canSave, redraw, past>>
       \/ shown[Edit] = Blank /\ Relaunch

\* Storage has what was sent: the answers under way may be either picture's.
ImageStored ==
    /\ save = "sending" /\ save' = "stored"
    /\ stored' = <<Me, stored[2] + 1>>
    /\ load' = [l \in Load |->
          IF load[l].pc = "asking" /\ Owner(load[l].key) = Me
          THEN [load[l] EXCEPT !.urls = @ \cup {stored'}] ELSE load[l]]
    /\ UNCHANGED <<viewVars, imageCache, imageRef, menuRef, editing, canSave, redraw, past>>

\* putData or downloadURL fail, the image stored or not.
SaveFails ==
    /\ save \in {"sending", "stored"} /\ save' = "none"
    /\ UNCHANGED <<stored, viewVars, load, imageCache, imageRef, menuRef, editing, canSave,
                   redraw, past>>

\* Loads of which the answer is a former picture of Me.
AfterFormer == \E l \in Under : Owner(load[l].key) = Me /\ load[l].urls # {stored}

\* The block that is left to the main queue holds on to the image view. Storage
\* answers on that queue too, so after any block that was left there before.
LeaveRedraw ==
    /\ redraw = None
    /\ redraw' = IF editing THEN Edit ELSE Elsewhere

\* Seeded fault: the cached images are kept.
SaveEnds_KeepsImages ==
    /\ save = "stored" /\ save' = "none" /\ LeaveRedraw
    /\ imageRef' = stored
    /\ late' = AfterFormer
    /\ canSave' = FALSE /\ calm' = FALSE
    /\ UNCHANGED <<stored, viewVars, load, imageCache, menuRef, editing, overtaken>>

\* Seeded fault: the button is enabled again, but not hidden.
SaveEnds_KeepsButton ==
    /\ save = "stored" /\ save' = "none" /\ LeaveRedraw
    /\ imageRef' = stored
    /\ imageCache' = [k \in Key |-> None]
    /\ late' = AfterFormer
    /\ UNCHANGED <<stored, viewVars, load, menuRef, editing, canSave, overtaken, calm>>

\* The new URL is written to Users and to Cache; removeAllObjects.
SaveEnds ==
    /\ save = "stored" /\ save' = "none" /\ LeaveRedraw
    /\ imageRef' = stored
    /\ imageCache' = [k \in Key |-> None]
    /\ late' = AfterFormer
    /\ canSave' = FALSE /\ calm' = FALSE
    /\ UNCHANGED <<stored, viewVars, load, menuRef, editing, overtaken>>

\* The block runs; an image may have been picked, or the screen left, before it.
Redraw ==
    /\ redraw # None /\ redraw' = None
    /\ DownloadAndCacheImage(redraw, Me)
    /\ UNCHANGED <<stored, viewVars, imageCache, imageRef, menuRef, editing, canSave, save, past>>

\* NSCache lets go of an image.
CacheEmptied(k) ==
    /\ imageCache[k] # None
    /\ imageCache' = [imageCache EXCEPT ![k] = None]
    /\ UNCHANGED <<stored, viewVars, load, imageRef, menuRef, editVars, past>>

-----------------------------------------------------------------------------
Next ==
    \/ \E l \in Load : URLArrives(l) \/ URLFails(l) \/ ImageArrives(l) \/ ImageFails(l)
    \/ \E c \in Cell, r \in Row : CellForRowAt(c, r)
    \/ MenuAppears
    \/ OpenEditProfile \/ CloseEditProfile \/ ImagePicked \/ SaveBtnPressed
    \/ ImageStored \/ SaveFails \/ SaveEnds \/ Redraw
    \/ \E k \in Key : CacheEmptied(k)

\* Kingfisher answers, with an image or without.
Fairness == \A l \in Load : WF_vars(ImageArrives(l) \/ ImageFails(l))

Spec == Init /\ [][Next]_vars /\ Fairness

-----------------------------------------------------------------------------
LoadType ==
    {Idle} \cup
    { ld \in [pc : {"asking", "fetching"}, view : View \cup {Elsewhere}, key : Key, urls : SUBSET Picture] :
         /\ \A p \in ld.urls : p[1] = Owner(ld.key)
         /\ ld.pc = "fetching" => \E p \in Picture : ld.urls = {p} }

(* Every variable has its type; what is cached for a row is a picture of   *)
(* its creator, whatever cell it was downloaded for.                       *)
TypeOK ==
    /\ stored \in Picture /\ stored[1] = Me
    /\ shown \in [View -> Picture \cup {Placeholder, Blank, Picked}]
    /\ webURL \in [View -> Picture \cup {None}]
    /\ row \in [Cell -> Row \cup {None}]
    /\ load \in [Load -> LoadType]
    /\ imageCache \in [Key -> Picture \cup {None}]
    /\ \A k \in Key : imageCache[k] # None => imageCache[k][1] = Owner(k)
    /\ imageRef \in Picture /\ menuRef \in Picture
    /\ editing \in BOOLEAN /\ canSave \in BOOLEAN
    /\ save \in {"none", "sending", "stored", "stuck"} /\ redraw \in {None, Edit, Elsewhere}
    /\ save = "sending" => stored[2] < MaxUpload
    /\ late \in BOOLEAN /\ overtaken \in [Cell -> BOOLEAN] /\ calm \in BOOLEAN

(* A cell that was used again only when its downloads were over, or for    *)
(* the same creator, never shows the face of somebody else.                *)
PatientCellsAreRight ==
    \A c \in Cell :
       row[c] # None /\ ~overtaken[c] /\ shown[c] \notin {Placeholder, Blank} =>
          shown[c] \in Picture /\ shown[c][1] = creator[row[c]]

(* When the user's newest picture has been announced, and no download of a *)
(* former one was under way as the cache was cleared, no list and no       *)
(* screen finds a former one in the cache again.                           *)
OwnCacheIsFresh ==
    imageRef = stored /\ ~late =>
       \A k \in Key : Owner(k) = Me => imageCache[k] \in {None, stored}

(* While the save button is there, what it uploads is the image that was   *)
(* picked, if no download to the view was under way or due when it was. A  *)
(* pick that was overtaken may be lost to an image of the user's own, or   *)
(* to none, but never to the placeholder or to another user's face.        *)
PickIsSaved ==
    editing /\ canSave =>
       /\ calm => shown[Edit] = Picked
       /\ shown[Edit] \in {Picked, Blank} \cup {p \in Picture : p[1] = Me}

(* A view that was blanked for an image shows something again.             *)
NoViewStaysBlank == \A v \in View : shown[v] = Blank ~> shown[v] # Blank

=============================================================================
