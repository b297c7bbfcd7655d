------------------------------ MODULE Accounts ------------------------------
(***************************************************************************)
(* Who is signed in, and as whom the screens act: RegisterVC's chain of    *)
(* callbacks (an anonymous user reads Users, is deleted, and the account   *)
(* is created and described), LoginVC, the launch and the return to the    *)
(* foreground, which load the account's details into Cache, the profile    *)
(* image's upload, and signing out.                                        *)
(*                                                                         *)
(* External, as the code relies on it: Auth.currentUser outlives the app,  *)
(* a sign-in replaces it, signOut empties it at once and delete() later    *)
(* empties it if it is still the deleted user; the database answers one    *)
(* device's reads in order; a write to Users arrives at once (StoryFeed    *)
(* models the queue of writes); Cache, an NSCache, may be emptied by the   *)
(* system at any time.                                                     *)
(***************************************************************************)
EXTENDS Naturals, Sequences

CONSTANTS
    Device,
    Member,      \* accounts that exist and are verified from the start
    MemberName,  \* ... their usernames
    Name,        \* usernames that may be typed, in lower case
    Attempt,     \* presses of the register button
    None,
    Resident,    \* bound: the devices that log in, come back to the
                 \* foreground and are relaunched; others only register
    Hasty,       \* devices whose users go on while something is under way
    MaxAsked,    \* bound on getUserDetails calls without an answer
    MaxLaunches  \* bound on launches after the first

Anonymous(a) == <<"anonymous", a>>
Account(a)   == <<"account", a>>
IsAnonymous(u) == u \in {Anonymous(a) : a \in Attempt}
CanLogIn == Member \cup {Account(a) : a \in Attempt}
User     == CanLogIn \cup {Anonymous(a) : a \in Attempt}

ASSUME AccountsAssumption ==
    /\ Member # {} /\ MemberName \in [Member -> Name]
    /\ \A m, n \in Member : MemberName[m] = MemberName[n] => m = n
    /\ None \notin Device \cup User \cup Name
    /\ Member \cap {<<k, a>> : k \in {"anonymous", "account"}, a \in Attempt} = {}
    /\ Resident \subseteq Device /\ Hasty \subseteq Device
    /\ MaxAsked \in Nat /\ MaxLaunches \in Nat

VARIABLES
    live,      \* Auth: the accounts that exist
    verified,  \* ... those with a verified email address
    users,     \* Users/<uid>: the username there, None for no node
    deleting,  \* requests under way that delete an account: deleting an
               \* anonymous user changes nothing that is kept here
    current,   \* per device: Auth.currentUser
    screen,    \* "blank" until the details arrive, "login", "register",
               \* "app" for all that is behind the login, or "crashed"
    login,     \* per device: LoginVC waits for "sign-in", "details", or "no"
    loginAs,   \* ... the account typed in
    asked,     \* per device: getUserDetails calls without an answer
    cached,    \* per device: whose details Cache holds
    editing,   \* per device: whose details the open EditProfileVC has
    saving,    \* per device: ... and those that upload an image
    phase,     \* per attempt, see Phase
    dev,       \* ... the device
    here,      \* ... its RegisterVC is still in front
    name,      \* ... the text of that RegisterVC's username field
    checked,   \* ... the username that passed the check
    unseen,    \* ... the attempts that had passed the username check, and not
               \* written their username, when it passed it
    launches

authVars    == <<live, verified, deleting>>
sessionVars == <<login, loginAs, asked, cached>>
editVars    == <<editing, saving>>
regVars     == <<phase, dev, here, name, checked, unseen>>
vars == <<authVars, users, current, screen, sessionVars, editVars, regVars,
          launches>>

Phase   == {"unused", "signing in", "reading", "creating", "uploading", "mailing",
            "told", "ended"}
Running == Phase \ {"unused", "ended"}

\* A getUserDetails call: whose, and whether it was given the navigation.
Request == [user : User, navigates : BOOLEAN]

RunningOn(d) == {a \in Attempt : dev[a] = d /\ phase[a] \in Running}

Init ==
    /\ live = Member /\ verified = Member
    /\ users = [u \in User |-> IF u \in Member THEN MemberName[u] ELSE None]
    /\ deleting = {}
    /\ current = [d \in Device |-> None]
    /\ screen = [d \in Device |-> "login"]
    /\ login = [d \in Device |-> "no"] /\ loginAs = [d \in Device |-> None]
    /\ asked = [d \in Device |-> <<>>]
    /\ cached = [d \in Device |-> None]
    /\ editing = [d \in Device |-> None] /\ saving = [d \in Device |-> {}]
    /\ phase = [a \in Attempt |-> "unused"]
    /\ dev = [a \in Attempt |-> None]
    /\ here = [a \in Attempt |-> FALSE]
    /\ name = [a \in Attempt |-> None]
    /\ checked = [a \in Attempt |-> None]
    /\ unseen = [a \in Attempt |-> {}]
    /\ launches = 0

\* The user of d goes on, if something is under way only when hasty.
GoesOn(d, underWay) == underWay => d \in Hasty

SignOut(d) == current' = [current EXCEPT ![d] = None]

\* Seeded fault: delete() whether anyone is signed in or not.
DeleteCurrent_Unguarded(d) ==
    deleting' = deleting \cup {[by |-> d, user |-> current[d]]}

\* Auth.auth().currentUser?.delete(completion: .none)
DeleteCurrent(d) ==
    deleting' = IF current[d] \in CanLogIn
                THEN deleting \cup {[by |-> d, user |-> current[d]]} ELSE deleting

\* The registration screen of d is left.
Left(d) == here' = [a \in Attempt |-> here[a] /\ dev[a] # d]

-----------------------------------------------------------------------------
(* RegisterVC *)

\* An alert covers the screen.
Told(d) == \E a \in Attempt : dev[a] = d /\ here[a] /\ phase[a] = "told"

Typed(d, n) == [a \in Attempt |-> IF dev[a] = d /\ here[a] THEN n ELSE name[a]]

OpenRegister(d) ==
    /\ screen[d] = "login"
    /\ screen' = [screen EXCEPT ![d] = "register"]
    /\ GoesOn(d, login[d] # "no")
    /\ UNCHANGED <<authVars, users, current, sessionVars, editVars, regVars, launches>>

BackToLogin(d) ==
    /\ screen[d] = "register" /\ ~Told(d)
    /\ screen' = [screen EXCEPT ![d] = "login"]
    /\ Left(d)
    /\ GoesOn(d, RunningOn(d) # {})
    /\ UNCHANGED <<authVars, users, current, sessionVars, editVars,
                   phase, dev, name, checked, unseen, launches>>

\* The field belongs to the screen, and so to every attempt made on it.  An
\* edit of any field enables the button again, so that it holds nobody back.
UsernameTextFieldChanged(d, n) ==
    /\ screen[d] = "register" /\ ~Told(d) /\ RunningOn(d) # {}
    /\ name' = Typed(d, n)
    /\ GoesOn(d, TRUE)
    /\ UNCHANGED <<authVars, users, current, screen, sessionVars, editVars,
                   phase, dev, here, checked, unseen, launches>>

\* Seeded fault: any user who is signed in will do.
RegisterBtnPressed_ReusesUser(d, a, n) ==
    /\ screen[d] = "register" /\ ~Told(d) /\ phase[a] = "unused"
    /\ phase' = [phase EXCEPT ![a] =
                    IF current[d] # None THEN "reading" ELSE "signing in"]
    /\ dev' = [dev EXCEPT ![a] = d]
    /\ here' = [here EXCEPT ![a] = TRUE]
    /\ name' = [Typed(d, n) EXCEPT ![a] = n]
    /\ GoesOn(d, RunningOn(d) # {})
    /\ UNCHANGED <<authVars, users, current, screen, sessionVars, editVars,
                   checked, unseen, launches>>

\* signInAnonymously answers with the user that is signed in, if anonymous.
RegisterBtnPressed(d, a, n) ==
    /\ screen[d] = "register" /\ ~Told(d) /\ phase[a] = "unused"
    /\ phase' = [phase EXCEPT ![a] =
                    IF IsAnonymous(current[d]) THEN "reading" ELSE "signing in"]
    /\ dev' = [dev EXCEPT ![a] = d]
    /\ here' = [here EXCEPT ![a] = TRUE]
    /\ name' = [Typed(d, n) EXCEPT ![a] = n]
    /\ GoesOn(d, RunningOn(d) # {})
    /\ UNCHANGED <<authVars, users, current, screen, sessionVars, editVars,
                   checked, unseen, launches>>

SignedInAnonymously(a) ==
    /\ phase[a] = "signing in"
    /\ phase' = [phase EXCEPT ![a] = "reading"]
    /\ current' = [current EXCEPT ![dev[a]] = Anonymous(a)]
    /\ UNCHANGED <<authVars, users, screen, sessionVars, editVars,
                   dev, here, name, checked, unseen, launches>>

SignInAnonymouslyFails(a) ==
    /\ phase[a] = "signing in"
    /\ phase' = [phase EXCEPT ![a] = "ended"]
    /\ UNCHANGED <<authVars, users, current, screen, sessionVars, editVars,
                   dev, here, name, checked, unseen, launches>>

Registered == {u \in User : users[u] # None}
Taken(n)   == \E u \in Registered : users[u] = n
Passed     == {a \in Attempt : phase[a] \in {"creating", "uploading"}}

\* Seeded fault: the username is not compared.
UsersRead_Unchecked(a) ==
    /\ phase[a] = "reading"
    /\ phase' = [phase EXCEPT ![a] = "creating"]
    /\ checked' = [checked EXCEPT ![a] = name[a]]
    /\ unseen' = [unseen EXCEPT ![a] = Passed]
    /\ DeleteCurrent(dev[a])
    /\ SignOut(dev[a])
    /\ UNCHANGED <<live, verified, users, screen, sessionVars, editVars,
                   dev, here, name, launches>>

\* The users have been read: whoever is signed in by now is deleted and signed
\* out, in both cases.  With no user at all nothing happens.
UsersRead(a) ==
    /\ phase[a] = "reading"
    /\ phase' = [phase EXCEPT ![a] =
                    IF Registered = {} \/ Taken(name[a]) THEN "ended" ELSE "creating"]
    /\ checked' = [checked EXCEPT ![a] = IF Taken(name[a]) THEN None ELSE name[a]]
    /\ unseen' = [unseen EXCEPT ![a] = IF Taken(name[a]) THEN {} ELSE Passed]
    /\ IF Registered = {} THEN UNCHANGED <<deleting, current>>
                          ELSE DeleteCurrent(dev[a]) /\ SignOut(dev[a])
    /\ UNCHANGED <<live, verified, users, screen, sessionVars, editVars,
                   dev, here, name, launches>>

AddUserInfoToDatabase(a) ==
    /\ phase' = [phase EXCEPT ![a] = "mailing"]
    /\ users' = [users EXCEPT ![Account(a)] = name[a]]

\* With an image its upload comes first.
CreateUser(a) ==
    /\ phase[a] = "creating"
    /\ live' = live \cup {Account(a)}
    /\ current' = [current EXCEPT ![dev[a]] = Account(a)]
    /\ \/ AddUserInfoToDatabase(a)
       \/ phase' = [phase EXCEPT ![a] = "uploading"] /\ UNCHANGED users
    /\ UNCHANGED <<verified, deleting, screen, sessionVars, editVars,
                   dev, here, name, checked, unseen, launches>>

\* putData's completion and downloadURL's touch nothing in between.
ProfileImageUploaded(a) ==
    /\ phase[a] = "uploading"
    /\ AddUserInfoToDatabase(a)
    /\ UNCHANGED <<authVars, current, screen, sessionVars, editVars,
                   dev, here, name, checked, unseen, launches>>

\* The account is not created, its image not uploaded, the mail not sent: an
\* alert, and the account stays signed in if there is one.
RegistrationFails(a) ==
    /\ phase[a] \in {"creating", "uploading", "mailing"}
    /\ phase' = [phase EXCEPT ![a] = "ended"]
    /\ UNCHANGED <<authVars, users, current, screen, sessionVars, editVars,
                   dev, here, name, checked, unseen, launches>>

\* "Account created": not shown on a screen that has gone.
SendVerifcationEmail(a) ==
    /\ phase[a] = "mailing" /\ Account(a) \in live
    /\ phase' = [phase EXCEPT ![a] =
                    IF here[a] /\ ~Told(dev[a]) THEN "told" ELSE "ended"]
    /\ UNCHANGED <<authVars, users, current, screen, sessionVars, editVars,
                   dev, here, name, checked, unseen, launches>>

Ok(a) ==
    /\ phase[a] = "told" /\ here[a]
    /\ phase' = [phase EXCEPT ![a] = "ended"]
    /\ SignOut(dev[a])
    /\ screen' = [screen EXCEPT ![dev[a]] = "login"]
    /\ Left(dev[a])
    /\ GoesOn(dev[a], RunningOn(dev[a]) # {a})
    /\ UNCHANGED <<authVars, users, sessionVars, editVars, dev, name, checked, unseen, launches>>

-----------------------------------------------------------------------------
(* LoginVC and Utilities.getUserDetails *)

LoginBtn(d, u) ==
    /\ d \in Resident /\ u \in CanLogIn
    /\ screen[d] = "login" /\ login[d] = "no"
    /\ login' = [login EXCEPT ![d] = "sign-in"]
    /\ loginAs' = [loginAs EXCEPT ![d] = u]
    /\ GoesOn(d, RunningOn(d) # {})
    /\ UNCHANGED <<authVars, users, current, screen, asked, cached, editVars, regVars, launches>>

GetUserDetails(d, u, navigates) ==
    asked' = [asked EXCEPT ![d] = Append(@, [user |-> u, navigates |-> navigates])]

\* The user is signed in, and out again if the email address is not verified.
SignedIn(d) ==
    /\ login[d] = "sign-in" /\ loginAs[d] \in live
    /\ IF loginAs[d] \in verified
       THEN /\ current' = [current EXCEPT ![d] = loginAs[d]]
            /\ login' = [login EXCEPT ![d] = "details"]
            /\ GetUserDetails(d, loginAs[d], TRUE)
       ELSE /\ SignOut(d)
            /\ login' = [login EXCEPT ![d] = "no"]
            /\ UNCHANGED asked
    /\ loginAs' = [loginAs EXCEPT ![d] = None]
    /\ UNCHANGED <<authVars, users, screen, cached, editVars, regVars,
                   launches>>

SignInFails(d) ==
    /\ login[d] = "sign-in"
    /\ login' = [login EXCEPT ![d] = "no"]
    /\ loginAs' = [loginAs EXCEPT ![d] = None]
    /\ UNCHANGED <<authVars, users, current, screen, asked, cached, editVars,
                   regVars, launches>>

\* What the process keeps is gone; the requests it sent are not called off.
Dies(d) ==
    /\ phase' = [a \in Attempt |-> IF a \in RunningOn(d) THEN "ended" ELSE phase[a]]
    /\ Left(d)
    /\ login' = [login EXCEPT ![d] = "no"]
    /\ loginAs' = [loginAs EXCEPT ![d] = None]
    /\ cached' = [cached EXCEPT ![d] = None]
    /\ editing' = [editing EXCEPT ![d] = None]
    /\ saving' = [saving EXCEPT ![d] = {}]
    /\ deleting' = {[r EXCEPT !.by = IF @ = d THEN None ELSE @] : r \in deleting}
    /\ UNCHANGED <<live, verified, users, current, dev, name, checked, unseen>>

Crashes(d) ==
    /\ Dies(d)
    /\ asked' = [asked EXCEPT ![d] = <<>>]
    /\ screen' = [screen EXCEPT ![d] = "crashed"]
    /\ UNCHANGED launches

\* Seeded fault: SetUserInfo takes a user without fields.
DetailsArrive_Optional(d) ==
    /\ asked[d] # <<>>
    /\ asked' = [asked EXCEPT ![d] = Tail(@)]
    /\ cached' = [cached EXCEPT ![d] = Head(asked[d]).user]
    /\ IF Head(asked[d]).navigates
       THEN /\ screen' = [screen EXCEPT ![d] = "app"]
            /\ login' = [login EXCEPT ![d] = "no"]
            /\ Left(d)
       ELSE UNCHANGED <<screen, login, here>>
    /\ UNCHANGED <<authVars, users, current, loginAs, editVars,
                   phase, dev, name, checked, unseen, launches>>

\* Seeded fault: Cache keeps the details it has.
DetailsArrive_KeepCache(d) ==
    /\ asked[d] # <<>> /\ users[Head(asked[d]).user] # None
    /\ asked' = [asked EXCEPT ![d] = Tail(@)]
    /\ cached' = [cached EXCEPT ![d] = IF @ = None THEN Head(asked[d]).user ELSE @]
    /\ IF Head(asked[d]).navigates
       THEN /\ screen' = [screen EXCEPT ![d] = "app"]
            /\ login' = [login EXCEPT ![d] = "no"]
            /\ Left(d)
       ELSE UNCHANGED <<screen, login, here>>
    /\ UNCHANGED <<authVars, users, current, loginAs, editVars,
                   phase, dev, name, checked, unseen, launches>>

\* Cache.SetUserInfo, and the container screen in the place of all others.
DetailsArrive(d) ==
    /\ asked[d] # <<>> /\ users[Head(asked[d]).user] # None
    /\ asked' = [asked EXCEPT ![d] = Tail(@)]
    /\ cached' = [cached EXCEPT ![d] = Head(asked[d]).user]
    /\ IF Head(asked[d]).navigates
       THEN /\ screen' = [screen EXCEPT ![d] = "app"]
            /\ login' = [login EXCEPT ![d] = "no"]
            /\ Left(d)
       ELSE UNCHANGED <<screen, login, here>>
    /\ UNCHANGED <<authVars, users, current, loginAs, editVars,
                   phase, dev, name, checked, unseen, launches>>

\* SetUserInfo unwraps the fields of a user without any.
NoDetailsArrive(d) ==
    /\ asked[d] # <<>> /\ users[Head(asked[d]).user] = None
    /\ Crashes(d)

WillEnterForeground(d) ==
    /\ d \in Resident
    /\ screen[d] # "crashed" /\ current[d] # None /\ Len(asked[d]) < MaxAsked
    /\ GetUserDetails(d, current[d], FALSE)
    /\ UNCHANGED <<authVars, users, current, screen, login, loginAs, cached, editVars,
                   regVars, launches>>

\* The app is killed, or has crashed, and is launched.
Launch(d) ==
    /\ d \in Resident /\ launches < MaxLaunches
    /\ launches' = launches + 1
    /\ Dies(d)
    /\ asked' = [asked EXCEPT ![d] =
                    IF current[d] = None THEN <<>>
                    ELSE <<[user |-> current[d], navigates |-> TRUE]>>]
    /\ screen' = [screen EXCEPT ![d] = IF current[d] = None THEN "login" ELSE "blank"]

-----------------------------------------------------------------------------
(* Behind the login *)

\* A screen that opens takes its userInfo from Cache; EditProfileVC keeps it.
OpenEditProfile(d) ==
    /\ screen[d] = "app" /\ cached[d] # None
    /\ editing' = [editing EXCEPT ![d] = cached[d]]
    /\ UNCHANGED <<authVars, users, current, screen, sessionVars, saving, regVars,
                   launches>>

\* Cache.GetUserInfo()! of an empty Cache.
OpenScreenCrashes(d) ==
    /\ screen[d] = "app" /\ cached[d] = None
    /\ Crashes(d)

CloseEditProfile(d) ==
    /\ editing[d] # None
    /\ editing' = [editing EXCEPT ![d] = None]
    /\ UNCHANGED <<authVars, users, current, screen, sessionVars, saving, regVars,
                   launches>>

SaveBtnPressed(d) ==
    /\ editing[d] # None /\ editing[d] \notin saving[d]
    /\ saving' = [saving EXCEPT ![d] = @ \cup {editing[d]}]
    /\ UNCHANGED <<authVars, users, current, screen, sessionVars, editing, regVars,
                   launches>>

\* The image is stored and SetUserInfo called with the screen's userInfo, or an
\* error leaves everything as it was.
SaveEnds(d, u) ==
    /\ u \in saving[d]
    /\ saving' = [saving EXCEPT ![d] = @ \ {u}]
    /\ cached' \in {cached, [cached EXCEPT ![d] = u]}
    /\ UNCHANGED <<authVars, users, current, screen, login, loginAs, asked, editing,
                   regVars, launches>>

\* From the side menu, or after a password reset.
SignOutAndGoToLoginVC(d) ==
    /\ screen[d] = "app"
    /\ SignOut(d)
    /\ screen' = [screen EXCEPT ![d] = "login"]
    /\ editing' = [editing EXCEPT ![d] = None]
    /\ GoesOn(d, saving[d] # {})
    /\ UNCHANGED <<authVars, users, sessionVars, saving, regVars, launches>>

-----------------------------------------------------------------------------
(* Firebase and the system *)

\* A deleted user who is still signed in where that was asked is signed out.
Deleted(r) ==
    /\ r \in deleting
    /\ deleting' = deleting \ {r}
    /\ live' = live \ {r.user}
    /\ current' = [d \in Device |-> IF d = r.by /\ current[d] = r.user THEN None
                                    ELSE current[d]]
    /\ UNCHANGED <<verified, users, screen, sessionVars, editVars, regVars, launches>>

\* The link in a mail that was sent, or was said not to be.
EmailVerified(a) ==
    /\ phase[a] \in {"told", "ended"} /\ users[Account(a)] # None
    /\ verified' = verified \cup {Account(a)}
    /\ UNCHANGED <<live, deleting, users, current, screen, sessionVars, editVars, regVars,
                   launches>>

CacheEmptied(d) ==
    /\ cached' = [cached EXCEPT ![d] = None]
    /\ UNCHANGED <<authVars, users, current, screen, login, loginAs, asked, editVars,
                   regVars, launches>>

Registers(a) ==
    \/ SignedInAnonymously(a) \/ SignInAnonymouslyFails(a) \/ UsersRead(a)
    \/ CreateUser(a) \/ ProfileImageUploaded(a) \/ SendVerifcationEmail(a)
    \/ RegistrationFails(a)

OnDevice(d) ==
    \/ OpenRegister(d) \/ BackToLogin(d)
    \/ \E n \in Name :
        \/ UsernameTextFieldChanged(d, n)
        \/ \E a \in Attempt : RegisterBtnPressed(d, a, n)
    \/ \E u \in User : LoginBtn(d, u) \/ SaveEnds(d, u)
    \/ SignedIn(d) \/ SignInFails(d)
    \/ DetailsArrive(d) \/ NoDetailsArrive(d)
    \/ WillEnterForeground(d) \/ Launch(d)
    \/ OpenEditProfile(d) \/ OpenScreenCrashes(d) \/ CloseEditProfile(d)
    \/ SaveBtnPressed(d) \/ SignOutAndGoToLoginVC(d)
    \/ CacheEmptied(d)

Next ==
    \/ \E d \in Device : OnDevice(d)
    \/ \E a \in Attempt : Registers(a) \/ Ok(a) \/ EmailVerified(a)
    \/ \E r \in deleting : Deleted(r)

Spec == Init /\ [][Next]_vars

-----------------------------------------------------------------------------
ServerOK ==
    /\ live \subseteq CanLogIn /\ verified \subseteq CanLogIn
    /\ users \in [User -> Name \cup {None}]
    /\ deleting \subseteq [by : Device \cup {None}, user : CanLogIn]

SessionOK ==
    /\ current \in [Device -> User \cup {None}]
    /\ screen \in [Device -> {"blank", "login", "register", "app", "crashed"}]
    /\ login \in [Device -> {"no", "sign-in", "details"}]
    /\ loginAs \in [Device -> CanLogIn \cup {None}]
    /\ asked \in [Device -> Seq(Request)]
    /\ cached \in [Device -> User \cup {None}]
    /\ editing \in [Device -> User \cup {None}]
    /\ saving \in [Device -> SUBSET User]

AttemptsOK ==
    /\ phase \in [Attempt -> Phase]
    /\ dev \in [Attempt -> Device \cup {None}]
    /\ here \in [Attempt -> BOOLEAN]
    /\ name \in [Attempt -> Name \cup {None}]
    /\ checked \in [Attempt -> Name \cup {None}]
    /\ unseen \in [Attempt -> SUBSET Attempt]
    /\ \A a \in Attempt : phase[a] # "unused" => dev[a] # None /\ name[a] # None

(* Every variable has its type, an attempt has a device and a name.        *)
TypeOK ==
    /\ ServerOK /\ SessionOK /\ AttemptsOK
    /\ launches \in 0..MaxLaunches

(* Where the user waits for what is under way, a registration deletes no   *)
(* account, though it deletes whoever is signed in when the database       *)
(* answers (line 113); elsewhere accounts are lost.                        *)
PatientUsersAreSafe ==
    \A r \in deleting : r.by \in Hasty \cup {None}

(* Where the user waits, the screens behind the login have a user, and the *)
(* details in Cache, which they take theirs from, are that user's: through *)
(* launches, returns to the foreground, image uploads and a Cache emptied  *)
(* at any time, several accounts using the device in turn.                 *)
AppShowsItsUser ==
    \A d \in Device \ Hasty :
        screen[d] = "app" => current[d] # None /\ cached[d] \in {None, current[d]}

(* Cache never holds the details of a user who has none in the database:   *)
(* not those of an anonymous user, nor of an account half registered.      *)
CachedIsRegistered ==
    \A d \in Device : cached[d] # None => cached[d] \in Registered

(* Two registered accounts share a username only if neither check could    *)
(* see the other's username, both being under way at once, or the username *)
(* was typed over between its check and its use (line 139).                *)
KeptName(u) == \A a \in Attempt : u = Account(a) => users[u] = checked[a]

UsernamesDiffer ==
    \A u, v \in Registered : u # v /\ users[u] = users[v] =>
        \/ ~KeptName(u) \/ ~KeptName(v)
        \/ \E a, b \in Attempt : u = Account(a) /\ v = Account(b)
                                 /\ (a \in unseen[b] \/ b \in unseen[a])

(* "This deletes Anonymous User": and no other.                            *)
DeletesAnonymousUser == deleting = {}

=============================================================================
