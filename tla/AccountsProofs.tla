--------------------------- MODULE AccountsProofs ---------------------------
(* Proofs of Accounts' type invariant and of what patience is good for. *)
EXTENDS Accounts, SequenceTheorems, TLAPS

-----------------------------------------------------------------------------
(* The type invariant *)

LEMMA UserFacts ==
  /\ CanLogIn \subseteq User /\ Member \subseteq CanLogIn
  /\ None \notin User /\ None \notin Device /\ None \notin Name
  /\ \A a \in Attempt : Account(a) \in CanLogIn /\ Anonymous(a) \in User
  /\ MaxAsked \in Nat /\ MaxLaunches \in Nat
  BY AccountsAssumption DEF AccountsAssumption, User, CanLogIn

\* The types of the variables that differ from device to device and from attempt
\* to attempt.
LEMMA SessionTypes ==
  ASSUME TypeOK
  PROVE  /\ current \in [Device -> User \cup {None}]
         /\ screen \in [Device -> {"blank", "login", "register", "app", "crashed"}]
         /\ login \in [Device -> {"no", "sign-in", "details"}]
         /\ asked \in [Device -> Seq(Request)]
         /\ cached \in [Device -> User \cup {None}]
         /\ editing \in [Device -> User \cup {None}]
         /\ saving \in [Device -> SUBSET User]
  BY DEF TypeOK, SessionOK

LEMMA AttemptTypes ==
  ASSUME TypeOK
  PROVE  /\ phase \in [Attempt -> Phase]
         /\ dev \in [Attempt -> Device \cup {None}]
         /\ here \in [Attempt -> BOOLEAN]
         /\ \A a \in Attempt : phase[a] # "unused" => dev[a] # None
  BY DEF TypeOK, AttemptsOK

\* Calls of getUserDetails, asked and answered.
LEMMA RequestType ==
  /\ \A u \in User, b \in BOOLEAN : [user |-> u, navigates |-> b] \in Request
  /\ \A q \in Request : q.user \in User /\ q.navigates \in BOOLEAN
  BY Zenon DEF Request

LEMMA AskedType ==
  ASSUME SessionOK, NEW d \in Device, NEW u \in User, NEW b \in BOOLEAN,
         GetUserDetails(d, u, b)
  PROVE  asked' \in [Device -> Seq(Request)]
<1>1. asked[d] \in Seq(Request) /\ [user |-> u, navigates |-> b] \in Request
  BY RequestType DEF SessionOK
<1>2. Append(asked[d], [user |-> u, navigates |-> b]) \in Seq(Request)
  BY <1>1
<1> QED
  BY <1>2 DEF GetUserDetails, SessionOK

LEMMA AnswerType ==
  ASSUME SessionOK, NEW d \in Device, asked[d] # <<>>
  PROVE  /\ Head(asked[d]) \in Request /\ Head(asked[d]).user \in User
         /\ [asked EXCEPT ![d] = Tail(@)] \in [Device -> Seq(Request)]
<1>1. asked[d] \in Seq(Request)
  BY DEF SessionOK
<1>2. Head(asked[d]) \in Request /\ Tail(asked[d]) \in Seq(Request)
  BY <1>1
<1> QED
  BY <1>2, RequestType DEF SessionOK

LEMMA FirstAskedType ==
  ASSUME NEW u \in User
  PROVE  <<>> \in Seq(Request) /\ <<[user |-> u, navigates |-> TRUE]>> \in Seq(Request)
<1>1. [user |-> u, navigates |-> TRUE] \in Request
  BY RequestType
<1> QED
  BY <1>1

LEMMA LaunchType ==
  ASSUME launches \in 0..MaxLaunches, launches < MaxLaunches, launches' = launches + 1
  PROVE  launches' \in 0..MaxLaunches
  BY UserFacts

\* A screen that is left.
LEMMA LeftType ==
  ASSUME NEW d, Left(d) PROVE here' \in [Attempt -> BOOLEAN]
  BY DEF Left

\* A process that ends.
LEMMA DiesType ==
  ASSUME TypeOK, NEW d \in Device, Dies(d)
  PROVE  /\ ServerOK' /\ AttemptsOK'
         /\ login' \in [Device -> {"no", "sign-in", "details"}]
         /\ loginAs' \in [Device -> CanLogIn \cup {None}]
         /\ cached' \in [Device -> User \cup {None}]
         /\ editing' \in [Device -> User \cup {None}]
         /\ saving' \in [Device -> SUBSET User]
<1> USE DEF TypeOK
<1>1. ServerOK'
  <2>1. ASSUME NEW r \in deleting
        PROVE  [r EXCEPT !.by = IF @ = d THEN None ELSE @]
                  \in [by : Device \cup {None}, user : CanLogIn]
    BY DEF ServerOK
  <2> QED
    BY <2>1 DEF ServerOK, Dies
<1>2. AttemptsOK'
  <2>1. here' \in [Attempt -> BOOLEAN]
    BY LeftType DEF Dies
  <2>2. phase' \in [Attempt -> Phase]
    BY DEF Dies, AttemptsOK, Phase
  <2>3. ASSUME NEW a \in Attempt, phase'[a] # "unused" PROVE dev'[a] # None /\ name'[a] # None
    BY <2>3 DEF Dies, AttemptsOK, RunningOn, Running
  <2> QED
    BY <2>1, <2>2, <2>3 DEF Dies, AttemptsOK
<1>3. loginAs' \in [Device -> CanLogIn \cup {None}]
  BY DEF Dies, SessionOK
<1> QED
  BY <1>1, <1>2, <1>3 DEF Dies, SessionOK

LEMMA CrashType ==
  ASSUME TypeOK, NEW d \in Device, Crashes(d) PROVE TypeOK'
<1>1. Dies(d)
  BY DEF Crashes
<1>2. asked' \in [Device -> Seq(Request)]
  <2>1. <<>> \in Seq(Request)
    OBVIOUS
  <2> QED
    BY <2>1 DEF Crashes, TypeOK, SessionOK
<1>3. /\ current' \in [Device -> User \cup {None}]
      /\ screen' \in [Device -> {"blank", "login", "register", "app", "crashed"}]
  BY DEF Crashes, Dies, TypeOK, SessionOK
<1> QED
  BY <1>1, <1>2, <1>3, DiesType DEF Crashes, TypeOK, SessionOK

\* A deletion that is asked for.
LEMMA DeleteType ==
  ASSUME NEW d \in Device, DeleteCurrent(d),
         deleting \subseteq [by : Device \cup {None}, user : CanLogIn]
  PROVE  deleting' \subseteq [by : Device \cup {None}, user : CanLogIn]
<1>1. CASE current[d] \in CanLogIn
  <2>1. [by |-> d, user |-> current[d]] \in [by : Device \cup {None}, user : CanLogIn]
    BY <1>1
  <2> QED
    BY <1>1, <2>1 DEF DeleteCurrent
<1>2. CASE current[d] \notin CanLogIn
  BY <1>2 DEF DeleteCurrent
<1> QED
  BY <1>1, <1>2

\* An attempt that starts.
LEMMA PressType ==
  ASSUME TypeOK, NEW d \in Device, NEW a \in Attempt, NEW n \in Name,
         RegisterBtnPressed(d, a, n)
  PROVE  TypeOK'
<1>1. name' \in [Attempt -> Name \cup {None}] /\ name'[a] # None
  BY UserFacts DEF RegisterBtnPressed, Typed, TypeOK, AttemptsOK
<1>2. \A b \in Attempt : name[b] # None => name'[b] # None
  BY UserFacts DEF RegisterBtnPressed, Typed, TypeOK, AttemptsOK
<1>3. phase' \in [Attempt -> Phase] /\ dev' \in [Attempt -> Device \cup {None}]
  BY DEF RegisterBtnPressed, TypeOK, AttemptsOK, Phase
<1>4. here' \in [Attempt -> BOOLEAN]
  BY DEF RegisterBtnPressed, TypeOK, AttemptsOK
<1>5. ASSUME NEW b \in Attempt, phase'[b] # "unused" PROVE dev'[b] # None /\ name'[b] # None
  BY UserFacts, <1>1, <1>2, <1>5 DEF RegisterBtnPressed, TypeOK, AttemptsOK
<1>6. UNCHANGED <<authVars, users, current, screen, sessionVars, editVars, checked,
                  unseen, launches>>
  BY DEF RegisterBtnPressed
<1>7. ServerOK' /\ SessionOK'
  BY <1>6 DEF TypeOK, ServerOK, SessionOK, authVars, sessionVars, editVars
<1>8. launches' \in 0..MaxLaunches
  BY <1>6 DEF TypeOK
<1>9. AttemptsOK'
  BY <1>1, <1>3, <1>4, <1>5, <1>6 DEF TypeOK, AttemptsOK
<1> QED
  BY <1>7, <1>8, <1>9 DEF TypeOK

\* A login that starts.
LEMMA LoginType ==
  ASSUME TypeOK, NEW d \in Device, NEW u \in User, LoginBtn(d, u)
  PROVE  TypeOK'
<1>1. login' \in [Device -> {"no", "sign-in", "details"}]
  BY DEF LoginBtn, TypeOK, SessionOK
<1>2. loginAs' \in [Device -> CanLogIn \cup {None}]
  BY DEF LoginBtn, TypeOK, SessionOK
<1>3. UNCHANGED <<authVars, users, current, screen, asked, cached, editVars, regVars, launches>>
  BY DEF LoginBtn
<1>4. ServerOK' /\ AttemptsOK'
  BY <1>3 DEF TypeOK, ServerOK, AttemptsOK, authVars, regVars
<1>5. SessionOK'
  BY <1>1, <1>2, <1>3 DEF TypeOK, SessionOK, editVars
<1> QED
  BY <1>3, <1>4, <1>5 DEF TypeOK

(* Every step keeps every variable in its type. *)
LEMMA TypeStep == TypeOK /\ [Next]_vars => TypeOK'
<1> SUFFICES ASSUME TypeOK, [Next]_vars PROVE TypeOK'
  OBVIOUS
<1> USE UserFacts DEF TypeOK, ServerOK, SessionOK, AttemptsOK,
    authVars, sessionVars, editVars, regVars, Phase
<1>1. ASSUME NEW d \in Device, OpenRegister(d) PROVE TypeOK'
  BY <1>1 DEF OpenRegister, GoesOn
<1>2. ASSUME NEW d \in Device, BackToLogin(d) PROVE TypeOK'
  BY <1>2 DEF BackToLogin, Left, GoesOn
<1>3. ASSUME NEW d \in Device, NEW n \in Name, UsernameTextFieldChanged(d, n) PROVE TypeOK'
  BY <1>3 DEF UsernameTextFieldChanged, Typed, GoesOn
<1>4. ASSUME NEW d \in Device, NEW a \in Attempt, NEW n \in Name, RegisterBtnPressed(d, a, n) PROVE TypeOK'
  BY <1>4, PressType
<1>5. ASSUME NEW d \in Device, NEW u \in User, LoginBtn(d, u) PROVE TypeOK'
  BY <1>5, LoginType
<1>6. ASSUME NEW d \in Device, NEW u \in User, SaveEnds(d, u) PROVE TypeOK'
  <2>1. saving' \in [Device -> SUBSET User]
    BY <1>6 DEF SaveEnds
  <2>2. cached' \in [Device -> User \cup {None}]
    BY <1>6 DEF SaveEnds
  <2>3. UNCHANGED <<authVars, users, current, screen, login, loginAs, asked, editing,
                    regVars, launches>>
    BY <1>6 DEF SaveEnds
  <2> QED
    BY <2>1, <2>2, <2>3
<1>7. ASSUME NEW d \in Device, SignedIn(d) PROVE TypeOK'
  <2>1. loginAs[d] \in User
    BY <1>7 DEF SignedIn
  <2>2. asked' \in [Device -> Seq(Request)]
    <3>1. CASE loginAs[d] \in verified
      BY <1>7, <2>1, <3>1, AskedType DEF SignedIn
    <3>2. CASE loginAs[d] \notin verified
      BY <1>7, <3>2 DEF SignedIn
    <3> QED
      BY <3>1, <3>2
  <2>3. current' \in [Device -> User \cup {None}]
    BY <1>7, <2>1 DEF SignedIn, SignOut
  <2>4. login' \in [Device -> {"no", "sign-in", "details"}]
    <3>1. \E l \in {"no", "details"} : login' = [login EXCEPT ![d] = l]
      BY <1>7 DEF SignedIn
    <3> QED
      BY <3>1
  <2>5. loginAs' \in [Device -> CanLogIn \cup {None}]
    BY <1>7 DEF SignedIn
  <2> QED
    BY <1>7, <2>2, <2>3, <2>4, <2>5 DEF SignedIn
<1>8. ASSUME NEW d \in Device, SignInFails(d) PROVE TypeOK'
  <2>1. login' \in [Device -> {"no", "sign-in", "details"}]
    BY <1>8 DEF SignInFails
  <2>2. loginAs' \in [Device -> CanLogIn \cup {None}]
    BY <1>8 DEF SignInFails
  <2> QED
    BY <1>8, <2>1, <2>2 DEF SignInFails
<1>9. ASSUME NEW d \in Device, DetailsArrive(d) PROVE TypeOK'
  <2>1. Head(asked[d]).user \in User /\ asked' \in [Device -> Seq(Request)]
    BY <1>9, AnswerType DEF DetailsArrive
  <2>2. cached' \in [Device -> User \cup {None}]
    BY <1>9, <2>1 DEF DetailsArrive
  <2>3. here' \in [Attempt -> BOOLEAN]
    BY <1>9, LeftType DEF DetailsArrive
  <2>4. /\ screen' \in [Device -> {"blank", "login", "register", "app", "crashed"}]
        /\ login' \in [Device -> {"no", "sign-in", "details"}]
    <3>1. /\ screen' \in {screen, [screen EXCEPT ![d] = "app"]}
          /\ login' \in {login, [login EXCEPT ![d] = "no"]}
      BY <1>9 DEF DetailsArrive
    <3>2. /\ screen \in [Device -> {"blank", "login", "register", "app", "crashed"}]
          /\ login \in [Device -> {"no", "sign-in", "details"}]
      OBVIOUS
    <3> QED
      BY ONLY <3>1, <3>2
  <2> QED
    BY <1>9, <2>1, <2>2, <2>3, <2>4 DEF DetailsArrive
<1>10. ASSUME NEW d \in Device, NoDetailsArrive(d) PROVE TypeOK'
  BY <1>10, CrashType DEF NoDetailsArrive
<1>11. ASSUME NEW d \in Device, WillEnterForeground(d) PROVE TypeOK'
  <2>1. asked' \in [Device -> Seq(Request)]
    BY <1>11, AskedType DEF WillEnterForeground
  <2> QED
    BY <1>11, <2>1 DEF WillEnterForeground
<1>12. ASSUME NEW d \in Device, Launch(d) PROVE TypeOK'
  <2>1. asked' \in [Device -> Seq(Request)]
    <3>1. CASE current[d] = None
      <4>1. <<>> \in Seq(Request)
        BY ONLY FirstAskedType, EmptySeq
      <4> QED
        BY <1>12, <3>1, <4>1 DEF Launch
    <3>2. CASE current[d] # None
      <4>1. <<[user |-> current[d], navigates |-> TRUE]>> \in Seq(Request)
        <5>1. current[d] \in User
          <6>1. current \in [Device -> User \cup {None}]
            OBVIOUS
          <6> QED
            BY ONLY <3>2, <6>1, d \in Device
        <5> QED
          BY ONLY <5>1, FirstAskedType
      <4> QED
        BY <1>12, <3>2, <4>1 DEF Launch
    <3> QED
      BY <3>1, <3>2
  <2>2. /\ current' \in [Device -> User \cup {None}]
        /\ screen' \in [Device -> {"blank", "login", "register", "app", "crashed"}]
    BY <1>12 DEF Launch, Dies
  <2>3. launches' \in 0..MaxLaunches
    BY <1>12, LaunchType DEF Launch
  <2> QED
    BY <1>12, <2>1, <2>2, <2>3, DiesType DEF Launch
<1>13. ASSUME NEW d \in Device, OpenEditProfile(d) PROVE TypeOK'
  BY <1>13 DEF OpenEditProfile
<1>14. ASSUME NEW d \in Device, OpenScreenCrashes(d) PROVE TypeOK'
  BY <1>14, CrashType DEF OpenScreenCrashes
<1>15. ASSUME NEW d \in Device, CloseEditProfile(d) PROVE TypeOK'
  BY <1>15 DEF CloseEditProfile
<1>16. ASSUME NEW d \in Device, SaveBtnPressed(d) PROVE TypeOK'
  <2>1. saving' \in [Device -> SUBSET User]
    <3>1. /\ saving' = [saving EXCEPT ![d] = saving[d] \cup {editing[d]}]
          /\ editing[d] # None
      BY <1>16 DEF SaveBtnPressed
    <3>2. saving \in [Device -> SUBSET User] /\ editing \in [Device -> User \cup {None}]
      OBVIOUS
    <3> QED
      BY ONLY <3>1, <3>2, d \in Device
  <2>2. UNCHANGED <<authVars, users, current, screen, sessionVars, editing, regVars, launches>>
    BY <1>16 DEF SaveBtnPressed
  <2> QED
    BY <2>1, <2>2
<1>17. ASSUME NEW d \in Device, SignOutAndGoToLoginVC(d) PROVE TypeOK'
  BY <1>17 DEF SignOutAndGoToLoginVC, SignOut, GoesOn
<1>18. ASSUME NEW d \in Device, CacheEmptied(d) PROVE TypeOK'
  BY <1>18 DEF CacheEmptied
<1>19. ASSUME NEW a \in Attempt, SignedInAnonymously(a) PROVE TypeOK'
  BY <1>19 DEF SignedInAnonymously
<1>20. ASSUME NEW a \in Attempt, SignInAnonymouslyFails(a) PROVE TypeOK'
  BY <1>20 DEF SignInAnonymouslyFails
<1>21. ASSUME NEW a \in Attempt, UsersRead(a) PROVE TypeOK'
  <2>1. ServerOK'
    <3>1. dev[a] \in Device
      BY <1>21 DEF UsersRead
    <3>2. deleting' = deleting \/ DeleteCurrent(dev[a])
      BY <1>21 DEF UsersRead
    <3>3. deleting' \subseteq [by : Device \cup {None}, user : CanLogIn]
      BY <3>1, <3>2, DeleteType
    <3>4. UNCHANGED <<live, verified, users>>
      BY <1>21 DEF UsersRead
    <3> QED
      BY <3>3, <3>4
  <2>2. SessionOK'
    BY <1>21 DEF UsersRead, SignOut
  <2>3. phase' \in [Attempt -> Phase] /\ checked' \in [Attempt -> Name \cup {None}]
    BY <1>21 DEF UsersRead
  <2>4. unseen' \in [Attempt -> SUBSET Attempt]
    <3>1. Passed \in SUBSET Attempt /\ {} \in SUBSET Attempt
      BY DEF Passed
    <3> QED
      BY <1>21, <3>1 DEF UsersRead
  <2>5. ASSUME NEW b \in Attempt, phase'[b] # "unused" PROVE dev'[b] # None /\ name'[b] # None
    BY <1>21, <2>5 DEF UsersRead
  <2> QED
    BY <1>21, <2>1, <2>2, <2>3, <2>4, <2>5 DEF UsersRead
<1>22. ASSUME NEW a \in Attempt, CreateUser(a) PROVE TypeOK'
  <2>1. live' \subseteq CanLogIn
    <3>1. live' = live \cup {Account(a)}
      BY <1>22 DEF CreateUser
    <3>2. live \subseteq CanLogIn /\ Account(a) \in CanLogIn
      OBVIOUS
    <3> QED
      BY ONLY <3>1, <3>2
  <2>2. users' \in [User -> Name \cup {None}]
    BY <1>22 DEF CreateUser, AddUserInfoToDatabase
  <2>3. current' \in [Device -> User \cup {None}]
    BY <1>22 DEF CreateUser
  <2>4. /\ phase' \in [Attempt -> Phase]
        /\ \A b \in Attempt : phase'[b] # "unused" => phase[b] # "unused"
    <3>1. /\ phase' \in {[phase EXCEPT ![a] = "mailing"], [phase EXCEPT ![a] = "uploading"]}
          /\ phase[a] # "unused"
      BY <1>22 DEF CreateUser, AddUserInfoToDatabase
    <3> QED
      BY ONLY <3>1, AttemptTypes, TypeOK, a \in Attempt DEF Phase
  <2>5. UNCHANGED <<verified, deleting, screen, sessionVars, editVars, dev, here, name,
                    checked, unseen, launches>>
    BY <1>22 DEF CreateUser
  <2> QED
    BY <2>1, <2>2, <2>3, <2>4, <2>5
<1>23. ASSUME NEW a \in Attempt, ProfileImageUploaded(a) PROVE TypeOK'
  BY <1>23 DEF ProfileImageUploaded, AddUserInfoToDatabase
<1>24. ASSUME NEW a \in Attempt, SendVerifcationEmail(a) PROVE TypeOK'
  BY <1>24 DEF SendVerifcationEmail
<1>25. ASSUME NEW a \in Attempt, RegistrationFails(a) PROVE TypeOK'
  BY <1>25 DEF RegistrationFails
<1>26. ASSUME NEW a \in Attempt, Ok(a) PROVE TypeOK'
  BY <1>26 DEF Ok, SignOut, Left, GoesOn
<1>27. ASSUME NEW a \in Attempt, EmailVerified(a) PROVE TypeOK'
  BY <1>27 DEF EmailVerified
<1>28. ASSUME NEW r \in deleting, Deleted(r) PROVE TypeOK'
  <2>1. ServerOK'
    BY <1>28 DEF Deleted
  <2>2. current' \in [Device -> User \cup {None}]
    BY <1>28 DEF Deleted
  <2> QED
    BY <1>28, <2>1, <2>2 DEF Deleted
<1>29. CASE UNCHANGED vars
  BY <1>29 DEF vars
<1> HIDE DEF TypeOK, ServerOK, SessionOK, AttemptsOK, authVars, sessionVars, editVars, regVars, Phase
<1> QED
  BY <1>1, <1>2, <1>3, <1>4, <1>5, <1>6, <1>7, <1>8, <1>9, <1>10, <1>11, <1>12, <1>13, <1>14, <1>15, <1>16, <1>17, <1>18, <1>19, <1>20, <1>21, <1>22, <1>23, <1>24, <1>25, <1>26, <1>27, <1>28, <1>29 DEF Next, OnDevice, Registers

LEMMA TypeInit == Init => TypeOK
<1> SUFFICES ASSUME Init PROVE TypeOK
  OBVIOUS
<1>1. ServerOK
  <2>1. users \in [User -> Name \cup {None}]
    BY AccountsAssumption DEF Init, AccountsAssumption
  <2> QED
    BY UserFacts, <2>1 DEF Init, ServerOK
<1>2. asked \in [Device -> Seq(Request)]
  <2>1. <<>> \in Seq(Request)
    BY ONLY EmptySeq
  <2> QED
    BY <2>1 DEF Init
<1>3. SessionOK
  BY <1>2 DEF Init, SessionOK
<1>4. AttemptsOK
  BY DEF Init, AttemptsOK, Phase
<1> QED
  BY UserFacts, <1>1, <1>3, <1>4 DEF Init, TypeOK

(* Every variable of Accounts keeps its type. *)
THEOREM AccountTypes == Spec => []TypeOK
<1> QED
  BY TypeInit, TypeStep, PTL DEF Spec

-----------------------------------------------------------------------------
(***************************************************************************)
(* What patience is good for.  While a registration of a patient user is   *)
(* under way RegisterVC stays in front, so no other registration and no    *)
(* login starts on the device, and the user that the database's answer     *)
(* finds signed in is the anonymous one.  While a login or a launch waits  *)
(* for its details, nobody else signs in; the request that opens the       *)
(* container screen is the only one of its kind, and later requests are    *)
(* for the same user.                                                      *)
(***************************************************************************)
RegisterWaits(d) ==
    /\ \A a \in RunningOn(d) : here[a] /\ screen[d] = "register"
    /\ \A a, b \in RunningOn(d) : a = b
    /\ \A a \in RunningOn(d) : phase[a] = "reading" => IsAnonymous(current[d])

LoginWaits(d) ==
    /\ login[d] # "no" => screen[d] = "login"
    /\ login[d] = "details" \/ screen[d] = "blank" => current[d] # None
    /\ \A i \in 1..Len(asked[d]) : asked[d][i].navigates =>
        /\ login[d] = "details" \/ screen[d] = "blank"
        /\ \A j \in 1..Len(asked[d]) :
            /\ asked[d][j].navigates => i = j
            /\ i <= j => asked[d][j].user = current[d]

AppWaits(d) ==
    /\ screen[d] = "app" =>
        /\ current[d] # None
        /\ cached[d] \in {None, current[d]} /\ editing[d] \in {None, current[d]}
        /\ saving[d] \subseteq {current[d]}
        /\ \A i \in 1..Len(asked[d]) : asked[d][i].user = current[d]
    /\ screen[d] # "app" => saving[d] = {} /\ editing[d] = None

Waits(d) == RegisterWaits(d) /\ LoginWaits(d) /\ AppWaits(d)

Patience == TypeOK /\ PatientUsersAreSafe /\ \A d \in Device \ Hasty : Waits(d)

\* A step that d does not notice.
SameSession(d) ==
    UNCHANGED <<screen[d], current[d], login[d], asked[d], cached[d], editing[d], saving[d]>>
SameAttempts(d) ==
    \A a \in Attempt : dev'[a] = d /\ phase'[a] \in Running =>
        dev[a] = d /\ UNCHANGED <<phase[a], here[a]>>

Same(d) == SameSession(d) /\ SameAttempts(d)

LEMMA RegisterFrame ==
  ASSUME NEW d, RegisterWaits(d), SameAttempts(d), UNCHANGED <<screen[d], current[d]>>
  PROVE  RegisterWaits(d)'
  BY DEF RegisterWaits, SameAttempts, RunningOn

LEMMA LoginFrame ==
  ASSUME NEW d, LoginWaits(d), UNCHANGED <<screen[d], current[d], login[d], asked[d]>>
  PROVE  LoginWaits(d)'
  BY DEF LoginWaits

LEMMA AppFrame ==
  ASSUME NEW d, AppWaits(d),
         UNCHANGED <<screen[d], current[d], asked[d], cached[d], editing[d], saving[d]>>
  PROVE  AppWaits(d)'
  BY DEF AppWaits

LEMMA Unnoticed ==
  ASSUME NEW d, Waits(d), Same(d)
  PROVE  Waits(d)'
  BY RegisterFrame, LoginFrame, AppFrame DEF Waits, Same, SameSession

\* What happens on another device does not concern d.
LEMMA DeviceElsewhere ==
  ASSUME TypeOK, NEW d \in Device, NEW e \in Device \ {d}, OnDevice(e)
  PROVE  Same(d)
<1>1. CASE OpenRegister(e)
  <2>1. SameSession(d)
    BY <1>1, SessionTypes DEF OpenRegister, GoesOn, SameSession, authVars, sessionVars, editVars
  <2>2. SameAttempts(d)
    BY <1>1, AttemptTypes DEF OpenRegister, GoesOn, SameAttempts, Running, Phase, regVars
  <2> QED
    BY <2>1, <2>2 DEF Same
<1>2. CASE BackToLogin(e)
  <2>1. SameSession(d)
    BY <1>2, SessionTypes DEF BackToLogin, Left, GoesOn, SameSession, authVars, sessionVars, editVars
  <2>2. SameAttempts(d)
    BY <1>2, AttemptTypes DEF BackToLogin, Left, GoesOn, SameAttempts, Running, Phase, regVars
  <2> QED
    BY <2>1, <2>2 DEF Same
<1>3. ASSUME NEW n \in Name, UsernameTextFieldChanged(e, n) PROVE Same(d)
  <2>1. SameSession(d)
    BY <1>3, SessionTypes DEF UsernameTextFieldChanged, GoesOn, SameSession, authVars, sessionVars, editVars
  <2>2. SameAttempts(d)
    BY <1>3, AttemptTypes DEF UsernameTextFieldChanged, GoesOn, SameAttempts, Running, Phase, regVars
  <2> QED
    BY <2>1, <2>2 DEF Same
<1>4. ASSUME NEW a \in Attempt, NEW n \in Name, RegisterBtnPressed(e, a, n) PROVE Same(d)
  <2>1. SameSession(d)
    BY <1>4, SessionTypes DEF RegisterBtnPressed, GoesOn, SameSession, authVars, sessionVars, editVars
  <2>2. SameAttempts(d)
    BY <1>4, AttemptTypes DEF RegisterBtnPressed, GoesOn, SameAttempts, Running, Phase, regVars
  <2> QED
    BY <2>1, <2>2 DEF Same
<1>5. ASSUME NEW u \in User, LoginBtn(e, u) PROVE Same(d)
  <2>1. SameSession(d)
    BY <1>5, SessionTypes DEF LoginBtn, GoesOn, SameSession, authVars, sessionVars, editVars
  <2>2. SameAttempts(d)
    BY <1>5, AttemptTypes DEF LoginBtn, GoesOn, SameAttempts, Running, Phase, regVars
  <2> QED
    BY <2>1, <2>2 DEF Same
<1>6. ASSUME NEW u \in User, SaveEnds(e, u) PROVE Same(d)
  <2>1. SameSession(d)
    BY <1>6, SessionTypes DEF SaveEnds, SameSession, authVars, sessionVars, editVars
  <2>2. SameAttempts(d)
    BY <1>6, AttemptTypes DEF SaveEnds, SameAttempts, Running, Phase, regVars
  <2> QED
    BY <2>1, <2>2 DEF Same
<1>7. CASE SignedIn(e)
  <2>1. SameSession(d)
    BY <1>7, SessionTypes DEF SignedIn, SignOut, GetUserDetails, SameSession, authVars, sessionVars, editVars
  <2>2. SameAttempts(d)
    BY <1>7, AttemptTypes DEF SignedIn, SignOut, GetUserDetails, SameAttempts, Running, Phase, regVars
  <2> QED
    BY <2>1, <2>2 DEF Same
<1>8. CASE SignInFails(e)
  <2>1. SameSession(d)
    BY <1>8, SessionTypes DEF SignInFails, SameSession, authVars, sessionVars, editVars
  <2>2. SameAttempts(d)
    BY <1>8, AttemptTypes DEF SignInFails, SameAttempts, Running, Phase, regVars
  <2> QED
    BY <2>1, <2>2 DEF Same
<1>9. CASE DetailsArrive(e)
  <2>1. SameSession(d)
    BY <1>9, SessionTypes DEF DetailsArrive, SameSession, authVars, sessionVars, editVars
  <2>2. SameAttempts(d)
    <3>1. \A a \in Attempt : dev[a] = d => here'[a] = here[a]
      <4>1. here' = here \/ Left(e)
        BY <1>9 DEF DetailsArrive
      <4> QED
        BY <4>1, AttemptTypes DEF Left
    <3> QED
      BY <1>9, <3>1, AttemptTypes DEF DetailsArrive, SameAttempts, Running, Phase
  <2> QED
    BY <2>1, <2>2 DEF Same
<1>10. CASE NoDetailsArrive(e)
  <2>1. SameSession(d)
    BY <1>10, SessionTypes DEF NoDetailsArrive, Crashes, Dies, Left, SameSession, authVars, sessionVars, editVars
  <2>2. SameAttempts(d)
    BY <1>10, AttemptTypes DEF NoDetailsArrive, Crashes, Dies, Left, SameAttempts, Running, Phase, regVars
  <2> QED
    BY <2>1, <2>2 DEF Same
<1>11. CASE WillEnterForeground(e)
  <2>1. SameSession(d)
    BY <1>11, SessionTypes DEF WillEnterForeground, GetUserDetails, SameSession, authVars, sessionVars, editVars
  <2>2. SameAttempts(d)
    BY <1>11, AttemptTypes DEF WillEnterForeground, GetUserDetails, SameAttempts, Running, Phase, regVars
  <2> QED
    BY <2>1, <2>2 DEF Same
<1>12. CASE Launch(e)
  <2>1. SameSession(d)
    BY <1>12, SessionTypes DEF Launch, Dies, Left, SameSession, authVars, sessionVars, editVars
  <2>2. SameAttempts(d)
    BY <1>12, AttemptTypes DEF Launch, Dies, Left, SameAttempts, Running, Phase, regVars
  <2> QED
    BY <2>1, <2>2 DEF Same
<1>13. CASE OpenEditProfile(e)
  <2>1. SameSession(d)
    BY <1>13, SessionTypes DEF OpenEditProfile, SameSession, authVars, sessionVars, editVars
  <2>2. SameAttempts(d)
    BY <1>13, AttemptTypes DEF OpenEditProfile, SameAttempts, Running, Phase, regVars
  <2> QED
    BY <2>1, <2>2 DEF Same
<1>14. CASE OpenScreenCrashes(e)
  <2>1. SameSession(d)
    BY <1>14, SessionTypes DEF OpenScreenCrashes, Crashes, Dies, Left, SameSession, authVars, sessionVars, editVars
  <2>2. SameAttempts(d)
    BY <1>14, AttemptTypes DEF OpenScreenCrashes, Crashes, Dies, Left, SameAttempts, Running, Phase, regVars
  <2> QED
    BY <2>1, <2>2 DEF Same
<1>15. CASE CloseEditProfile(e)
  <2>1. SameSession(d)
    BY <1>15, SessionTypes DEF CloseEditProfile, SameSession, authVars, sessionVars, editVars
  <2>2. SameAttempts(d)
    BY <1>15, AttemptTypes DEF CloseEditProfile, SameAttempts, Running, Phase, regVars
  <2> QED
    BY <2>1, <2>2 DEF Same
<1>16. CASE SaveBtnPressed(e)
  <2>1. SameSession(d)
    BY <1>16, SessionTypes DEF SaveBtnPressed, SameSession, authVars, sessionVars, editVars
  <2>2. SameAttempts(d)
    BY <1>16, AttemptTypes DEF SaveBtnPressed, SameAttempts, Running, Phase, regVars
  <2> QED
    BY <2>1, <2>2 DEF Same
<1>17. CASE SignOutAndGoToLoginVC(e)
  <2>1. SameSession(d)
    BY <1>17, SessionTypes DEF SignOutAndGoToLoginVC, SignOut, GoesOn, SameSession, authVars, sessionVars, editVars
  <2>2. SameAttempts(d)
    BY <1>17, AttemptTypes DEF SignOutAndGoToLoginVC, SignOut, GoesOn, SameAttempts, Running, Phase, regVars
  <2> QED
    BY <2>1, <2>2 DEF Same
<1>18. CASE CacheEmptied(e)
  <2>1. SameSession(d)
    BY <1>18, SessionTypes DEF CacheEmptied, SameSession, authVars, sessionVars, editVars
  <2>2. SameAttempts(d)
    BY <1>18, AttemptTypes DEF CacheEmptied, SameAttempts, Running, Phase, regVars
  <2> QED
    BY <2>1, <2>2 DEF Same
<1> QED
  BY <1>1, <1>2, <1>3, <1>4, <1>5, <1>6, <1>7, <1>8, <1>9, <1>10, <1>11, <1>12, <1>13, <1>14, <1>15, <1>16, <1>17, <1>18 DEF OnDevice

LEMMA AttemptElsewhere ==
  ASSUME TypeOK, NEW d \in Device, NEW a \in Attempt, dev[a] # d,
         Registers(a) \/ Ok(a) \/ EmailVerified(a)
  PROVE  Same(d)
<1>1. CASE SignedInAnonymously(a)
  <2>1. SameSession(d)
    BY <1>1, SessionTypes DEF SignedInAnonymously, SameSession, authVars, sessionVars, editVars
  <2>2. SameAttempts(d)
    BY <1>1, AttemptTypes DEF SignedInAnonymously, SameAttempts, Running, Phase, regVars
  <2> QED
    BY <2>1, <2>2 DEF Same
<1>2. CASE SignInAnonymouslyFails(a)
  <2>1. SameSession(d)
    BY <1>2, SessionTypes DEF SignInAnonymouslyFails, SameSession, authVars, sessionVars, editVars
  <2>2. SameAttempts(d)
    BY <1>2, AttemptTypes DEF SignInAnonymouslyFails, SameAttempts, Running, Phase, regVars
  <2> QED
    BY <2>1, <2>2 DEF Same
<1>3. CASE UsersRead(a)
  <2>1. SameSession(d)
    BY <1>3, SessionTypes DEF UsersRead, SignOut, SameSession, authVars, sessionVars, editVars
  <2>2. SameAttempts(d)
    BY <1>3, AttemptTypes DEF UsersRead, SignOut, SameAttempts, Running, Phase, regVars
  <2> QED
    BY <2>1, <2>2 DEF Same
<1>4. CASE CreateUser(a)
  <2>1. SameSession(d)
    BY <1>4, SessionTypes DEF CreateUser, AddUserInfoToDatabase, SameSession, authVars, sessionVars, editVars
  <2>2. SameAttempts(d)
    BY <1>4, AttemptTypes DEF CreateUser, AddUserInfoToDatabase, SameAttempts, Running, Phase, regVars
  <2> QED
    BY <2>1, <2>2 DEF Same
<1>5. CASE ProfileImageUploaded(a)
  <2>1. SameSession(d)
    BY <1>5, SessionTypes DEF ProfileImageUploaded, AddUserInfoToDatabase, SameSession, authVars, sessionVars, editVars
  <2>2. SameAttempts(d)
    BY <1>5, AttemptTypes DEF ProfileImageUploaded, AddUserInfoToDatabase, SameAttempts, Running, Phase, regVars
  <2> QED
    BY <2>1, <2>2 DEF Same
<1>6. CASE SendVerifcationEmail(a)
  <2>1. SameSession(d)
    BY <1>6, SessionTypes DEF SendVerifcationEmail, SameSession, authVars, sessionVars, editVars
  <2>2. SameAttempts(d)
    BY <1>6, AttemptTypes DEF SendVerifcationEmail, SameAttempts, Running, Phase, regVars
  <2> QED
    BY <2>1, <2>2 DEF Same
<1>7. CASE RegistrationFails(a)
  <2>1. SameSession(d)
    BY <1>7, SessionTypes DEF RegistrationFails, SameSession, authVars, sessionVars, editVars
  <2>2. SameAttempts(d)
    BY <1>7, AttemptTypes DEF RegistrationFails, SameAttempts, Running, Phase, regVars
  <2> QED
    BY <2>1, <2>2 DEF Same
<1>8. CASE Ok(a)
  <2>1. SameSession(d)
    BY <1>8, SessionTypes DEF Ok, SignOut, GoesOn, Left, SameSession, authVars, sessionVars, editVars
  <2>2. SameAttempts(d)
    BY <1>8, AttemptTypes DEF Ok, SignOut, GoesOn, Left, SameAttempts, Running, Phase, regVars
  <2> QED
    BY <2>1, <2>2 DEF Same
<1>9. CASE EmailVerified(a)
  <2>1. SameSession(d)
    BY <1>9, SessionTypes DEF EmailVerified, SameSession, authVars, sessionVars, editVars
  <2>2. SameAttempts(d)
    BY <1>9, AttemptTypes DEF EmailVerified, SameAttempts, Running, Phase, regVars
  <2> QED
    BY <2>1, <2>2 DEF Same
<1> QED
  BY <1>1, <1>2, <1>3, <1>4, <1>5, <1>6, <1>7, <1>8, <1>9 DEF Registers

LEMMA DeletedElsewhere ==
  ASSUME TypeOK, NEW d \in Device, NEW r \in deleting, r.by # d, Deleted(r)
  PROVE  Same(d)
<1>1. SameSession(d)
  BY SessionTypes DEF Deleted, SameSession, authVars, sessionVars, editVars
<1>2. SameAttempts(d)
  BY AttemptTypes DEF Deleted, SameAttempts, regVars
<1> QED
  BY <1>1, <1>2 DEF Same

\* There is one attempt at a time, and its screen is in front.
LEMMA OneRuns ==
  ASSUME NEW d, RegisterWaits(d), NEW a \in RunningOn(d)
  PROVE  RunningOn(d) = {a} /\ here[a] /\ screen[d] = "register"
<1>1. \A b \in RunningOn(d) : b = a
  BY DEF RegisterWaits
<1>2. here[a] /\ screen[d] = "register"
  BY DEF RegisterWaits
<1> QED
  BY ONLY <1>1, <1>2, a \in RunningOn(d)

\* The attempt that is under way, if any, decides about RegisterWaits.
LEMMA OneRegisters ==
  ASSUME NEW d, NEW a, RunningOn(d)' \subseteq {a},
         a \in RunningOn(d)' =>
            /\ here'[a] /\ screen'[d] = "register"
            /\ phase'[a] = "reading" => IsAnonymous(current'[d])
  PROVE  RegisterWaits(d)'
  BY DEF RegisterWaits

\* What is added at the end of asked, and what is taken from its front.
LEMMA AppendFacts ==
  ASSUME NEW s \in Seq(Request), NEW q \in Request
  PROVE  /\ Len(Append(s, q)) = Len(s) + 1 /\ Append(s, q)[Len(s) + 1] = q
         /\ \A i \in 1..Len(s) : Append(s, q)[i] = s[i]
  OBVIOUS

LEMMA TailFacts ==
  ASSUME NEW s \in Seq(Request), s # <<>>
  PROVE  /\ Head(s) = s[1] /\ 1 \in 1..Len(s) /\ Len(Tail(s)) = Len(s) - 1
         /\ \A i \in 1..Len(Tail(s)) :
               i + 1 \in 1..Len(s) /\ Tail(s)[i] = s[i + 1]
  OBVIOUS

\* A request when the app comes back to the foreground, for whoever is signed in.
LEMMA ForegroundAsks ==
  ASSUME TypeOK, NEW d \in Device, LoginWaits(d), AppWaits(d), WillEnterForeground(d)
  PROVE  LoginWaits(d)' /\ AppWaits(d)'
<1> DEFINE q == [user |-> current[d], navigates |-> FALSE]
<1>1. asked[d] \in Seq(Request) /\ q \in Request
  BY SessionTypes, RequestType DEF WillEnterForeground
<1>2. asked'[d] = Append(asked[d], q) /\ q.user = current[d] /\ q.navigates = FALSE
  BY SessionTypes DEF WillEnterForeground, GetUserDetails
<1>3. UNCHANGED <<screen[d], login[d], current[d], cached[d], editing[d], saving[d]>>
  BY DEF WillEnterForeground, editVars
<1> HIDE DEF q
<1>4. /\ Len(asked'[d]) = Len(asked[d]) + 1 /\ Len(asked[d]) \in Nat
      /\ asked'[d][Len(asked[d]) + 1] = q
      /\ \A i \in 1..Len(asked[d]) : asked'[d][i] = asked[d][i]
  BY <1>1, <1>2, AppendFacts
<1>5. LoginWaits(d)'
  BY <1>2, <1>3, <1>4 DEF LoginWaits
<1>6. AppWaits(d)'
  BY <1>2, <1>3, <1>4 DEF AppWaits
<1> QED
  BY <1>5, <1>6

\* A login that is answered: no request that opens the container screen is
\* under way yet.
LEMMA LoginAsks ==
  ASSUME TypeOK, NEW d \in Device, LoginWaits(d), SignedIn(d)
  PROVE  LoginWaits(d)'
<1>1. screen[d] = "login" /\ screen'[d] = "login" /\ login[d] = "sign-in"
  BY DEF SignedIn, LoginWaits
<1>2. \A i \in 1..Len(asked[d]) : ~asked[d][i].navigates
  BY <1>1 DEF LoginWaits
<1>3. CASE loginAs[d] \notin verified
  <2>1. login'[d] = "no" /\ asked'[d] = asked[d]
    BY <1>3, SessionTypes DEF SignedIn
  <2> QED
    BY <1>1, <1>2, <2>1 DEF LoginWaits
<1>4. CASE loginAs[d] \in verified
  <2> DEFINE q == [user |-> loginAs[d], navigates |-> TRUE]
  <2>1. loginAs[d] \in User /\ loginAs[d] # None
    BY <1>4, UserFacts DEF TypeOK, ServerOK
  <2>2. asked[d] \in Seq(Request) /\ q \in Request
    BY <2>1, SessionTypes, RequestType
  <2>3. /\ asked'[d] = Append(asked[d], q) /\ q.user = loginAs[d]
        /\ login'[d] = "details" /\ current'[d] = loginAs[d]
    BY <1>4, SessionTypes DEF SignedIn, GetUserDetails
  <2> HIDE DEF q
  <2>4. /\ Len(asked'[d]) = Len(asked[d]) + 1 /\ Len(asked[d]) \in Nat
        /\ asked'[d][Len(asked[d]) + 1] = q
        /\ \A i \in 1..Len(asked[d]) : asked'[d][i] = asked[d][i]
    BY <2>2, <2>3, AppendFacts
  <2> QED
    BY <1>1, <1>2, <2>1, <2>3, <2>4 DEF LoginWaits
<1> QED
  BY <1>3, <1>4

\* The first request is answered: if it opens the container screen, no other
\* does, and all that follow are for the user who is signed in.
LEMMA Answered ==
  ASSUME TypeOK, NEW d \in Device, LoginWaits(d), AppWaits(d), DetailsArrive(d)
  PROVE  /\ LoginWaits(d)' /\ AppWaits(d)'
         /\ Head(asked[d]).navigates => screen[d] \in {"login", "blank"}
<1>1. asked[d] \in Seq(Request) /\ asked[d] # <<>> /\ asked'[d] = Tail(asked[d])
  BY SessionTypes DEF DetailsArrive
<1>2. /\ Head(asked[d]) = asked[d][1] /\ 1 \in 1..Len(asked[d])
      /\ Len(asked[d]) \in Nat /\ Len(asked'[d]) = Len(asked[d]) - 1
      /\ \A i \in 1..Len(asked'[d]) :
            i + 1 \in 1..Len(asked[d]) /\ asked'[d][i] = asked[d][i + 1]
  BY <1>1, TailFacts
<1>3. /\ UNCHANGED <<current[d], editing[d], saving[d]>>
      /\ cached'[d] = asked[d][1].user
  BY <1>2, SessionTypes DEF DetailsArrive, editVars
<1>4. CASE asked[d][1].navigates
  <2>1. screen'[d] = "app" /\ login'[d] = "no"
    BY <1>2, <1>4, SessionTypes DEF DetailsArrive
  <2>2. /\ login[d] = "details" \/ screen[d] = "blank"
        /\ \A j \in 1..Len(asked[d]) :
             (asked[d][j].navigates => 1 = j) /\ asked[d][j].user = current[d]
    BY <1>2, <1>4 DEF LoginWaits
  <2>3. screen[d] \in {"login", "blank"} /\ current[d] # None
    BY <2>2 DEF LoginWaits
  <2>4. \A i \in 1..Len(asked'[d]) : ~asked'[d][i].navigates /\ asked'[d][i].user = current[d]
    <3>1. TAKE i \in 1..Len(asked'[d])
    <3>2. i + 1 \in 1..Len(asked[d]) /\ asked'[d][i] = asked[d][i + 1] /\ i + 1 # 1
      BY <1>2
    <3> QED
      BY <2>2, <3>2
  <2>5. LoginWaits(d)'
    BY <2>1, <2>4 DEF LoginWaits
  <2>6. saving[d] = {} /\ editing[d] = None
    BY <2>3 DEF AppWaits
  <2>7. AppWaits(d)'
    BY <1>2, <1>3, <2>1, <2>2, <2>3, <2>4, <2>6 DEF AppWaits
  <2> QED
    BY <2>3, <2>5, <2>7
<1>5. CASE ~asked[d][1].navigates
  <2>1. UNCHANGED <<screen[d], login[d]>>
    BY <1>2, <1>5 DEF DetailsArrive
  <2>2. LoginWaits(d)'
    <3>1. ASSUME NEW i \in 1..Len(asked'[d]), asked'[d][i].navigates
          PROVE  /\ login[d] = "details" \/ screen[d] = "blank"
                 /\ \A j \in 1..Len(asked[d]) :
                      (asked[d][j].navigates => i + 1 = j)
                      /\ (i + 1 <= j => asked[d][j].user = current[d])
      <4>1. i + 1 \in 1..Len(asked[d]) /\ asked[d][i + 1].navigates
        BY ONLY <1>2, <3>1
      <4> QED
        BY ONLY <4>1, LoginWaits(d) DEF LoginWaits
    <3>2. ASSUME NEW i \in 1..Len(asked'[d]), asked'[d][i].navigates,
                 NEW j \in 1..Len(asked'[d])
          PROVE  (asked'[d][j].navigates => i = j) /\ (i <= j => asked'[d][j].user = current[d])
      <4>1. j + 1 \in 1..Len(asked[d]) /\ asked'[d][j] = asked[d][j + 1]
        BY ONLY <1>2
      <4> QED
        BY ONLY <3>1, <3>2, <4>1
    <3> QED
      BY ONLY <1>3, <2>1, <3>1, <3>2, LoginWaits(d) DEF LoginWaits
  <2>3. AppWaits(d)'
    BY <1>2, <1>3, <2>1 DEF AppWaits
  <2> QED
    BY <1>2, <1>5, <2>2, <2>3
<1> QED
  BY <1>4, <1>5

LEMMA DeviceWaits ==
  ASSUME Patience, NEW d \in Device \ Hasty, OnDevice(d)
  PROVE  Waits(d)'
<1>w. RegisterWaits(d) /\ LoginWaits(d) /\ AppWaits(d)
  BY DEF Patience, Waits
<1>t. TypeOK
  BY DEF Patience
<1> USE <1>t, SessionTypes, AttemptTypes DEF RegisterWaits, LoginWaits, AppWaits, RunningOn, Running, Phase, authVars, sessionVars, editVars, regVars
<1>1. CASE OpenRegister(d)
  <2>1. RegisterWaits(d)'
    BY <1>1, <1>w DEF OpenRegister, GoesOn
  <2>2. LoginWaits(d)'
    BY <1>1, <1>w DEF OpenRegister, GoesOn
  <2>3. AppWaits(d)'
    BY <1>1, <1>w DEF OpenRegister, GoesOn
  <2> QED
    BY <2>1, <2>2, <2>3 DEF Waits
<1>2. CASE BackToLogin(d)
  <2>1. RegisterWaits(d)'
    BY <1>2, <1>w DEF BackToLogin, Left, GoesOn
  <2>2. LoginWaits(d)'
    BY <1>2, <1>w DEF BackToLogin, Left, GoesOn
  <2>3. AppWaits(d)'
    BY <1>2, <1>w DEF BackToLogin, Left, GoesOn
  <2> QED
    BY <2>1, <2>2, <2>3 DEF Waits
<1>3. ASSUME NEW n \in Name, UsernameTextFieldChanged(d, n) PROVE Waits(d)'
  <2>1. RegisterWaits(d)'
    BY <1>3, <1>w DEF UsernameTextFieldChanged, GoesOn
  <2>2. LoginWaits(d)'
    BY <1>3, <1>w DEF UsernameTextFieldChanged, GoesOn
  <2>3. AppWaits(d)'
    BY <1>3, <1>w DEF UsernameTextFieldChanged, GoesOn
  <2> QED
    BY <2>1, <2>2, <2>3 DEF Waits
<1>4. ASSUME NEW a \in Attempt, NEW n \in Name, RegisterBtnPressed(d, a, n) PROVE Waits(d)'
  <2>1. RegisterWaits(d)'
    <3>1. RunningOn(d) = {}
      BY <1>4 DEF RegisterBtnPressed, GoesOn
    <3>2. RunningOn(d)' \subseteq {a}
      BY <1>4, <3>1 DEF RegisterBtnPressed
    <3>3. here'[a] /\ screen'[d] = "register"
      BY <1>4 DEF RegisterBtnPressed
    <3>4. phase'[a] = "reading" => IsAnonymous(current'[d])
      BY <1>4 DEF RegisterBtnPressed
    <3> QED
      BY ONLY <3>2, <3>3, <3>4, OneRegisters
  <2>2. LoginWaits(d)'
    BY <1>4, <1>w DEF RegisterBtnPressed, GoesOn
  <2>3. AppWaits(d)'
    BY <1>4, <1>w DEF RegisterBtnPressed, GoesOn
  <2> QED
    BY <2>1, <2>2, <2>3 DEF Waits
<1>5. ASSUME NEW u \in User, LoginBtn(d, u) PROVE Waits(d)'
  <2>1. RegisterWaits(d)'
    BY <1>5, <1>w DEF LoginBtn, GoesOn
  <2>2. LoginWaits(d)'
    BY <1>5, <1>w DEF LoginBtn, GoesOn
  <2>3. AppWaits(d)'
    BY <1>5, <1>w DEF LoginBtn, GoesOn
  <2> QED
    BY <2>1, <2>2, <2>3 DEF Waits
<1>6. ASSUME NEW u \in User, SaveEnds(d, u) PROVE Waits(d)'
  <2>1. RegisterWaits(d)'
    BY <1>6, <1>w DEF SaveEnds
  <2>2. LoginWaits(d)'
    BY <1>6, <1>w DEF SaveEnds
  <2>3. AppWaits(d)'
    BY <1>6, <1>w DEF SaveEnds
  <2> QED
    BY <2>1, <2>2, <2>3 DEF Waits
<1>7. CASE SignedIn(d)
  <2>1. RegisterWaits(d)'
    BY <1>7, <1>w DEF SignedIn, SignOut, GetUserDetails
  <2>2. LoginWaits(d)'
    BY <1>7, <1>w, LoginAsks
  <2>3. AppWaits(d)'
    BY <1>7, <1>w DEF SignedIn, SignOut, GetUserDetails
  <2> QED
    BY <2>1, <2>2, <2>3 DEF Waits
<1>8. CASE SignInFails(d)
  <2>1. RegisterWaits(d)'
    BY <1>8, <1>w DEF SignInFails
  <2>2. LoginWaits(d)'
    BY <1>8, <1>w DEF SignInFails
  <2>3. AppWaits(d)'
    BY <1>8, <1>w DEF SignInFails
  <2> QED
    BY <2>1, <2>2, <2>3 DEF Waits
<1>9. CASE DetailsArrive(d)
  <2>1. RegisterWaits(d)'
    <3>1. CASE Head(asked[d]).navigates
      <4>1. screen[d] # "register"
        BY <3>1, <1>9, <1>w, Answered
      <4>2. RunningOn(d) = {}
        BY <4>1, <1>w
      <4>3. RunningOn(d)' = {}
        BY <4>2, <1>9 DEF DetailsArrive
      <4> QED
        BY ONLY <4>3 DEF RegisterWaits
    <3>2. CASE ~Head(asked[d]).navigates
      <4>1. UNCHANGED <<screen[d], current[d], phase, dev, here>>
        BY <3>2, <1>9 DEF DetailsArrive
      <4> QED
        BY ONLY <4>1, <1>w, RegisterFrame DEF SameAttempts
    <3> QED
      BY <3>1, <3>2
  <2>2. LoginWaits(d)'
    BY <1>9, <1>w, Answered
  <2>3. AppWaits(d)'
    BY <1>9, <1>w, Answered
  <2> QED
    BY <2>1, <2>2, <2>3 DEF Waits
<1>10. CASE NoDetailsArrive(d)
  <2>1. RegisterWaits(d)'
    BY <1>10, <1>w DEF NoDetailsArrive, Crashes, Dies, Left
  <2>2. LoginWaits(d)'
    <3>1. login'[d] = "no" /\ screen'[d] = "crashed" /\ asked'[d] = <<>>
      BY <1>10 DEF NoDetailsArrive, Crashes, Dies
    <3> QED
      BY ONLY <3>1 DEF LoginWaits
  <2>3. AppWaits(d)'
    BY <1>10, <1>w DEF NoDetailsArrive, Crashes, Dies, Left
  <2> QED
    BY <2>1, <2>2, <2>3 DEF Waits
<1>11. CASE WillEnterForeground(d)
  <2>1. RegisterWaits(d)'
    <3>1. SameAttempts(d)
      BY <1>11 DEF WillEnterForeground, SameAttempts
    <3>2. UNCHANGED <<screen[d], current[d]>>
      BY <1>11 DEF WillEnterForeground
    <3> QED
      BY ONLY <1>w, <3>1, <3>2, RegisterFrame
  <2>2. LoginWaits(d)'
    BY <1>11, <1>w, ForegroundAsks
  <2>3. AppWaits(d)'
    BY <1>11, <1>w, ForegroundAsks
  <2> QED
    BY <2>1, <2>2, <2>3 DEF Waits
<1>12. CASE Launch(d)
  <2>1. RegisterWaits(d)'
    BY <1>12, <1>w DEF Launch, Dies, Left
  <2>2. LoginWaits(d)'
    <3>1. login'[d] = "no" /\ current'[d] = current[d]
      BY <1>12 DEF Launch, Dies
    <3>2. CASE current[d] = None
      <4>1. screen'[d] = "login" /\ asked'[d] = <<>>
        BY <1>12, <3>2 DEF Launch
      <4> QED
        BY ONLY <3>1, <4>1 DEF LoginWaits
    <3>3. CASE current[d] # None
      <4>1. screen'[d] = "blank" /\ asked'[d] = <<[user |-> current[d], navigates |-> TRUE]>>
        BY <1>12, <3>3 DEF Launch
      <4> QED
        BY ONLY <3>1, <3>3, <4>1 DEF LoginWaits
    <3> QED
      BY <3>2, <3>3
  <2>3. AppWaits(d)'
    BY <1>12, <1>w DEF Launch, Dies, Left
  <2> QED
    BY <2>1, <2>2, <2>3 DEF Waits
<1>13. CASE OpenEditProfile(d)
  <2>1. RegisterWaits(d)'
    BY <1>13, <1>w DEF OpenEditProfile
  <2>2. LoginWaits(d)'
    BY <1>13, <1>w DEF OpenEditProfile
  <2>3. AppWaits(d)'
    BY <1>13, <1>w DEF OpenEditProfile
  <2> QED
    BY <2>1, <2>2, <2>3 DEF Waits
<1>14. CASE OpenScreenCrashes(d)
  <2>1. RegisterWaits(d)'
    BY <1>14, <1>w DEF OpenScreenCrashes, Crashes, Dies, Left
  <2>2. LoginWaits(d)'
    <3>1. login'[d] = "no" /\ screen'[d] = "crashed" /\ asked'[d] = <<>>
      BY <1>14 DEF OpenScreenCrashes, Crashes, Dies
    <3> QED
      BY ONLY <3>1 DEF LoginWaits
  <2>3. AppWaits(d)'
    BY <1>14, <1>w DEF OpenScreenCrashes, Crashes, Dies, Left
  <2> QED
    BY <2>1, <2>2, <2>3 DEF Waits
<1>15. CASE CloseEditProfile(d)
  <2>1. RegisterWaits(d)'
    BY <1>15, <1>w DEF CloseEditProfile
  <2>2. LoginWaits(d)'
    BY <1>15, <1>w DEF CloseEditProfile
  <2>3. AppWaits(d)'
    BY <1>15, <1>w DEF CloseEditProfile
  <2> QED
    BY <2>1, <2>2, <2>3 DEF Waits
<1>16. CASE SaveBtnPressed(d)
  <2>1. RegisterWaits(d)'
    BY <1>16, <1>w DEF SaveBtnPressed
  <2>2. LoginWaits(d)'
    BY <1>16, <1>w DEF SaveBtnPressed
  <2>3. AppWaits(d)'
    BY <1>16, <1>w DEF SaveBtnPressed
  <2> QED
    BY <2>1, <2>2, <2>3 DEF Waits
<1>17. CASE SignOutAndGoToLoginVC(d)
  <2>1. RegisterWaits(d)'
    BY <1>17, <1>w DEF SignOutAndGoToLoginVC, SignOut, GoesOn
  <2>2. LoginWaits(d)'
    BY <1>17, <1>w DEF SignOutAndGoToLoginVC, SignOut, GoesOn
  <2>3. AppWaits(d)'
    BY <1>17, <1>w DEF SignOutAndGoToLoginVC, SignOut, GoesOn
  <2> QED
    BY <2>1, <2>2, <2>3 DEF Waits
<1>18. CASE CacheEmptied(d)
  <2>1. RegisterWaits(d)'
    <3>1. SameAttempts(d)
      BY <1>18 DEF CacheEmptied, SameAttempts
    <3>2. UNCHANGED <<screen[d], current[d]>>
      BY <1>18 DEF CacheEmptied
    <3> QED
      BY ONLY <1>w, <3>1, <3>2, RegisterFrame
  <2>2. LoginWaits(d)'
    <3>1. UNCHANGED <<screen[d], current[d], login[d], asked[d]>>
      BY <1>18 DEF CacheEmptied
    <3> QED
      BY ONLY <1>w, <3>1, LoginFrame
  <2>3. AppWaits(d)'
    BY <1>18, <1>w DEF CacheEmptied
  <2> QED
    BY <2>1, <2>2, <2>3 DEF Waits
<1> HIDE DEF RegisterWaits, LoginWaits, AppWaits, RunningOn, Running, Phase, authVars, sessionVars, editVars, regVars
<1> QED
  BY <1>1, <1>2, <1>3, <1>4, <1>5, <1>6, <1>7, <1>8, <1>9, <1>10, <1>11, <1>12, <1>13, <1>14, <1>15, <1>16, <1>17, <1>18 DEF OnDevice

\* While the registration screen is in front no login or launch waits.
LEMMA RegisterScreen ==
  ASSUME NEW d, LoginWaits(d), UNCHANGED <<login[d], asked[d]>>,
         screen[d] = "register", screen'[d] \in {"register", "login"}
  PROVE  LoginWaits(d)'
  BY DEF LoginWaits

LEMMA AttemptWaits ==
  ASSUME Patience, NEW d \in Device \ Hasty, NEW a \in Attempt, dev[a] = d,
         Registers(a) \/ Ok(a) \/ EmailVerified(a)
  PROVE  Waits(d)'
<1>w. RegisterWaits(d) /\ LoginWaits(d) /\ AppWaits(d)
  BY DEF Patience, Waits
<1>t. TypeOK
  BY DEF Patience
<1> USE <1>t, SessionTypes, AttemptTypes DEF RegisterWaits, LoginWaits, AppWaits, RunningOn, Running, Phase, authVars, sessionVars, editVars, regVars
<1>1. CASE SignedInAnonymously(a)
  <2>1. RegisterWaits(d)'
    <3>1. a \in RunningOn(d)
      BY <1>1 DEF SignedInAnonymously
    <3>2. RunningOn(d) = {a} /\ here[a] /\ screen[d] = "register"
      BY ONLY <3>1, <1>w, OneRuns
    <3>3. RunningOn(d)' \subseteq {a}
      BY <1>1, <3>2 DEF SignedInAnonymously
    <3>4. a \in RunningOn(d)' => here'[a] /\ screen'[d] = "register"
      BY <1>1, <3>2 DEF SignedInAnonymously
    <3>5. a \in RunningOn(d)' /\ phase'[a] = "reading" => IsAnonymous(current'[d])
      BY <1>1, <3>2 DEF SignedInAnonymously, IsAnonymous
    <3> QED
      BY ONLY <3>3, <3>4, <3>5, OneRegisters
  <2>2. LoginWaits(d)'
    <3>1. a \in RunningOn(d)
      BY <1>1 DEF SignedInAnonymously
    <3>2. screen[d] = "register"
      BY ONLY <3>1, <1>w, OneRuns
    <3>3. /\ UNCHANGED <<login[d], asked[d]>>
          /\ screen'[d] \in {"register", "login"}
      BY <1>1, <3>2 DEF SignedInAnonymously
    <3> QED
      BY ONLY <1>w, <3>2, <3>3, RegisterScreen
  <2>3. AppWaits(d)'
    BY <1>1, <1>w DEF SignedInAnonymously
  <2> QED
    BY <2>1, <2>2, <2>3 DEF Waits
<1>2. CASE SignInAnonymouslyFails(a)
  <2>1. RegisterWaits(d)'
    <3>1. a \in RunningOn(d)
      BY <1>2 DEF SignInAnonymouslyFails
    <3>2. RunningOn(d) = {a} /\ here[a] /\ screen[d] = "register"
      BY ONLY <3>1, <1>w, OneRuns
    <3>3. RunningOn(d)' \subseteq {a}
      BY <1>2, <3>2 DEF SignInAnonymouslyFails
    <3>4. a \in RunningOn(d)' => here'[a] /\ screen'[d] = "register"
      BY <1>2, <3>2 DEF SignInAnonymouslyFails
    <3>5. a \in RunningOn(d)' /\ phase'[a] = "reading" => IsAnonymous(current'[d])
      BY <1>2, <3>2 DEF SignInAnonymouslyFails, IsAnonymous
    <3> QED
      BY ONLY <3>3, <3>4, <3>5, OneRegisters
  <2>2. LoginWaits(d)'
    BY <1>2, <1>w DEF SignInAnonymouslyFails
  <2>3. AppWaits(d)'
    BY <1>2, <1>w DEF SignInAnonymouslyFails
  <2> QED
    BY <2>1, <2>2, <2>3 DEF Waits
<1>3. CASE UsersRead(a)
  <2>1. RegisterWaits(d)'
    <3>1. a \in RunningOn(d)
      BY <1>3 DEF UsersRead, SignOut
    <3>2. RunningOn(d) = {a} /\ here[a] /\ screen[d] = "register"
      BY ONLY <3>1, <1>w, OneRuns
    <3>3. RunningOn(d)' \subseteq {a}
      BY <1>3, <3>2 DEF UsersRead, SignOut
    <3>4. a \in RunningOn(d)' => here'[a] /\ screen'[d] = "register"
      BY <1>3, <3>2 DEF UsersRead, SignOut
    <3>5. a \in RunningOn(d)' /\ phase'[a] = "reading" => IsAnonymous(current'[d])
      BY <1>3, <3>2 DEF UsersRead, IsAnonymous, SignOut
    <3> QED
      BY ONLY <3>3, <3>4, <3>5, OneRegisters
  <2>2. LoginWaits(d)'
    BY <1>3, <1>w DEF UsersRead, SignOut
  <2>3. AppWaits(d)'
    BY <1>3, <1>w DEF UsersRead, SignOut
  <2> QED
    BY <2>1, <2>2, <2>3 DEF Waits
<1>4. CASE CreateUser(a)
  <2>1. RegisterWaits(d)'
    <3>1. a \in RunningOn(d)
      BY <1>4 DEF CreateUser, AddUserInfoToDatabase
    <3>2. RunningOn(d) = {a} /\ here[a] /\ screen[d] = "register"
      BY ONLY <3>1, <1>w, OneRuns
    <3>3. RunningOn(d)' \subseteq {a}
      BY <1>4, <3>2 DEF CreateUser, AddUserInfoToDatabase
    <3>4. a \in RunningOn(d)' => here'[a] /\ screen'[d] = "register"
      BY <1>4, <3>2 DEF CreateUser, AddUserInfoToDatabase
    <3>5. a \in RunningOn(d)' /\ phase'[a] = "reading" => IsAnonymous(current'[d])
      BY <1>4, <3>2 DEF CreateUser, IsAnonymous, AddUserInfoToDatabase
    <3> QED
      BY ONLY <3>3, <3>4, <3>5, OneRegisters
  <2>2. LoginWaits(d)'
    <3>1. a \in RunningOn(d)
      BY <1>4 DEF CreateUser
    <3>2. screen[d] = "register"
      BY ONLY <3>1, <1>w, OneRuns
    <3>3. /\ UNCHANGED <<login[d], asked[d]>>
          /\ screen'[d] \in {"register", "login"}
      BY <1>4, <3>2 DEF CreateUser
    <3> QED
      BY ONLY <1>w, <3>2, <3>3, RegisterScreen
  <2>3. AppWaits(d)'
    BY <1>4, <1>w DEF CreateUser, AddUserInfoToDatabase
  <2> QED
    BY <2>1, <2>2, <2>3 DEF Waits
<1>5. CASE ProfileImageUploaded(a)
  <2>1. RegisterWaits(d)'
    <3>1. a \in RunningOn(d)
      BY <1>5 DEF ProfileImageUploaded, AddUserInfoToDatabase
    <3>2. RunningOn(d) = {a} /\ here[a] /\ screen[d] = "register"
      BY ONLY <3>1, <1>w, OneRuns
    <3>3. RunningOn(d)' \subseteq {a}
      BY <1>5, <3>2 DEF ProfileImageUploaded, AddUserInfoToDatabase
    <3>4. a \in RunningOn(d)' => here'[a] /\ screen'[d] = "register"
      BY <1>5, <3>2 DEF ProfileImageUploaded, AddUserInfoToDatabase
    <3>5. a \in RunningOn(d)' /\ phase'[a] = "reading" => IsAnonymous(current'[d])
      BY <1>5, <3>2 DEF ProfileImageUploaded, IsAnonymous, AddUserInfoToDatabase
    <3> QED
      BY ONLY <3>3, <3>4, <3>5, OneRegisters
  <2>2. LoginWaits(d)'
    BY <1>5, <1>w DEF ProfileImageUploaded, AddUserInfoToDatabase
  <2>3. AppWaits(d)'
    BY <1>5, <1>w DEF ProfileImageUploaded, AddUserInfoToDatabase
  <2> QED
    BY <2>1, <2>2, <2>3 DEF Waits
<1>6. CASE SendVerifcationEmail(a)
  <2>1. RegisterWaits(d)'
    <3>1. a \in RunningOn(d)
      BY <1>6 DEF SendVerifcationEmail
    <3>2. RunningOn(d) = {a} /\ here[a] /\ screen[d] = "register"
      BY ONLY <3>1, <1>w, OneRuns
    <3>3. RunningOn(d)' \subseteq {a}
      BY <1>6, <3>2 DEF SendVerifcationEmail
    <3>4. a \in RunningOn(d)' => here'[a] /\ screen'[d] = "register"
      BY <1>6, <3>2 DEF SendVerifcationEmail
    <3>5. a \in RunningOn(d)' /\ phase'[a] = "reading" => IsAnonymous(current'[d])
      BY <1>6, <3>2 DEF SendVerifcationEmail, IsAnonymous
    <3> QED
      BY ONLY <3>3, <3>4, <3>5, OneRegisters
  <2>2. LoginWaits(d)'
    BY <1>6, <1>w DEF SendVerifcationEmail
  <2>3. AppWaits(d)'
    BY <1>6, <1>w DEF SendVerifcationEmail
  <2> QED
    BY <2>1, <2>2, <2>3 DEF Waits
<1>7. CASE RegistrationFails(a)
  <2>1. RegisterWaits(d)'
    <3>1. a \in RunningOn(d)
      BY <1>7 DEF RegistrationFails
    <3>2. RunningOn(d) = {a} /\ here[a] /\ screen[d] = "register"
      BY ONLY <3>1, <1>w, OneRuns
    <3>3. RunningOn(d)' \subseteq {a}
      BY <1>7, <3>2 DEF RegistrationFails
    <3>4. a \in RunningOn(d)' => here'[a] /\ screen'[d] = "register"
      BY <1>7, <3>2 DEF RegistrationFails
    <3>5. a \in RunningOn(d)' /\ phase'[a] = "reading" => IsAnonymous(current'[d])
      BY <1>7, <3>2 DEF RegistrationFails, IsAnonymous
    <3> QED
      BY ONLY <3>3, <3>4, <3>5, OneRegisters
  <2>2. LoginWaits(d)'
    BY <1>7, <1>w DEF RegistrationFails
  <2>3. AppWaits(d)'
    BY <1>7, <1>w DEF RegistrationFails
  <2> QED
    BY <2>1, <2>2, <2>3 DEF Waits
<1>8. CASE Ok(a)
  <2>1. RegisterWaits(d)'
    <3>1. a \in RunningOn(d)
      BY <1>8 DEF Ok, SignOut, Left
    <3>2. RunningOn(d) = {a} /\ here[a] /\ screen[d] = "register"
      BY ONLY <3>1, <1>w, OneRuns
    <3>3. RunningOn(d)' \subseteq {a}
      BY <1>8, <3>2 DEF Ok, SignOut, Left
    <3>4. a \in RunningOn(d)' => here'[a] /\ screen'[d] = "register"
      BY <1>8, <3>2 DEF Ok, SignOut, Left
    <3>5. a \in RunningOn(d)' /\ phase'[a] = "reading" => IsAnonymous(current'[d])
      BY <1>8, <3>2 DEF Ok, IsAnonymous, SignOut, Left
    <3> QED
      BY ONLY <3>3, <3>4, <3>5, OneRegisters
  <2>2. LoginWaits(d)'
    <3>1. a \in RunningOn(d)
      BY <1>8 DEF Ok
    <3>2. screen[d] = "register"
      BY ONLY <3>1, <1>w, OneRuns
    <3>3. /\ UNCHANGED <<login[d], asked[d]>>
          /\ screen'[d] \in {"register", "login"}
      BY <1>8, <3>2 DEF Ok
    <3> QED
      BY ONLY <1>w, <3>2, <3>3, RegisterScreen
  <2>3. AppWaits(d)'
    BY <1>8, <1>w DEF Ok, SignOut, GoesOn, Left
  <2> QED
    BY <2>1, <2>2, <2>3 DEF Waits
<1>9. CASE EmailVerified(a)
  <2>1. RegisterWaits(d)'
    <3>1. SameAttempts(d)
      BY <1>9 DEF EmailVerified, SameAttempts
    <3>2. UNCHANGED <<screen[d], current[d]>>
      BY <1>9 DEF EmailVerified
    <3> QED
      BY ONLY <1>w, <3>1, <3>2, RegisterFrame
  <2>2. LoginWaits(d)'
    <3>1. UNCHANGED <<screen[d], current[d], login[d], asked[d]>>
      BY <1>9 DEF EmailVerified
    <3> QED
      BY ONLY <1>w, <3>1, LoginFrame
  <2>3. AppWaits(d)'
    BY <1>9, <1>w DEF EmailVerified
  <2> QED
    BY <2>1, <2>2, <2>3 DEF Waits
<1> HIDE DEF RegisterWaits, LoginWaits, AppWaits, RunningOn, Running, Phase, authVars, sessionVars, editVars, regVars
<1> QED
  BY <1>1, <1>2, <1>3, <1>4, <1>5, <1>6, <1>7, <1>8, <1>9 DEF Registers

LEMMA WaitsStep ==
  ASSUME Patience, [Next]_vars, NEW d \in Device \ Hasty
  PROVE  Waits(d)'
<1>1. TypeOK /\ Waits(d)
  BY DEF Patience
<1>2. ASSUME NEW e \in Device, OnDevice(e) PROVE Waits(d)'
  <2>1. CASE e = d
    BY <1>2, <2>1, DeviceWaits
  <2>2. CASE e # d
    BY <1>1, <1>2, <2>2, DeviceElsewhere, Unnoticed
  <2> QED
    BY <2>1, <2>2
<1>3. ASSUME NEW a \in Attempt, Registers(a) \/ Ok(a) \/ EmailVerified(a) PROVE Waits(d)'
  <2>1. CASE dev[a] = d
    BY <1>3, <2>1, AttemptWaits
  <2>2. CASE dev[a] # d
    BY <1>1, <1>3, <2>2, AttemptElsewhere, Unnoticed
  <2> QED
    BY <2>1, <2>2
<1>4. ASSUME NEW r \in deleting, Deleted(r) PROVE Waits(d)'
  <2>1. r.by # d
    BY UserFacts DEF Patience, PatientUsersAreSafe
  <2> QED
    BY <1>1, <1>4, <2>1, DeletedElsewhere, Unnoticed
<1>5. CASE UNCHANGED vars
  <2>1. SameSession(d) /\ SameAttempts(d)
    BY <1>5 DEF vars, sessionVars, editVars, regVars, SameSession, SameAttempts
  <2> QED
    BY <1>1, <2>1, Unnoticed DEF Same
<1> QED
  BY <1>2, <1>3, <1>4, <1>5 DEF Next

LEMMA AnonymousCannotLogIn == \A u : IsAnonymous(u) => u \notin CanLogIn
<1> SUFFICES ASSUME NEW a \in Attempt PROVE Anonymous(a) \notin CanLogIn
  BY DEF IsAnonymous
<1>1. \A b \in Attempt : Anonymous(a) # Account(b)
  BY DEF Anonymous, Account
<1>2. Anonymous(a) \notin Member
  BY AccountsAssumption DEF AccountsAssumption, Anonymous
<1> QED
  BY <1>1, <1>2 DEF CanLogIn

\* A process that ends leaves no deletion to its device.
LEMMA DiesSafe ==
  ASSUME TypeOK, PatientUsersAreSafe, NEW d, Dies(d) PROVE PatientUsersAreSafe'
<1> SUFFICES ASSUME NEW r \in deleting
             PROVE  [r EXCEPT !.by = IF @ = d THEN None ELSE @].by \in Hasty \cup {None}
  BY DEF Dies, PatientUsersAreSafe
<1>1. r \in [by : Device \cup {None}, user : CanLogIn]
  BY DEF TypeOK, ServerOK
<1> QED
  BY <1>1 DEF PatientUsersAreSafe

(* The database's answer finds the anonymous user on a patient device.     *)
LEMMA SafeStep ==
  ASSUME Patience, [Next]_vars PROVE PatientUsersAreSafe'
<1>0. TypeOK /\ PatientUsersAreSafe
  BY DEF Patience
<1>1. CASE deleting' = deleting
  BY <1>0, <1>1 DEF PatientUsersAreSafe
<1>2. ASSUME NEW d, Dies(d) PROVE PatientUsersAreSafe'
  BY <1>0, <1>2, DiesSafe
<1>3. ASSUME NEW r \in deleting, Deleted(r) PROVE PatientUsersAreSafe'
  BY <1>0, <1>3 DEF Deleted, PatientUsersAreSafe
<1>4. ASSUME NEW a \in Attempt, UsersRead(a) PROVE PatientUsersAreSafe'
  <2>1. dev[a] \in Device /\ a \in RunningOn(dev[a])
    BY <1>0, <1>4, AttemptTypes DEF UsersRead, RunningOn, Running, Phase
  <2>2. deleting' = deleting \/ DeleteCurrent(dev[a])
    BY <1>4 DEF UsersRead
  <2>3. CASE dev[a] \in Hasty
    BY <1>0, <2>2, <2>3 DEF DeleteCurrent, PatientUsersAreSafe
  <2>4. CASE dev[a] \notin Hasty
    <3>1. IsAnonymous(current[dev[a]])
      BY <1>4, <2>1, <2>4 DEF Patience, Waits, RegisterWaits, UsersRead
    <3>2. deleting' = deleting
      BY <2>2, <3>1, AnonymousCannotLogIn DEF DeleteCurrent
    <3> QED
      BY <1>1, <3>2
  <2> QED
    BY <2>3, <2>4
<1>5. ASSUME NEW d \in Device, OnDevice(d) PROVE PatientUsersAreSafe'
  <2>1. deleting' = deleting \/ Dies(d)
    BY <1>5 DEF OnDevice, OpenRegister, BackToLogin, UsernameTextFieldChanged,
       RegisterBtnPressed, LoginBtn, SaveEnds, SignedIn, SignInFails, DetailsArrive,
       NoDetailsArrive, Crashes, WillEnterForeground, Launch, OpenEditProfile,
       OpenScreenCrashes, CloseEditProfile, SaveBtnPressed, SignOutAndGoToLoginVC,
       CacheEmptied, authVars
  <2> QED
    BY <1>1, <1>2, <2>1
<1>6. ASSUME NEW a \in Attempt, Registers(a) \/ Ok(a) \/ EmailVerified(a)
      PROVE  PatientUsersAreSafe'
  <2>1. deleting' = deleting \/ UsersRead(a)
    BY <1>6 DEF Registers, SignedInAnonymously, SignInAnonymouslyFails, CreateUser,
       ProfileImageUploaded, SendVerifcationEmail, RegistrationFails, Ok, EmailVerified,
       authVars
  <2> QED
    BY <1>1, <1>4, <2>1
<1>7. CASE UNCHANGED vars
  BY <1>1, <1>7 DEF vars, authVars
<1> QED
  BY <1>3, <1>5, <1>6, <1>7 DEF Next

LEMMA PatienceInit == Init => Patience
<1> SUFFICES ASSUME Init PROVE Patience
  OBVIOUS
<1>1. PatientUsersAreSafe
  BY DEF Init, PatientUsersAreSafe
<1>2. ASSUME NEW d \in Device PROVE Waits(d)
  <2>1. RunningOn(d) = {}
    BY DEF Init, RunningOn, Running
  <2>2. RegisterWaits(d)
    BY ONLY <2>1 DEF RegisterWaits
  <2>3. screen[d] = "login" /\ login[d] = "no" /\ asked[d] = <<>>
        /\ saving[d] = {} /\ editing[d] = None
    BY DEF Init
  <2>4. LoginWaits(d) /\ AppWaits(d)
    BY ONLY <2>3 DEF LoginWaits, AppWaits
  <2> QED
    BY <2>2, <2>4 DEF Waits
<1> QED
  BY <1>1, <1>2, TypeInit DEF Patience

THEOREM Patient == Spec => []Patience
<1>1. Patience /\ [Next]_vars => Patience'
  <2> SUFFICES ASSUME Patience, [Next]_vars PROVE Patience'
    OBVIOUS
  <2>1. TypeOK'
    BY TypeStep DEF Patience
  <2>2. \A d \in Device \ Hasty : Waits(d)'
    BY WaitsStep
  <2> QED
    BY <2>1, <2>2, SafeStep DEF Patience
<1> QED
  BY <1>1, PatienceInit, PTL DEF Spec

(* No account is deleted by a registration whose user waits for it, on any  *)
(* number of devices, whatever the others do: users read at line 113 find   *)
(* the anonymous user signed in.                                            *)
THEOREM Safety == Spec => []PatientUsersAreSafe
<1>1. Patience => PatientUsersAreSafe
  BY DEF Patience
<1> QED
  BY <1>1, Patient, PTL

(* The screens behind the login show the user who is signed in, where the   *)
(* user waits for what is under way.                                        *)
THEOREM RightUser == Spec => []AppShowsItsUser
<1>1. Patience => AppShowsItsUser
  BY DEF Patience, Waits, AppWaits, AppShowsItsUser
<1> QED
  BY <1>1, Patient, PTL

-----------------------------------------------------------------------------
(* Usernames and details *)

\* An attempt that has not been answered by the database, and one that will
\* write no username any more.
Early    == {"unused", "signing in", "reading"}
Finished == {"mailing", "told", "ended"}

\* What passed the check was not written, and never will be.
Lost(a) == phase[a] \in Finished /\ users[Account(a)] # checked[a]

Apart(a, b) == \/ a \in unseen[b] \/ b \in unseen[a]
               \/ Lost(a) \/ Lost(b)

\* A username is checked against the members' and against those of all attempts
\* that are over; the others' are in unseen.
Names ==
  /\ \A u \in User : users[u] # None => u \in CanLogIn
  /\ \A m \in Member : users[m] = MemberName[m]
  /\ \A a \in Attempt : /\ phase[a] \notin Finished => users[Account(a)] = None
                        /\ phase[a] \in Early => checked[a] = None
                        /\ \A m \in Member : checked[a] # MemberName[m]
  /\ \A a, b \in Attempt : a # b /\ checked[a] = checked[b] /\ checked[a] # None => Apart(a, b)

\* Cache, the form of EditProfileVC and its uploads have details that exist.
Details ==
  \A d \in Device : /\ {cached[d], editing[d]} \subseteq Registered \cup {None}
                    /\ saving[d] \subseteq Registered

LEMMA AccountFacts ==
  /\ \A a, b \in Attempt : Account(a) = Account(b) => a = b
  /\ \A a \in Attempt : Account(a) \notin Member
  /\ \A a \in Attempt : Account(a) \in User /\ Account(a) \in CanLogIn
  /\ \A m \in Member : m \in User /\ MemberName[m] \in Name
  /\ None \notin Name /\ None \notin User
<1>1. \A a, b \in Attempt : Account(a) = Account(b) => a = b
  BY DEF Account
<1>2. \A a \in Attempt : Account(a) \notin Member
  BY AccountsAssumption DEF AccountsAssumption, Account
<1> QED
  BY <1>1, <1>2, UserFacts, AccountsAssumption DEF AccountsAssumption, User, CanLogIn

\* A step that checks and writes no username, and takes no attempt back.
Quiet ==
  /\ UNCHANGED <<users, checked, unseen>>
  /\ \A a \in Attempt : /\ phase[a] \in Finished => phase'[a] \in Finished
                        /\ phase'[a] \in Early => phase[a] \in Early

LEMMA QuietNames ==
  ASSUME Names, Quiet PROVE Names'
<1>1. \A a \in Attempt : Lost(a) => Lost(a)'
  BY DEF Quiet, Lost
<1>2. \A a, b \in Attempt : Apart(a, b) => Apart(a, b)'
  BY <1>1 DEF Quiet, Apart
<1> QED
  BY <1>2 DEF Names, Quiet

\* The attempts of an app that dies end.
LEMMA DiesQuiet ==
  ASSUME TypeOK, NEW d, Dies(d) PROVE Quiet
<1>1. phase \in [Attempt -> Phase]
  BY AttemptTypes
<1> QED
  BY <1>1 DEF Dies, Quiet, Early, Finished, RunningOn, Running

LEMMA DeviceQuiet ==
  ASSUME TypeOK, NEW d \in Device, OnDevice(d) PROVE Quiet
<1>0. phase \in [Attempt -> Phase]
  BY AttemptTypes
<1>1. ASSUME NEW n \in Name, NEW a \in Attempt, RegisterBtnPressed(d, a, n) PROVE Quiet
  <2>1. /\ phase[a] = "unused" /\ phase'[a] \in {"reading", "signing in"}
        /\ \A b \in Attempt \ {a} : phase'[b] = phase[b]
    BY <1>0, <1>1 DEF RegisterBtnPressed
  <2>2. UNCHANGED <<users, checked, unseen>>
    BY <1>1 DEF RegisterBtnPressed
  <2> QED
    BY <2>1, <2>2 DEF Quiet, Early, Finished
<1>2. CASE UNCHANGED <<users, checked, unseen, phase>>
  BY <1>2 DEF Quiet
<1>3. CASE Dies(d)
  BY <1>3, DiesQuiet
<1>4. \/ Dies(d) \/ UNCHANGED <<users, checked, unseen, phase>>
      \/ \E n \in Name, a \in Attempt : RegisterBtnPressed(d, a, n)
  BY DEF OnDevice, OpenRegister, BackToLogin, UsernameTextFieldChanged, LoginBtn, SaveEnds,
     SignedIn, SignInFails, DetailsArrive, NoDetailsArrive, OpenScreenCrashes, Crashes,
     WillEnterForeground, Launch, OpenEditProfile, CloseEditProfile, SaveBtnPressed,
     SignOutAndGoToLoginVC, CacheEmptied, regVars
<1> QED
  BY <1>1, <1>2, <1>3, <1>4

\* So are the attempts' own steps, but for the check and the two writes.
LEMMA AttemptQuiet ==
  ASSUME TypeOK, NEW a \in Attempt,
         \/ SignedInAnonymously(a) \/ SignInAnonymouslyFails(a) \/ SendVerifcationEmail(a)
         \/ RegistrationFails(a) \/ Ok(a) \/ EmailVerified(a)
         \/ CreateUser(a) /\ UNCHANGED users
  PROVE  Quiet
<1>0. phase \in [Attempt -> Phase]
  BY AttemptTypes
<1>1. CASE EmailVerified(a)
  BY <1>1 DEF EmailVerified, Quiet, regVars
<1>2. CASE ~EmailVerified(a)
  <2>1. UNCHANGED <<users, checked, unseen>>
    BY <1>2 DEF SignedInAnonymously, SignInAnonymouslyFails, SendVerifcationEmail,
       RegistrationFails, Ok, CreateUser
  <2>2. \A b \in Attempt \ {a} : phase'[b] = phase[b]
    BY <1>0, <1>2 DEF SignedInAnonymously, SignInAnonymouslyFails, SendVerifcationEmail,
       RegistrationFails, Ok, CreateUser, AddUserInfoToDatabase
  <2>3. \/ phase[a] = "signing in"
        \/ phase[a] \notin Early /\ phase'[a] \in Finished
        \/ phase[a] = "creating" /\ phase'[a] = "uploading"
    BY <1>0, <1>2 DEF SignInAnonymouslyFails, SignedInAnonymously, SendVerifcationEmail,
       RegistrationFails, Ok, CreateUser, AddUserInfoToDatabase, Early, Finished
  <2> QED
    BY <2>1, <2>2, <2>3 DEF Quiet, Early, Finished
<1> QED
  BY <1>1, <1>2

\* The check.
LEMMA ReadNames ==
  ASSUME TypeOK, Names, NEW a \in Attempt, UsersRead(a) PROVE Names'
<1>0. /\ phase \in [Attempt -> Phase] /\ checked \in [Attempt -> Name \cup {None}]
      /\ unseen \in [Attempt -> SUBSET Attempt] /\ name[a] # None
      /\ users \in [User -> Name \cup {None}]
  BY DEF TypeOK, ServerOK, AttemptsOK, UsersRead
<1>1. /\ phase[a] = "reading" /\ phase'[a] \in {"ended", "creating"}
      /\ checked'[a] = IF Taken(name[a]) THEN None ELSE name[a]
      /\ ~Taken(name[a]) => unseen'[a] = Passed
      /\ \A b \in Attempt \ {a} : /\ phase'[b] = phase[b] /\ checked'[b] = checked[b]
                                  /\ unseen'[b] = unseen[b]
      /\ users' = users
  BY <1>0 DEF UsersRead
<1>2. /\ checked[a] = None /\ users[Account(a)] = None
  BY <1>1 DEF Names, Early, Finished
<1>3. \A b \in Attempt : users'[Account(b)] = None \/ phase'[b] \in Finished
  BY <1>1, <1>2 DEF Names
<1>4. \A b \in Attempt : phase'[b] \in Early => checked'[b] = None
  BY <1>1 DEF Names, Early
<1>5. \A b \in Attempt, m \in Member : checked'[b] # MemberName[m]
  <2> SUFFICES ASSUME NEW m \in Member, ~Taken(name[a]) PROVE name[a] # MemberName[m]
    BY <1>1, AccountFacts DEF Names
  <2>1. users[m] = MemberName[m] /\ m \in Registered
    BY AccountFacts DEF Names, Registered
  <2> QED
    BY <2>1 DEF Taken
<1>6. \A b \in Attempt \ {a} : Lost(b) => Lost(b)'
  BY <1>1 DEF Lost
<1>7. ASSUME NEW b \in Attempt \ {a}, checked'[a] = checked[b], checked[b] # None
      PROVE  b \in unseen'[a] \/ Lost(b)'
  <2>1. ~Taken(name[a]) /\ checked[b] = name[a]
    BY <1>1, <1>7
  <2>2. CASE phase[b] \in Finished
    <3>1. users[Account(b)] # name[a]
      BY <1>0, <2>1, AccountFacts DEF Taken, Registered
    <3> QED
      BY <1>1, <2>1, <2>2, <3>1 DEF Lost
  <2>3. CASE phase[b] \notin Finished
    <3>1. phase[b] \in {"creating", "uploading"}
      BY <1>0, <1>7, <2>3 DEF Names, Early, Finished, Phase
    <3> QED
      BY <1>1, <2>1, <3>1 DEF Passed
  <2> QED
    BY <2>2, <2>3
<1>8. ASSUME NEW b \in Attempt, NEW c \in Attempt, b # c,
             checked'[b] = checked'[c], checked'[b] # None
      PROVE  Apart(b, c)'
  <2>1. CASE b = a
    BY <1>1, <1>7, <1>8, <2>1 DEF Apart
  <2>2. CASE c = a
    BY <1>1, <1>7, <1>8, <2>2 DEF Apart
  <2>3. CASE b # a /\ c # a
    <3>1. Apart(b, c)
      BY <1>1, <1>8, <2>3 DEF Names
    <3> QED
      BY <1>1, <1>6, <2>3, <3>1 DEF Apart
  <2> QED
    BY <2>1, <2>2, <2>3
<1> QED
  BY <1>1, <1>3, <1>4, <1>5, <1>8 DEF Names

\* The account's node.
LEMMA WriteNames ==
  ASSUME TypeOK, Names, NEW a \in Attempt, phase[a] \in {"creating", "uploading"},
         AddUserInfoToDatabase(a), UNCHANGED <<checked, unseen>>
  PROVE  Names'
<1>0. phase \in [Attempt -> Phase] /\ users \in [User -> Name \cup {None}]
  BY DEF TypeOK, ServerOK, AttemptsOK
<1>1. /\ phase'[a] = "mailing"
      /\ \A b \in Attempt \ {a} : phase'[b] = phase[b] /\ users'[Account(b)] = users[Account(b)]
      /\ \A m \in Member : users'[m] = users[m]
      /\ \A u \in User : users'[u] # None => users[u] # None \/ u = Account(a)
  BY <1>0, AccountFacts DEF AddUserInfoToDatabase
<1>2. \A b \in Attempt : Lost(b) => Lost(b)'
  BY <1>1 DEF Lost, Finished
<1>3. \A b, c \in Attempt : Apart(b, c) => Apart(b, c)'
  BY <1>2 DEF Apart
<1>4. \A b, c \in Attempt : b # c /\ checked'[b] = checked'[c] /\ checked'[b] # None => Apart(b, c)'
  BY <1>3 DEF Names
<1>5. \A b \in Attempt : /\ phase'[b] \notin Finished => users'[Account(b)] = None
                         /\ phase'[b] \in Early => checked'[b] = None
                         /\ \A m \in Member : checked'[b] # MemberName[m]
  BY <1>1 DEF Names, Early, Finished
<1> QED
  BY <1>1, <1>4, <1>5, AccountFacts DEF Names

LEMMA NamesStep == TypeOK /\ Names /\ [Next]_vars => Names'
<1> SUFFICES ASSUME TypeOK, Names, [Next]_vars PROVE Names'
  OBVIOUS
<1>1. ASSUME NEW d \in Device, OnDevice(d) PROVE Names'
  BY <1>1, DeviceQuiet, QuietNames
<1>2. ASSUME NEW a \in Attempt, Ok(a) \/ EmailVerified(a) PROVE Names'
  BY <1>2, AttemptQuiet, QuietNames
<1>3. ASSUME NEW a \in Attempt, Registers(a) PROVE Names'
  <2>1. CASE UsersRead(a)
    BY <2>1, ReadNames
  <2>2. CASE ProfileImageUploaded(a)
    BY <2>2, WriteNames DEF ProfileImageUploaded
  <2>3. CASE CreateUser(a) /\ ~UNCHANGED users
    BY <2>3, WriteNames DEF CreateUser
  <2> QED
    BY <1>3, <2>1, <2>2, <2>3, AttemptQuiet, QuietNames DEF Registers
<1>4. ASSUME NEW r \in deleting, Deleted(r) PROVE Names'
  <2>1. Quiet
    BY <1>4 DEF Deleted, Quiet, regVars
  <2> QED
    BY <2>1, QuietNames
<1>5. CASE UNCHANGED vars
  <2>1. Quiet
    BY <1>5 DEF vars, Quiet, regVars
  <2> QED
    BY <2>1, QuietNames
<1> QED
  BY <1>1, <1>2, <1>3, <1>4, <1>5 DEF Next

(* On any number of devices, two registered accounts share a username only *)
(* if neither check could see the other's, or a checked name was typed     *)
(* over.                                                                   *)
THEOREM NameSafety == Spec => []UsernamesDiffer
<1>1. Init => Names
  <2> SUFFICES ASSUME Init PROVE Names
    OBVIOUS
  <2>1. \A a \in Attempt : phase[a] = "unused" /\ checked[a] = None
    BY DEF Init
  <2>2. \A u \in User : users[u] = IF u \in Member THEN MemberName[u] ELSE None
    BY DEF Init
  <2>3. /\ \A u \in User : users[u] # None => u \in CanLogIn
        /\ \A m \in Member : users[m] = MemberName[m]
    BY <2>2, AccountFacts, UserFacts
  <2>4. \A a \in Attempt : /\ phase[a] \notin Finished => users[Account(a)] = None
                           /\ \A m \in Member : checked[a] # MemberName[m]
    BY <2>1, <2>2, AccountFacts
  <2> QED
    BY <2>1, <2>3, <2>4 DEF Names
<1>2. TypeOK /\ Names => UsernamesDiffer
  <2> SUFFICES ASSUME TypeOK, Names, NEW u \in Registered, NEW v \in Registered, u # v,
                      users[u] = users[v], KeptName(u), KeptName(v)
               PROVE  \E a, b \in Attempt : u = Account(a) /\ v = Account(b)
                                            /\ (a \in unseen[b] \/ b \in unseen[a])
    BY DEF UsernamesDiffer
  <2>1. /\ u \in CanLogIn /\ users[u] # None /\ v \in CanLogIn
    BY DEF Registered, Names
  <2>2. ~(u \in Member /\ v \in Member)
    BY AccountsAssumption DEF AccountsAssumption, Names
  <2>3. ASSUME NEW m \in Member, NEW b \in Attempt, KeptName(Account(b)),
               users[m] = users[Account(b)]
        PROVE  FALSE
    BY <2>3 DEF KeptName, Names
  <2>4. PICK a \in Attempt, b \in Attempt : u = Account(a) /\ v = Account(b)
    BY <2>1, <2>2, <2>3 DEF CanLogIn
  <2>5. checked[a] = users[u] /\ checked[b] = users[v] /\ a # b
    BY <2>4 DEF KeptName
  <2>6. Apart(a, b) /\ ~Lost(a) /\ ~Lost(b)
    BY <2>1, <2>4, <2>5 DEF Names, Lost
  <2> QED
    BY <2>4, <2>6 DEF Apart
<1>3. Spec => []TypeOK
  BY AccountTypes
<1> QED
  BY <1>1, <1>2, <1>3, NamesStep, PTL DEF Spec

\* A node of Users is written once and never removed.
LEMMA RegisteredStays ==
  ASSUME TypeOK, [Next]_vars PROVE Registered \subseteq Registered'
<1>1. users' = users \/ \E a \in Attempt : users' = [users EXCEPT ![Account(a)] = name[a]]
                                           /\ phase[a] # "unused"
  <2>1. ASSUME NEW d \in Device, OnDevice(d) PROVE users' = users
    BY <2>1, DeviceQuiet DEF Quiet
  <2>2. ASSUME NEW a \in Attempt, Ok(a) \/ EmailVerified(a) PROVE users' = users
    BY <2>2 DEF Ok, EmailVerified
  <2>3. ASSUME NEW a \in Attempt, Registers(a), users' # users
        PROVE  users' = [users EXCEPT ![Account(a)] = name[a]] /\ phase[a] # "unused"
    BY <2>3 DEF Registers, SignedInAnonymously, SignInAnonymouslyFails, UsersRead, CreateUser,
       ProfileImageUploaded, SendVerifcationEmail, RegistrationFails, AddUserInfoToDatabase
  <2>4. ASSUME NEW r \in deleting, Deleted(r) PROVE users' = users
    BY <2>4 DEF Deleted
  <2> QED
    BY <2>1, <2>2, <2>3, <2>4 DEF Next, vars
<1>2. users \in [User -> Name \cup {None}]
      /\ \A a \in Attempt : phase[a] # "unused" => name[a] # None
  BY DEF TypeOK, ServerOK, AttemptsOK
<1> QED
  BY <1>1, <1>2 DEF Registered

LEMMA DetailsStep == TypeOK /\ Details /\ [Next]_vars => Details'
<1> SUFFICES ASSUME TypeOK, Details, [Next]_vars, NEW e \in Device
             PROVE  /\ {cached'[e], editing'[e]} \subseteq Registered' \cup {None}
                    /\ saving'[e] \subseteq Registered'
  BY DEF Details
<1>0. /\ Registered \subseteq Registered'
      /\ cached \in [Device -> User \cup {None}] /\ editing \in [Device -> User \cup {None}]
      /\ saving \in [Device -> SUBSET User]
      /\ {cached[e], editing[e]} \subseteq Registered \cup {None}
      /\ saving[e] \subseteq Registered
  BY RegisteredStays, SessionTypes DEF Details
<1>1. CASE UNCHANGED <<cached, editing, saving>>
  BY <1>0, <1>1
<1>2. ASSUME NEW d \in Device, Dies(d)
      PROVE  /\ cached'[e] \in {cached[e], None} /\ editing'[e] \in {editing[e], None}
             /\ saving'[e] \in {saving[e], {}}
  BY <1>0, <1>2 DEF Dies
<1>3. ASSUME NEW d \in Device, DetailsArrive(d)
      PROVE  /\ cached'[e] \in {cached[e]} \cup Registered
             /\ UNCHANGED <<editing, saving>>
  <2>1. Head(asked[d]).user \in Registered
    <3>1. Head(asked[d]).user \in User
      BY <1>3, AnswerType DEF DetailsArrive, TypeOK
    <3> QED
      BY <1>3, <3>1 DEF DetailsArrive, Registered
  <2>2. cached' = [cached EXCEPT ![d] = Head(asked[d]).user]
    BY <1>3 DEF DetailsArrive
  <2> QED
    BY <1>0, <1>3, <2>1, <2>2 DEF DetailsArrive, editVars
<1>4. ASSUME NEW d \in Device, OpenEditProfile(d) \/ CloseEditProfile(d) \/ SignOutAndGoToLoginVC(d)
      PROVE  /\ editing'[e] \in {editing[e], cached[e], None}
             /\ UNCHANGED <<cached, saving>>
  BY <1>0, <1>4 DEF OpenEditProfile, CloseEditProfile, SignOutAndGoToLoginVC, sessionVars
<1>5. ASSUME NEW d \in Device, SaveBtnPressed(d)
      PROVE  /\ saving'[e] \in {saving[e], saving[e] \cup {editing[e]}}
             /\ editing[e] = None => saving'[e] = saving[e]
             /\ UNCHANGED <<cached, editing>>
  BY <1>0, <1>5 DEF SaveBtnPressed, sessionVars
<1>6. ASSUME NEW d \in Device, NEW u \in User, SaveEnds(d, u)
      PROVE  /\ cached'[e] \in {cached[e]} \cup saving[e]
             /\ saving'[e] \subseteq saving[e]
             /\ UNCHANGED editing
  BY <1>0, <1>6 DEF SaveEnds
<1>7. ASSUME NEW d \in Device, CacheEmptied(d)
      PROVE  cached'[e] \in {cached[e], None} /\ UNCHANGED <<editing, saving>>
  BY <1>0, <1>7 DEF CacheEmptied, editVars
<1>8. ASSUME NEW d \in Device, OnDevice(d)
      PROVE  \/ UNCHANGED <<cached, editing, saving>> \/ Dies(d) \/ DetailsArrive(d)
             \/ OpenEditProfile(d) \/ CloseEditProfile(d) \/ SignOutAndGoToLoginVC(d)
             \/ SaveBtnPressed(d) \/ CacheEmptied(d)
             \/ \E u \in User : SaveEnds(d, u)
  BY <1>8 DEF OnDevice, OpenRegister, BackToLogin, UsernameTextFieldChanged,
     RegisterBtnPressed, LoginBtn, SignedIn, SignInFails, NoDetailsArrive,
     OpenScreenCrashes, Crashes, WillEnterForeground, Launch, sessionVars, editVars
<1>9. \/ UNCHANGED <<cached, editing, saving>>
      \/ \E d \in Device : OnDevice(d)
  BY DEF Next, Registers, SignedInAnonymously, SignInAnonymouslyFails, UsersRead, CreateUser,
     ProfileImageUploaded, SendVerifcationEmail, RegistrationFails, Ok, EmailVerified,
     Deleted, vars, sessionVars, editVars
<1> QED
  BY <1>0, <1>1, <1>2, <1>3, <1>4, <1>5, <1>6, <1>7, <1>8, <1>9

(* For any number of devices and requests, Cache holds the details of      *)
(* nobody who has none in the database.                                    *)
THEOREM DetailsSafety == Spec => []CachedIsRegistered
<1>1. Init => Details
  <2> SUFFICES ASSUME Init, NEW d \in Device
               PROVE  /\ {cached[d], editing[d]} \subseteq Registered \cup {None}
                      /\ saving[d] \subseteq Registered
    BY DEF Details
  <2>1. cached[d] = None /\ editing[d] = None /\ saving[d] = {}
    BY DEF Init
  <2> QED
    BY <2>1
<1>2. Details => CachedIsRegistered
  BY DEF Details, CachedIsRegistered
<1>3. Spec => []TypeOK
  BY AccountTypes
<1> QED
  BY <1>1, <1>2, <1>3, DetailsStep, PTL DEF Spec

=============================================================================
