----------------------- MODULE FrontendSessionProofs ------------------------
(* A session is shown exactly when a token is stored, for any number of calls, *)
(* accounts and reloads. A login, a 401 or a logout writes page and storage    *)
(* together; what needs an argument is the check of the load, which answers    *)
(* late: the token it carries is the one a login stored, which no answer fits, *)
(* so that its answer clears both.                                             *)
EXTENDS FrontendSession, TLAPS

\* The records are what their updates take them for.
Shapes ==
  /\ DOMAIN tasks = Slots
  /\ \A t \in Slots : "kind" \in DOMAIN tasks[t]
  /\ DOMAIN auth = {"isAuthenticated", "isLoading", "user", "walletType"}
  /\ DOMAIN stored = {"token", "walletType"}

\* No other slot ever runs a check, and the check nothing else.
CheckAlone ==
  /\ \A t \in Tasks : tasks[t].kind # "check"
  /\ tasks["check"] # Idle => tasks["check"].kind = "check"

\* A login stores what it reads of a wrapped answer, and the check sends what is stored.
NoTokenStored ==
  /\ stored.token \in {None, Undefined}
  /\ tasks["check"] # Idle => tasks["check"].token = Undefined

IInv == Shapes /\ CheckAlone /\ NoTokenStored /\ SessionMatchesToken

\* A step that leaves the slot of the check alone and starts no other check.
KeepsCheck ==
  /\ DOMAIN tasks' = Slots
  /\ tasks'["check"] = tasks["check"]
  /\ \A t \in Tasks : "kind" \in DOMAIN tasks'[t] /\ tasks'[t].kind # "check"

\* A task that is no check.
Elsewhere(task) == "kind" \in DOMAIN task /\ task.kind # "check"

-----------------------------------------------------------------------------
\* A slot that runs anything but a check is not the slot of the check.
LEMMA NotCheck ==
  ASSUME IInv, NEW t \in Slots, tasks[t].kind \notin {"check", "idle"}
  PROVE  t \in Tasks
BY DEF IInv, CheckAlone, Slots, Idle

\* The three ways in which a call moves on leave the check alone.
LEMMA EndsKeeps ==
  ASSUME IInv, NEW t \in Tasks, Ends(t)
  PROVE  KeepsCheck
BY SessionAssumption DEF IInv, Shapes, CheckAlone, Slots, Idle, Ends, KeepsCheck

LEMMA GotoKeeps ==
  ASSUME IInv, NEW t \in Tasks, NEW at, Goto(t, at)
  PROVE  KeepsCheck
BY SessionAssumption DEF IInv, Shapes, CheckAlone, Slots, Idle, Goto, KeepsCheck

LEMMA StartsKeeps ==
  ASSUME IInv, NEW t \in Tasks, NEW task, Starts(t, task), Elsewhere(task)
  PROVE  KeepsCheck
BY SessionAssumption DEF IInv, Shapes, CheckAlone, Slots, Starts, Elsewhere, KeepsCheck

\* The tasks that the page's calls and hooks start.
LEMMA StartedElsewhere ==
  /\ \A w, preferred, asked, at : Elsewhere(LoginTask(w, preferred, asked, at))
  /\ \A asked : Elsewhere(LogoutTask(asked))
  /\ \A token : Elsewhere([kind |-> "update", at |-> "sent", token |-> token])
  /\ \A token : Elsewhere([kind |-> "change", at |-> "sent", token |-> token])
BY DEF Elsewhere, LoginTask, LogoutTask

LEMMA SameKeeps ==
  ASSUME IInv, tasks' = tasks
  PROVE  KeepsCheck
BY DEF IInv, Shapes, CheckAlone, Slots, KeepsCheck

-----------------------------------------------------------------------------
\* Steps that keep the check keep the invariant when the session they leave is right.
LEMMA SessionStep ==
  ASSUME IInv, KeepsCheck,
         DOMAIN auth' = DOMAIN auth, DOMAIN stored' = DOMAIN stored,
         stored'.token \in {None, Undefined},
         SessionMatchesToken'
  PROVE  IInv'
<1>1. Shapes'
  BY DEF IInv, Shapes, KeepsCheck, Slots
<1>2. CheckAlone'
  BY DEF IInv, CheckAlone, KeepsCheck, Idle
<1>3. NoTokenStored'
  BY DEF IInv, NoTokenStored, KeepsCheck, Idle
<1> QED BY <1>1, <1>2, <1>3 DEF IInv

\* A step that keeps the check and the session keeps the invariant.
LEMMA QuietStep ==
  ASSUME IInv, KeepsCheck, auth' = auth, stored' = stored, disturbed' = disturbed
  PROVE  IInv'
<1>1. SessionMatchesToken'
  BY DEF IInv, SessionMatchesToken, KeepsCheck, Idle
<1> QED BY <1>1, SessionStep DEF IInv, NoTokenStored

\* Neither None nor what a login reads is a token that was signed.
LEMMA Unsigned ==
  ASSUME NEW token \in {None, Undefined}
  PROVE  "ok" \notin profile(token)
BY SessionAssumption DEF profile, JwtAuthGuard

-----------------------------------------------------------------------------
\* Init.
LEMMA InitIInv == Init => IInv
<1> SUFFICES ASSUME Init PROVE IInv
  OBVIOUS
<1> USE SessionAssumption
<1>1. DOMAIN stored = {"token", "walletType"} /\ stored.token \in {None, Undefined}
  BY DEF Init, Leftovers, Cleared
<1>2. DOMAIN tasks = Slots /\ \A t \in Tasks : tasks[t] = Idle
  BY DEF Init, Slots
<1>3. CASE stored.token = None
  <2>1. tasks["check"] = Idle /\ auth = LOGIN_FAILURE(initialState)
    BY <1>3 DEF Init, Slots
  <2>2. Shapes /\ CheckAlone /\ NoTokenStored
    BY <1>1, <1>2, <2>1
    DEF Shapes, CheckAlone, NoTokenStored, Slots, Idle, LOGIN_FAILURE, initialState
  <2>3. SessionMatchesToken
    BY <1>3, <2>1 DEF SessionMatchesToken, LOGIN_FAILURE, initialState
  <2> QED BY <2>2, <2>3 DEF IInv
<1>4. CASE stored.token # None
  <2>1. /\ tasks["check"] = [kind |-> "check", at |-> "sent", token |-> stored.token,
                             walletType |-> stored.walletType]
        /\ auth = initialState
    BY <1>4 DEF Init, Slots
  <2>2. Shapes /\ CheckAlone /\ NoTokenStored
    BY <1>1, <1>2, <1>4, <2>1 DEF Shapes, CheckAlone, NoTokenStored, Slots, Idle, initialState
  <2>3. SessionMatchesToken
    BY <2>1 DEF SessionMatchesToken, Idle
  <2> QED BY <2>2, <2>3 DEF IInv
<1> QED BY <1>3, <1>4

\* Reload: the check begins on the stored token, or the page is signed out.
LEMMA ReloadIInv ==
  ASSUME IInv, Reload
  PROVE  IInv'
<1> USE SessionAssumption
<1>1. DOMAIN tasks = Slots /\ "check" \in Slots /\ stored' = stored
  BY DEF IInv, Shapes, Slots, Reload
<1>2. CASE stored.token = None
  <2>1. tasks' = [t \in Slots |-> Idle] /\ auth' = LOGIN_FAILURE(initialState)
    BY <1>1, <1>2 DEF Reload, checkAuth
  <2>2. Shapes'
    BY <1>1, <2>1 DEF IInv, Shapes, Idle, LOGIN_FAILURE, initialState
  <2>3. CheckAlone' /\ NoTokenStored'
    BY <1>1, <1>2, <2>1 DEF CheckAlone, NoTokenStored, Slots, Idle
  <2>4. SessionMatchesToken'
    BY <1>1, <1>2, <2>1 DEF SessionMatchesToken, LOGIN_FAILURE, initialState
  <2> QED BY <2>2, <2>3, <2>4 DEF IInv
<1>3. CASE stored.token # None
  <2>1. /\ tasks' = [t \in Slots |->
              IF t = "check"
                THEN [kind |-> "check", at |-> "sent", token |-> stored.token, walletType |-> stored.walletType]
                ELSE Idle]
        /\ auth' = initialState
    BY <1>1, <1>3 DEF Reload, checkAuth
  <2>2. Shapes'
    BY <1>1, <2>1 DEF IInv, Shapes, Idle, initialState
  <2>3. CheckAlone' /\ NoTokenStored'
    BY <1>1, <1>3, <2>1 DEF IInv, CheckAlone, NoTokenStored, Slots, Idle
  <2>4. SessionMatchesToken'
    BY <1>1, <2>1 DEF SessionMatchesToken, Idle
  <2> QED BY <2>2, <2>3, <2>4 DEF IInv
<1> QED BY <1>2, <1>3

-----------------------------------------------------------------------------
\* The interceptor leaves page and storage as they are, or clears both.
LEMMA InterceptedCases ==
  ASSUME IInv, NEW status
  PROVE  /\ status # "unauthorized" =>
              Intercepted(status, auth).auth = auth /\ Intercepted(status, auth).stored = stored
         /\ status = "unauthorized" =>
              /\ Intercepted(status, auth).auth = LOGOUT
              /\ Intercepted(status, auth).stored.token = None
         /\ DOMAIN Intercepted(status, auth).stored = {"token", "walletType"}
         /\ Intercepted(status, auth).stored.token \in {None, Undefined}
BY DEF IInv, Shapes, NoTokenStored, Intercepted

LEMMA LoggedOut ==
  /\ DOMAIN LOGOUT = {"isAuthenticated", "isLoading", "user", "walletType"}
  /\ LOGOUT.isAuthenticated = FALSE
BY DEF LOGOUT, initialState

LEMMA LoginFailed ==
  ASSUME NEW state, DOMAIN state = {"isAuthenticated", "isLoading", "user", "walletType"}
  PROVE  /\ DOMAIN LOGIN_FAILURE(state) = DOMAIN state
         /\ LOGIN_FAILURE(state).isAuthenticated = FALSE
BY DEF LOGIN_FAILURE

\* The answer of the check is never its profile: it clears page and storage, whatever
\* a login stored meanwhile.
LEMMA CheckAnsweredIInv ==
  ASSUME IInv, NEW t \in Slots, CheckAnswered(t)
  PROVE  IInv'
<1>1. t = "check" /\ tasks["check"] # Idle
  BY DEF IInv, CheckAlone, CheckAnswered, At, Slots, Idle
<1>2. /\ DOMAIN tasks' = Slots
      /\ tasks'["check"] = Idle
      /\ \A c \in Tasks : tasks'[c] = tasks[c]
  BY <1>1, SessionAssumption DEF IInv, Shapes, CheckAnswered, Ends, Slots
<1>3. "ok" \notin profile(tasks["check"].token)
  BY <1>1, Unsigned DEF IInv, NoTokenStored
<1>4. PICK status \in profile(tasks["check"].token) :
         /\ auth' = LOGIN_FAILURE(Intercepted(status, auth).auth)
         /\ stored' = Cleared /\ disturbed' = FALSE
  BY <1>1, <1>3 DEF CheckAnswered
<1>5. DOMAIN Intercepted(status, auth).auth = {"isAuthenticated", "isLoading", "user", "walletType"}
  BY InterceptedCases, LoggedOut DEF IInv, Shapes
<1>6. auth'.isAuthenticated = FALSE /\ DOMAIN auth' = {"isAuthenticated", "isLoading", "user", "walletType"}
  BY <1>4, <1>5, LoginFailed
<1>7. Shapes' /\ CheckAlone'
  BY <1>2, <1>4, <1>6 DEF IInv, Shapes, CheckAlone, Cleared, Slots, Idle
<1>8. NoTokenStored' /\ SessionMatchesToken'
  BY <1>2, <1>4, <1>6 DEF NoTokenStored, SessionMatchesToken, Cleared
<1> QED BY <1>7, <1>8 DEF IInv

\* A login that fails leaves a page signed out; a token left in storage is disturbed.
LEMMA LoginFailsIInv ==
  ASSUME IInv, NEW t \in Tasks, NEW status, LoginFails(t, status)
  PROVE  IInv'
<1>1. KeepsCheck
  BY EndsKeeps DEF LoginFails
<1>2. DOMAIN Intercepted(status, auth).auth = {"isAuthenticated", "isLoading", "user", "walletType"}
  BY InterceptedCases, LoggedOut DEF IInv, Shapes
<1>3. auth'.isAuthenticated = FALSE /\ DOMAIN auth' = DOMAIN auth
  BY <1>2, LoginFailed DEF LoginFails, IInv, Shapes
<1>4. stored'.token \in {None, Undefined} /\ DOMAIN stored' = DOMAIN stored
  BY InterceptedCases DEF LoginFails, IInv, Shapes
<1>5. SessionMatchesToken'
  BY <1>3 DEF SessionMatchesToken, LoginFails
<1> QED BY <1>1, <1>3, <1>4, <1>5, SessionStep

\* A login that succeeds stores what it reads of the wrapped answer.
LEMMA LoginAnsweredIInv ==
  ASSUME IInv, NEW t \in Slots, LoginAnswered(t)
  PROVE  IInv'
<1>1. t \in Tasks
  BY NotCheck DEF LoginAnswered, At
<1> DEFINE w == tasks[t].w
           answer == TransformInterceptor([token |-> w.address, user |-> w.address])
<1>2. PICK status \in login(w.address, tasks[t].signature, tasks[t].walletType) :
       IF status = "ok"
         THEN /\ Ends(t)
              /\ stored' = [token |-> Field(answer, "token"), walletType |-> tasks[t].walletType]
              /\ auth' = LOGIN_SUCCESS(Field(answer, "user"), tasks[t].walletType)
              /\ disturbed' = FALSE
         ELSE LoginFails(t, status)
  BY DEF LoginAnswered
<1>3. CASE status # "ok"
  BY <1>1, <1>2, <1>3, LoginFailsIInv
<1>4. CASE status = "ok"
  <2>1. KeepsCheck
    BY <1>1, <1>2, <1>4, EndsKeeps
  <2>2. Field(answer, "token") = Undefined
    BY DEF Field, TransformInterceptor
  <2> HIDE DEF answer
  <2>3. /\ stored'.token = Undefined /\ stored'.walletType = tasks[t].walletType
        /\ DOMAIN stored' = {"token", "walletType"}
    BY <1>2, <1>4, <2>2
  <2>4. /\ auth'.isAuthenticated = TRUE /\ auth'.walletType = tasks[t].walletType
        /\ DOMAIN auth' = {"isAuthenticated", "isLoading", "user", "walletType"}
    BY <1>2, <1>4 DEF LOGIN_SUCCESS
  <2>5. SessionMatchesToken'
    BY <2>3, <2>4, SessionAssumption DEF SessionMatchesToken
  <2> QED BY <2>1, <2>3, <2>4, <2>5, SessionStep DEF IInv, Shapes
<1> QED BY <1>3, <1>4

LEMMA LogoutAnsweredIInv ==
  ASSUME IInv, NEW t \in Slots, LogoutAnswered(t)
  PROVE  IInv'
<1>1. KeepsCheck
  BY NotCheck, EndsKeeps DEF LogoutAnswered, At
<1>2. stored' = Cleared /\ auth' = LOGOUT
  BY DEF LogoutAnswered
<1>3. SessionMatchesToken'
  BY <1>2, LoggedOut DEF SessionMatchesToken, Cleared
<1>4. DOMAIN auth' = DOMAIN auth /\ DOMAIN stored' = DOMAIN stored /\ stored'.token = None
  BY <1>2, LoggedOut DEF Cleared, IInv, Shapes
<1> QED BY <1>1, <1>3, <1>4, SessionStep

\* What the failure of any request leaves.
LEMMA FailsIInv ==
  ASSUME IInv, KeepsCheck, NEW status, Fails(status)
  PROVE  IInv'
<1>1. DOMAIN stored' = DOMAIN stored /\ stored'.token \in {None, Undefined}
  BY InterceptedCases DEF Fails, IInv, Shapes
<1>2. CASE status = "unauthorized"
  <2>1. auth' = LOGOUT /\ stored'.token = None
    BY <1>2, InterceptedCases DEF Fails
  <2>2. SessionMatchesToken' /\ DOMAIN auth' = DOMAIN auth
    BY <2>1, LoggedOut DEF SessionMatchesToken, IInv, Shapes
  <2> QED BY <1>1, <2>2, SessionStep
<1>3. CASE status # "unauthorized"
  <2>1. auth' = auth /\ stored' = stored /\ (disturbed' <=> disturbed)
    BY <1>3, InterceptedCases DEF Fails
  <2>2. SessionMatchesToken'
    BY <2>1 DEF IInv, SessionMatchesToken, KeepsCheck, Idle
  <2> QED BY <1>1, <2>1, <2>2, SessionStep
<1> QED BY <1>2, <1>3

\* An answer to updateUser changes the user of a session, or is a failure.
LEMMA UpdateAnsweredIInv ==
  ASSUME IInv, NEW t \in Slots, UpdateAnswered(t)
  PROVE  IInv'
<1>1. KeepsCheck
  BY NotCheck, EndsKeeps DEF UpdateAnswered, At
<1>2. PICK status \in profile(tasks[t].token) :
       IF status = "ok"
         THEN /\ auth' = UPDATE_USER(auth, TransformInterceptor(tasks[t].token))
              /\ UNCHANGED <<stored, disturbed>>
         ELSE Fails(status)
  BY DEF UpdateAnswered
<1>3. CASE status # "ok"
  BY <1>1, <1>2, <1>3, FailsIInv
<1>4. CASE status = "ok"
  <2>1. /\ DOMAIN auth' = DOMAIN auth
        /\ auth'.isAuthenticated = auth.isAuthenticated /\ auth'.walletType = auth.walletType
        /\ stored' = stored /\ disturbed' = disturbed
    BY <1>2, <1>4 DEF UPDATE_USER, IInv, Shapes
  <2>2. SessionMatchesToken'
    BY <1>1, <2>1 DEF IInv, SessionMatchesToken, KeepsCheck
  <2> QED BY <1>1, <2>1, <2>2, SessionStep DEF IInv, NoTokenStored
<1> QED BY <1>3, <1>4

\* LOGIN_REQUEST shows that the page is loading, and nothing else of the session.
LEMMA LoginRequestIInv ==
  ASSUME IInv, KeepsCheck, auth' = LOGIN_REQUEST(auth), stored' = stored, disturbed' = disturbed
  PROVE  IInv'
<1>1. /\ DOMAIN auth' = DOMAIN auth
      /\ auth'.isAuthenticated = auth.isAuthenticated /\ auth'.walletType = auth.walletType
  BY DEF LOGIN_REQUEST, IInv, Shapes
<1>2. SessionMatchesToken'
  BY <1>1 DEF IInv, SessionMatchesToken, KeepsCheck
<1> QED BY <1>1, <1>2, SessionStep DEF IInv, NoTokenStored

-----------------------------------------------------------------------------
\* The steps of the session.
LEMMA SessionIInv ==
  ASSUME IInv, NEW t \in Slots, Session(t)
  PROVE  IInv'
<1> USE DEF sessionVars
<1>1. CASE CheckAnswered(t)
  BY <1>1, CheckAnsweredIInv
<1>2. CASE LoginConnects(t)
  <2>1. t \in Tasks
    BY <1>2, NotCheck DEF LoginConnects, At
  <2>2. CASE Goto(t, "sign") /\ auth' = LOGIN_REQUEST(auth)
    BY <1>2, <2>1, <2>2, GotoKeeps, LoginRequestIInv DEF LoginConnects
  <2>3. CASE Ends(t) /\ UNCHANGED auth
    BY <1>2, <2>1, <2>3, EndsKeeps, QuietStep DEF LoginConnects
  <2> QED BY <1>2, <2>2, <2>3 DEF LoginConnects
<1>3. CASE SignThrows(t)
  BY <1>3, NotCheck, LoginFailsIInv DEF SignThrows, At
<1>4. CASE SignAnswered(t)
  <2>1. t \in Tasks
    BY <1>4, NotCheck DEF SignAnswered, At
  <2>2. CASE LoginFails(t, "error")
    BY <1>4, <2>1, <2>2, LoginFailsIInv DEF SignAnswered
  <2>3. CASE /\ tasks' = [tasks EXCEPT ![t].at = "sent", ![t].signature = signMessage(tasks[t].w)]
             /\ UNCHANGED sessionVars
    <3>1. KeepsCheck
      BY <2>1, <2>3, SessionAssumption DEF IInv, Shapes, CheckAlone, Slots, Idle, KeepsCheck
    <3> QED BY <1>4, <2>3, <3>1, QuietStep DEF SignAnswered
  <2> QED BY <1>4, <2>2, <2>3 DEF SignAnswered
<1>5. CASE LoginAnswered(t)
  BY <1>5, LoginAnsweredIInv
<1>6. CASE LogoutAnswered(t)
  BY <1>6, LogoutAnsweredIInv
<1>7. CASE UpdateAnswered(t)
  BY <1>7, UpdateAnsweredIInv
<1>8. CASE PageConnects(t)
  <2>1. t \in Tasks
    BY <1>8, NotCheck DEF PageConnects, At
  <2>2. KeepsCheck
    BY <1>8, <2>1, GotoKeeps, EndsKeeps DEF PageConnects
  <2> QED BY <1>8, <2>2, QuietStep DEF PageConnects
<1> QED BY <1>1, <1>2, <1>3, <1>4, <1>5, <1>6, <1>7, <1>8 DEF Session

\* What the user or a component starts.
LEMMA HomeIInv ==
  ASSUME IInv, NEW t \in Tasks, Home(t)
  PROVE  IInv'
<1> USE DEF sessionVars
<1>1. CASE \E walletType \in {"ethereum", "starknet", None} : Login(t, walletType)
  <2>1. PICK preferred \in {"ethereum", "starknet", None} : Login(t, preferred)
    BY <1>1
  <2>2. KeepsCheck
    BY <2>1, StartsKeeps, StartedElsewhere DEF Login
  <2>3. CASE auth' = LOGIN_REQUEST(auth)
    BY <2>1, <2>2, <2>3, LoginRequestIInv DEF Login
  <2>4. CASE UNCHANGED auth
    BY <2>1, <2>2, <2>4, QuietStep DEF Login
  <2> QED BY <2>1, <2>3, <2>4 DEF Login
<1>2. CASE Logout(t)
  BY <1>2, StartsKeeps, StartedElsewhere, QuietStep DEF Logout
<1>3. CASE UpdateUser(t)
  BY <1>3, StartsKeeps, StartedElsewhere, QuietStep DEF UpdateUser
<1>4. CASE \E walletType \in {"ethereum", "starknet"} : connectAndLogin(t, walletType)
  <2>1. PICK type \in {"ethereum", "starknet"} : connectAndLogin(t, type)
    BY <1>4
  <2> QED BY <2>1, StartsKeeps, StartedElsewhere, QuietStep DEF connectAndLogin
<1>5. CASE disconnectAndLogout(t)
  <2>1. KeepsCheck
    <3>1. CASE Starts(t, LogoutTask("page"))
      BY <3>1, StartsKeeps, StartedElsewhere
    <3>2. CASE UNCHANGED tasks
      BY <3>2, SameKeeps
    <3> QED BY <1>5, <3>1, <3>2 DEF disconnectAndLogout
  <2> QED BY <1>5, <2>1, QuietStep DEF disconnectAndLogout
<1> QED BY <1>1, <1>2, <1>3, <1>4, <1>5 DEF Home

\* The calls of the data hooks.
LEMMA HooksIInv ==
  ASSUME IInv, NEW t \in Tasks, Hooks(t)
  PROVE  IInv'
<1>1. CASE Asks(t)
  BY <1>1, StartsKeeps, StartedElsewhere, QuietStep DEF Asks, sessionVars
<1>2. CASE ChangeAnswered(t)
  BY <1>2, EndsKeeps, FailsIInv DEF ChangeAnswered
<1> QED
  BY <1>1, <1>2
  DEF Hooks, createProposal, castVote, executeProposal, cancelProposal, deposit, withdraw

\* Every step keeps the invariant.
LEMMA NextIInv ==
  ASSUME IInv, [Next]_vars
  PROVE  IInv'
<1>1. CASE Reload
  BY <1>1, ReloadIInv
<1>2. CASE \E t \in Slots : Session(t)
  BY <1>2, SessionIInv
<1>3. CASE \E t \in Tasks : Home(t) \/ Hooks(t)
  BY <1>3, HomeIInv, HooksIInv
<1>4. CASE WalletActs \/ UNCHANGED vars
  <2>1. tasks' = tasks /\ UNCHANGED <<auth, stored, disturbed>>
    BY <1>4 DEF vars, WalletActs, EthereumChanges, sessionVars
  <2> QED BY <2>1, SameKeeps, QuietStep
<1> QED BY <1>1, <1>2, <1>3, <1>4 DEF Next

\* Once the check of the load is over and unless a login failed over a stored token,
\* the page shows a session exactly when a token is stored, with the wallet type
\* stored beside it: the steps of AuthContext.tsx and of the interceptor of api.ts keep
\* it so for any number of calls and accounts, whatever answers come late. It says
\* nothing of the token or the user: both are undefined after every login.
THEOREM SessionShownIsStored == Spec => []SessionMatchesToken
<1>1. IInv => SessionMatchesToken
  BY DEF IInv
<1> QED BY InitIInv, NextIInv, <1>1, PTL DEF Spec
=============================================================================
