----------------------------- MODULE AuthContext -----------------------------
(* AuthProvider, the interceptors of api.ts it listens to, the two keys of    *)
(* localStorage, and the endpoints it asks. A request carries the token       *)
(* stored when it is sent, and its answer changes whatever is stored when it  *)
(* arrives. Every answer of the backend is wrapped by TransformInterceptor,   *)
(* and nothing on the page unwraps it: the fields AuthContext reads of it are *)
(* undefined, and localStorage keeps that as the string "undefined".          *)
EXTENDS WalletContext

CONSTANT Undefined   \* a field an answer does not have, and the string stored for it

VARIABLES
  auth,       \* the reducer's state, without the error's text
  stored,     \* localStorage: auth_token and wallet_type
  disturbed   \* history: a login failed over a stored token, and nothing since has set
              \* both page and storage

sessionVars == <<auth, stored, disturbed>>
walletVars == <<wallet, ethereum, starknet>>

-----------------------------------------------------------------------------
\* The server. Every other failure of a request (RateLimitGuard, validation, database,
\* network, the ten seconds of axios) is an answer "error" of it. A token is the address
\* it was signed for.
TransformInterceptor(data) == [data |-> data, meta |-> "meta"]
Field(answer, name) == IF name \in DOMAIN answer THEN answer[name] ELSE Undefined

\* AuthService.verifySignature: the row of the user is found or created, the message
\* is rebuilt from the server's clock, so that the signature of an Ethereum account
\* matches only when both clocks gave the same millisecond; a Starknet signature is
\* taken as it is. A database error is answered like a wrong signature.
verifySignature(address, signature, walletType) ==
  {"unauthorized"} \union
    (IF walletType = "ethereum" /\ signature.by # address THEN {} ELSE {"ok"})

\* AuthController.login checks the format of address and signature for Ethereum only.
login(address, signature, walletType) ==
  IF walletType = "ethereum" /\ (address \notin EthereumAccounts \/ signature.walletType # "ethereum")
    THEN {"error"}
    ELSE verifySignature(address, signature, walletType) \union {"error"}

\* The routes behind JwtAuthGuard: GET and PUT /user/profile, and the changes of
\* proposals. A token that was signed may have expired.
JwtAuthGuard(token) ==
  {"unauthorized"} \union (IF token \in EthereumAccounts \union StarknetAccounts THEN {"ok"} ELSE {})
profile(token) == JwtAuthGuard(token) \union {"error"}

-----------------------------------------------------------------------------
initialState == [isAuthenticated |-> FALSE, isLoading |-> TRUE, user |-> None, walletType |-> None]
Cleared == [token |-> None, walletType |-> None]

\* authReducer
LOGIN_REQUEST(state) == [state EXCEPT !.isLoading = TRUE]
LOGIN_SUCCESS(user, walletType) ==
  [isAuthenticated |-> TRUE, isLoading |-> FALSE, user |-> user, walletType |-> walletType]
LOGIN_FAILURE(state) == [state EXCEPT !.isAuthenticated = FALSE, !.isLoading = FALSE, !.user = None]
LOGOUT == [initialState EXCEPT !.isLoading = FALSE]
UPDATE_USER(state, user) == [state EXCEPT !.user = IF @ \in {None, Undefined} THEN None ELSE user]

\* The response interceptor: a 401 removes the stored token, whichever the request
\* had, and the auth:expired event it dispatches logs the page out.
\* Bug form used by a mutation run: the event is not dispatched.
Intercepted_silent(status, state) ==
  IF status = "unauthorized" THEN [stored |-> [stored EXCEPT !.token = None], auth |-> state]
  ELSE [stored |-> stored, auth |-> state]

Intercepted(status, state) ==
  IF status = "unauthorized" THEN [stored |-> [stored EXCEPT !.token = None], auth |-> LOGOUT]
  ELSE [stored |-> stored, auth |-> state]

\* What the failure of any request leaves.
Fails(status) ==
  /\ stored' = Intercepted(status, auth).stored
  /\ auth' = Intercepted(status, auth).auth
  /\ disturbed' = (disturbed /\ status # "unauthorized")

-----------------------------------------------------------------------------
\* checkAuth on mount, up to its request: a task of its own.
\* Bug form used by a mutation run: the page keeps loading when no token is stored.
checkAuth_waits ==
  /\ auth' = initialState
  /\ tasks' = [t \in DOMAIN tasks |->
       IF t = "check" /\ stored.token # None
         THEN [kind |-> "check", at |-> "sent", token |-> stored.token, walletType |-> stored.walletType]
         ELSE Idle]

checkAuth ==
  /\ auth' = IF stored.token # None THEN initialState ELSE LOGIN_FAILURE(initialState)
  /\ tasks' = [t \in DOMAIN tasks |->
       IF t = "check" /\ stored.token # None
         THEN [kind |-> "check", at |-> "sent", token |-> stored.token, walletType |-> stored.walletType]
         ELSE Idle]

\* Its end: the answer is shown as it came, or both keys are removed.
CheckAnswered(t) ==
  /\ At(t, "check", "sent") /\ Ends(t)
  /\ \E status \in profile(tasks[t].token) :
       IF status = "ok"
         THEN /\ auth' = LOGIN_SUCCESS(TransformInterceptor(tasks[t].token), tasks[t].walletType)
              /\ UNCHANGED <<stored, disturbed>>
         ELSE /\ auth' = LOGIN_FAILURE(Intercepted(status, auth).auth)
              /\ stored' = Cleared
              /\ disturbed' = FALSE
  /\ UNCHANGED walletVars

-----------------------------------------------------------------------------
\* login(preferred), of a render with wallet w: it connects the wallet first when w
\* is not connected. asked: by the page's button, or by a component.
LoginTask(w, preferred, asked, at) ==
  [kind |-> "login", at |-> at, w |-> w, asked |-> asked, signature |-> None,
   walletType |-> IF preferred # None THEN preferred ELSE w.walletType]

Login(t, preferred) ==
  /\ IF isConnected(wallet)
       THEN Starts(t, LoginTask(wallet, preferred, "component", "sign")) /\ auth' = LOGIN_REQUEST(auth)
       ELSE /\ preferred # None
            /\ Starts(t, LoginTask(wallet, preferred, "component", "reconnect")) /\ UNCHANGED auth
  /\ UNCHANGED <<stored, disturbed, walletVars>>

\* Its own connectWallet, then LOGIN_REQUEST; a refusal is thrown to the caller.
LoginConnects(t) ==
  /\ At(t, "login", "reconnect")
  /\ \/ connectWallet(tasks[t].walletType) /\ Goto(t, "sign") /\ auth' = LOGIN_REQUEST(auth)
     \/ Ends(t) /\ UNCHANGED <<auth, walletVars>>
  /\ UNCHANGED <<stored, disturbed>>

\* A login that fails forgets the user, not the token an earlier login stored.
LoginFails(t, status) ==
  /\ Ends(t)
  /\ stored' = Intercepted(status, auth).stored
  /\ auth' = LOGIN_FAILURE(Intercepted(status, auth).auth)
  /\ disturbed' = (stored'.token # None)

SignThrows(t) ==
  /\ At(t, "login", "sign") /\ CannotSign(tasks[t].w)
  /\ LoginFails(t, "error")
  /\ UNCHANGED walletVars
SignAnswered(t) ==
  /\ At(t, "login", "sign") /\ ~CannotSign(tasks[t].w)
  /\ \/ /\ tasks' = [tasks EXCEPT ![t].at = "sent", ![t].signature = signMessage(tasks[t].w)]
        /\ UNCHANGED sessionVars
     \/ LoginFails(t, "error")
  /\ UNCHANGED walletVars

\* The answer: the fields token and user are read of the wrapped answer, which has
\* neither; the wallet type is stored with what was read.
LoginAnswered(t) ==
  LET w == tasks[t].w
      answer == TransformInterceptor([token |-> w.address, user |-> w.address])
  IN
  /\ At(t, "login", "sent")
  /\ \E status \in login(w.address, tasks[t].signature, tasks[t].walletType) :
       IF status = "ok"
         THEN /\ Ends(t)
              /\ stored' = [token |-> Field(answer, "token"), walletType |-> tasks[t].walletType]
              /\ auth' = LOGIN_SUCCESS(Field(answer, "user"), tasks[t].walletType)
              /\ disturbed' = FALSE
         ELSE LoginFails(t, status)
  /\ UNCHANGED walletVars

-----------------------------------------------------------------------------
\* logout(): the backend has no such route; whatever it answers, the keys are removed.
\* The page's button disconnects the wallet of its render next.
LogoutTask(asked) == [kind |-> "logout", at |-> "sent", asked |-> asked, w |-> wallet]
Logout(t) ==
  Starts(t, LogoutTask("component")) /\ UNCHANGED <<sessionVars, walletVars>>
LogoutAnswered(t) ==
  /\ At(t, "logout", "sent") /\ Ends(t)
  /\ stored' = Cleared /\ auth' = LOGOUT
  /\ IF tasks[t].asked = "page" THEN disconnectWallet(tasks[t].w) ELSE UNCHANGED walletVars
  /\ disturbed' = FALSE

\* updateUser(data)
UpdateUser(t) ==
  /\ auth.isAuthenticated
  /\ Starts(t, [kind |-> "update", at |-> "sent", token |-> stored.token])
  /\ UNCHANGED <<sessionVars, walletVars>>
UpdateAnswered(t) ==
  /\ At(t, "update", "sent") /\ Ends(t)
  /\ \E status \in profile(tasks[t].token) :
       IF status = "ok"
         THEN /\ auth' = UPDATE_USER(auth, TransformInterceptor(tasks[t].token))
              /\ UNCHANGED <<stored, disturbed>>
         ELSE Fails(status)
  /\ UNCHANGED walletVars
=============================================================================
