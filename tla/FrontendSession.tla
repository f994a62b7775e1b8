-------------------------- MODULE FrontendSession ---------------------------
(* The page: its wallet, its session and the calls of its hooks, with the     *)
(* server's answers and the reload of the page.                               *)
EXTENDS WalletSelector, ApiHooks

CONSTANT MaxReloads   \* bound

\* The check of the load has a slot of its own, and an account is an account.
ASSUME SessionAssumption ==
  /\ "check" \notin Tasks
  /\ Undefined # None
  /\ {None, Undefined} \intersect (EthereumAccounts \union StarknetAccounts) = {}

VARIABLE reloads

vars == <<tasks, walletVars, sessionVars, reloads>>

Slots == Tasks \union {"check"}

\* What an earlier visit leaves in localStorage: nothing, both keys of a login, or the
\* wallet type alone, as the interceptor of a 401 removes the token only.
Leftovers == {Cleared} \union [token : {None, Undefined}, walletType : {"ethereum", "starknet"}]

Init ==
  /\ stored \in Leftovers
  /\ ethereum = None /\ starknet \in StarknetAccounts \union {None}
  /\ wallet = Mounted(None)
  /\ auth = IF stored.token # None THEN initialState ELSE LOGIN_FAILURE(initialState)
  /\ tasks = [t \in Slots |->
       IF t = "check" /\ stored.token # None
         THEN [kind |-> "check", at |-> "sent", token |-> stored.token, walletType |-> stored.walletType]
         ELSE Idle]
  /\ disturbed = FALSE
  /\ reloads = 0

\* Memory goes, storage and wallets stay, and the effects of the first render run;
\* requests in flight are answered to nobody.
Reload ==
  /\ reloads < MaxReloads /\ reloads' = reloads + 1
  /\ checkAuth /\ wallet' = Mounted(ethereum) /\ disturbed' = FALSE
  /\ UNCHANGED <<stored, ethereum, starknet>>

Session(t) ==
  \/ CheckAnswered(t)
  \/ LoginConnects(t) \/ SignThrows(t) \/ SignAnswered(t) \/ LoginAnswered(t)
  \/ LogoutAnswered(t) \/ UpdateAnswered(t)
  \/ PageConnects(t)

\* What the user of the home page does, or a component for the user.
Home(t) ==
  \/ \E walletType \in {"ethereum", "starknet", None} : Login(t, walletType)
  \/ Logout(t) \/ UpdateUser(t)
  \/ \E walletType \in {"ethereum", "starknet"} : connectAndLogin(t, walletType)
  \/ disconnectAndLogout(t)

Hooks(t) ==
  \/ createProposal(t) \/ castVote(t) \/ executeProposal(t) \/ cancelProposal(t)
  \/ deposit(t) \/ withdraw(t)
  \/ ChangeAnswered(t)

WalletActs ==
  /\ \E account \in EthereumAccounts \union {None} : EthereumChanges(account)
  /\ UNCHANGED sessionVars

Next ==
  \/ Reload
  \/ /\ \/ \E t \in Slots : Session(t)
        \/ \E t \in Tasks : Home(t) \/ Hooks(t)
        \/ WalletActs
     /\ UNCHANGED reloads

\* Requests are answered or time out after axios' ten seconds; code that waits for
\* nobody runs. Nothing says which answer comes, and a wallet or a user is not obliged
\* to act.
Fairness ==
  \A t \in Slots :
    /\ WF_vars(CheckAnswered(t) /\ UNCHANGED reloads)
    /\ WF_vars(SignThrows(t) /\ UNCHANGED reloads)
    /\ WF_vars(LoginAnswered(t) /\ UNCHANGED reloads)
    /\ WF_vars(LogoutAnswered(t) /\ UNCHANGED reloads)
    /\ WF_vars(UpdateAnswered(t) /\ UNCHANGED reloads)
    /\ WF_vars(ChangeAnswered(t) /\ UNCHANGED reloads)

Spec == Init /\ [][Next]_vars
FairSpec == Spec /\ Fairness

-----------------------------------------------------------------------------
\* Once the check of the load is over, the page shows a session exactly when a token
\* is stored, and shows the wallet type that is stored with it, whatever answers came
\* late, unless a login failed since over a stored token (disturbed). Of the user it
\* says nothing: the page has none to show.
SessionMatchesToken ==
  tasks["check"] = Idle /\ ~disturbed =>
    /\ auth.isAuthenticated <=> stored.token # None
    /\ auth.isAuthenticated => auth.walletType = stored.walletType

\* A login of the page signs with a wallet: useWalletSelector.ts says "First connect
\* the wallet", "Then login".
ConnectedBeforeSigning ==
  \A t \in Tasks : At(t, "login", "sign") => tasks[t].w.address # None

\* The page never loads for ever, unless the wallet is asked to sign and does not
\* answer.
LoadingSettles ==
  []<>(\/ ~auth.isLoading
       \/ \E t \in Tasks : At(t, "login", "sign") /\ ~CannotSign(tasks[t].w))
=============================================================================
