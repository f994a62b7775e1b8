--------------------------- MODULE WalletSelector ---------------------------
(* useWalletSelector and the buttons of the home page: connecting a wallet    *)
(* logs in next, disconnecting it logs out first. The buttons are those of a  *)
(* render, and so are the functions they call.                                *)
EXTENDS AuthContext

\* isLoading of the hook: the buttons are disabled.
isLoading == \E t \in DOMAIN tasks : tasks[t].kind \in {"login", "logout"} /\ tasks[t].asked = "page"

\* connectAndLogin(type), asked on a page that shows no wallet.
connectAndLogin(t, type) ==
  /\ ~isConnected(wallet) /\ ~isLoading
  /\ Starts(t, LoginTask(wallet, type, "page", "connect"))
  /\ UNCHANGED <<sessionVars, walletVars>>

\* Its connectWallet. The login it calls next is the one of the render that showed
\* no wallet: it asks to connect once more, and signs with the wallet of that render.
PageConnects(t) ==
  /\ At(t, "login", "connect")
  /\ \/ connectWallet(tasks[t].walletType) /\ Goto(t, "reconnect")
     \/ Ends(t) /\ UNCHANGED walletVars
  /\ UNCHANGED sessionVars

\* disconnectAndLogout(): LogoutAnswered disconnects the wallet after a logout.
disconnectAndLogout(t) ==
  /\ isConnected(wallet) /\ ~isLoading
  /\ IF auth.isAuthenticated
       THEN Starts(t, LogoutTask("page")) /\ UNCHANGED walletVars
       ELSE tasks[t] = Idle /\ UNCHANGED tasks /\ disconnectWallet(wallet)
  /\ UNCHANGED sessionVars
=============================================================================
