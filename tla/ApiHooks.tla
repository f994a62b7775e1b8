------------------------------ MODULE ApiHooks -------------------------------
(* The calls of useGovernance and useVaults that change something: refused on *)
(* the page without a session, sent with the stored token, and answered, as   *)
(* any request of api.ts is, with or without a 401 that ends the session. The *)
(* lists the hooks show, and the fetch of them after a change, read and write *)
(* nothing of the session and are left out.                                   *)
EXTENDS AuthContext

Asks(t) ==
  /\ auth.isAuthenticated
  /\ Starts(t, [kind |-> "change", at |-> "sent", token |-> stored.token])
  /\ UNCHANGED <<sessionVars, walletVars>>
createProposal(t)  == Asks(t)
castVote(t)        == Asks(t)
executeProposal(t) == Asks(t)
cancelProposal(t)  == Asks(t)
deposit(t)         == Asks(t)
withdraw(t)        == Asks(t)

\* Done or refused by the route's own checks, of which the hook tells the user.
ChangeAnswered(t) ==
  /\ At(t, "change", "sent") /\ Ends(t)
  /\ \E status \in profile(tasks[t].token) : Fails(status)
  /\ UNCHANGED walletVars
=============================================================================
