------------------------------- MODULE ERC20 -------------------------------
(***************************************************************************)
(* The token contracts the protocol calls.  They are not part of the       *)
(* repository: this module states what the Cairo contracts rely on, the    *)
(* standard token whose transfers move exactly the amount asked for and    *)
(* revert when the sender holds less.  The allowance transferFrom consumes *)
(* is not kept: a missing allowance reverts the whole transaction, which   *)
(* is the same as the transaction not being taken.                         *)
(***************************************************************************)
EXTENDS Naturals

CONSTANTS Tokens,       \* token contract addresses
          Holders       \* addresses that can hold tokens

VARIABLE token_balance  \* token_balance[t][h]: what h holds of t

balance_of(t, h) == token_balance[t][h]

\* Moving an amount from one holder to another (no effect when they are the
\* same address).
Moved(holdings, from, to, amount) ==
    [h \in Holders |-> holdings[h] - (IF h = from THEN amount ELSE 0)
                                   + (IF h = to THEN amount ELSE 0)]

transferFrom(t, from, to, amount) ==
    /\ token_balance[t][from] >= amount
    /\ token_balance' = [token_balance EXCEPT ![t] = Moved(@, from, to, amount)]
=============================================================================
