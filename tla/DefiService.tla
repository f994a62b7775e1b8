---------------------------- MODULE DefiService -----------------------------
(* DefiService and its controller for one pool and one user: a deposit reads *)
(* the pool, sends the transaction, stores its row as pending and saves the  *)
(* total it read plus the amount. The answer it awaits is that of the        *)
(* submission: the chain accepts or reverts the transaction any time later,  *)
(* and nothing in the backend takes a row or a total back. The list of pools *)
(* and the balance are cached for five minutes and never invalidated.        *)
(* Transactions are sent from the backend's own account, so that they never  *)
(* move the balance of the wallet.                                           *)
EXTENDS RedisConnection, Sequences, Functions

CONSTANTS DefiAmounts,
          MaxTransfers   \* bound on the transactions sent

VARIABLES totalValue,    \* the pool's row
          submitted,     \* the amounts sent to the chain, negative for withdrawals; an
                         \* index is the transaction's hash
          transactions,  \* the hashes that have a row, each with the submitted amount
          accepted,      \* the hashes the chain has accepted
          reverted,      \* those it has reverted
          serial         \* history: no movement overlapped another or was cut short

chainVars == <<submitted, accepted, reverted>>
defiVars == <<totalValue, submitted, transactions, accepted, reverted, serial>>

ListKey == <<"pools:list", 0>>
BalanceKey == <<"contract:get_balance", 0>>
Movers == {"deposit", "withdraw"}
Delta(r) == IF requests[r].kind = "deposit" THEN requests[r].amount ELSE -requests[r].amount
Moving == {r \in Requests : requests[r].kind \in Movers}

Moves(r, kind, a) ==
  /\ Len(submitted) + Cardinality(Moving) < MaxTransfers
  /\ Arrive(r, [kind |-> kind, at |-> "getPool", amount |-> a, read |-> 0, hash |-> 0])
  /\ serial' = (serial /\ Moving = {})
  /\ UNCHANGED <<totalValue, chainVars, transactions>>
depositEndpoint(r, a) == Moves(r, "deposit", a)
withdrawEndpoint(r, a) == Moves(r, "withdraw", a)
listPoolsEndpoint(r) ==
  Arrive(r, [kind |-> "listPools", at |-> "get", read |-> 0]) /\ UNCHANGED defiVars
balanceEndpoint(r) ==
  Arrive(r, [kind |-> "balance", at |-> "get", read |-> 0]) /\ UNCHANGED defiVars

-----------------------------------------------------------------------------
\* Both directions: an await that rejects ends the request, with what it has written
\* left as it is.
getPool(r) ==
  /\ At(r, Movers, "getPool")
  /\ Goes(With(r, [requests[r] EXCEPT !.at = "starknet", !.read = totalValue]))
  /\ UNCHANGED defiVars

Fails(r) ==
  /\ requests[r].kind \in Movers
  /\ Goes(With(r, Idle))
  /\ serial' = FALSE
  /\ UNCHANGED <<totalValue, chainVars, transactions>>

\* ContractService.execute returns once the transaction is submitted; a refusal is
\* Fails. The answer may be lost after it.
execute(r) ==
  /\ At(r, Movers, "starknet")
  /\ submitted' = Append(submitted, Delta(r))
  /\ \/ /\ Goes(With(r, [requests[r] EXCEPT !.at = "saveRow", !.hash = Len(submitted) + 1]))
        /\ UNCHANGED serial
     \/ Goes(With(r, Idle)) /\ serial' = FALSE
  /\ UNCHANGED <<totalValue, transactions, accepted, reverted>>

\* The balance of the backend's account on the contract.
Balance == SumFunctionOnSet(submitted, accepted)

\* The chain, any time after the submission: the contract refuses to go below zero, and
\* a transaction may revert for any other reason (no fee, no allowance).
Settle ==
  /\ \E hash \in DOMAIN submitted \ (accepted \union reverted) :
       \/ /\ Balance + submitted[hash] >= 0
          /\ accepted' = accepted \union {hash} /\ UNCHANGED reverted
       \/ reverted' = reverted \union {hash} /\ UNCHANGED accepted
  /\ UNCHANGED <<totalValue, submitted, transactions, serial>>

\* Bug form used by a mutation run: the pool is saved before the transaction's row.
Store_poolFirst(r) ==
  /\ \/ /\ At(r, Movers, "saveRow")
        /\ totalValue' = requests[r].read + Delta(r)
        /\ Goes(Goto(r, "savePool"))
        /\ UNCHANGED transactions
     \/ /\ At(r, Movers, "savePool")
        /\ transactions' = transactions \union {requests[r].hash}
        /\ Goes(With(r, Idle))
        /\ UNCHANGED totalValue
  /\ UNCHANGED <<chainVars, serial>>

Store(r) ==
  /\ \/ /\ At(r, Movers, "saveRow")
        /\ transactions' = transactions \union {requests[r].hash}
        /\ Goes(Goto(r, "savePool"))
        /\ UNCHANGED totalValue
     \/ /\ At(r, Movers, "savePool")
        /\ totalValue' = requests[r].read + Delta(r)
        /\ Goes(With(r, Idle))
        /\ UNCHANGED transactions
  /\ UNCHANGED <<chainVars, serial>>

deposit(r) == requests[r].kind = "deposit" /\ (getPool(r) \/ execute(r) \/ Store(r) \/ Fails(r))
withdraw(r) == requests[r].kind = "withdraw" /\ (getPool(r) \/ execute(r) \/ Store(r) \/ Fails(r))

-----------------------------------------------------------------------------
listPools(r) ==
  /\ requests[r].kind = "listPools"
  /\ \/ requests[r].at = "get" /\ getJson(ListKey, With(r, Idle), Goto(r, "find"))
     \/ requests[r].at = "find"
        /\ Goes(With(r, [requests[r] EXCEPT !.at = "setJson", !.read = totalValue]))
     \/ requests[r].at = "setJson" /\ setJson(ListKey, requests[r].read, With(r, Idle), With(r, Idle))
  /\ UNCHANGED defiVars

\* ContractService.callView: here a failing get is an error answer too, and so is a
\* result that cannot be cached. The wallet's balance is moved by nobody here.
callView(r) ==
  /\ requests[r].kind = "balance"
  /\ \/ requests[r].at = "get" /\ get(BalanceKey, With(r, Idle), Goto(r, "call"), With(r, Idle))
     \/ requests[r].at = "call" /\ Goes(Goto(r, "setJson"))
     \/ requests[r].at = "setJson" /\ setJson(BalanceKey, requests[r].read, With(r, Idle), With(r, Idle))
  /\ UNCHANGED defiVars
getUserPoolBalance(r) == callView(r)
=============================================================================
