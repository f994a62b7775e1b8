---------------------------- MODULE VaultMirror -----------------------------
(* VaultManagerService and its controller: the handlers of the vault's       *)
(* events, the endpoints that send transactions, and the answers they give   *)
(* from the mirrored tables or from the contract.                            *)
EXTENDS MirrorDatabase

VaultEvent(name, u, p, a) == [name |-> name, user |-> u, pool |-> p, amount |-> a]
Deposit(u, p, a) == VaultEvent("Deposit", u, p, a)
Withdrawal(u, p, a) == VaultEvent("Withdrawal", u, p, a)
Moves(e) == e.name \in {"Deposit", "Withdrawal"}
Delta(e) == IF e.name = "Deposit" THEN e.amount ELSE -e.amount

\* The log's positions at which something moved in a pool, or a user's part of it.
PoolEvents(p) == {i \in DOMAIN log : Moves(log[i]) /\ log[i].pool = p}
UserEvents(u, p) == {i \in PoolEvents(p) : log[i].user = u}
Deltas(events) == [i \in events |-> Delta(log[i])]

-----------------------------------------------------------------------------
\* Reads of the service: from the contract ...
getBalance(u, p) == SumFunction(Deltas(UserEvents(u, p)))
getTotalSupply(p) == SumFunction(Deltas(PoolEvents(p)))

\* ... and from the tables.
getPool(p) == FindOne(db.pools, p)
getPools == {[pool |-> p, supply |-> db.pools[p].supply] : p \in DOMAIN db.pools}
getPoolBalances(u) ==
  {[pool |-> k[1], balance |-> db.balances[k].balance, supply |-> getPool(k[1])[1].supply] :
     k \in {b \in DOMAIN db.balances : b[2] = u}}

\* The controller's answers: <<>> is 404, <<v>> is the value v.
poolsEndpoint == <<getPools>>
poolEndpoint(p) == getPool(p)
balancesEndpoint(u) == <<getPoolBalances(u)>>
balanceEndpoint(u, p) == IF getPool(p) = <<>> THEN <<>> ELSE <<getBalance(u, p)>>
totalSupplyEndpoint(p) == IF getPool(p) = <<>> THEN <<>> ELSE <<getTotalSupply(p)>>

-----------------------------------------------------------------------------
\* A handler's balance after the event: added to the row it found, or a new row's.
Moved(j) == (IF jobs[j].found = <<>> THEN 0 ELSE jobs[j].found[1].balance) + Delta(jobs[j].ev)

SaveBalance(j, key) ==
  IF HasPool(key[1])
    THEN /\ db' = [db EXCEPT !.balances = Put(@, key, [balance |-> Moved(j)])]
         /\ Goto(j, "findPool", <<>>)
         /\ UNCHANGED <<log, subscribed, tidy>>
    ELSE Ends(j)

\* The second half of both handlers: find the pool, write the total supply.
MoveSupply(j) ==
  LET p == jobs[j].ev.pool  found == jobs[j].found IN
  \/ /\ jobs[j].at = "findPool"
     /\ IF HasPool(p) THEN Reads(j, "savePool", getPool(p)) ELSE Ends(j)
  \/ /\ jobs[j].at = "savePool"
     /\ Writes(j, "pools", [db.pools EXCEPT ![p].supply = found[1].supply + Delta(jobs[j].ev)])

\* Bug form used by a mutation run: the row is looked up by its user alone.
onDeposit_anyPool(j) ==
  LET e == jobs[j].ev
      mine == {k \in DOMAIN db.balances : k[2] = e.user} IN
  /\ jobs[j].kind = "onDeposit"
  /\ \/ /\ jobs[j].at = "findBalance"
        /\ IF mine = {} THEN Reads(j, "saveBalance", <<>>)
           ELSE \E k \in mine : Reads(j, "saveBalance", <<db.balances[k]>>)
     \/ jobs[j].at = "saveBalance" /\ SaveBalance(j, <<e.pool, e.user>>)
     \/ MoveSupply(j)

onDeposit(j) ==
  LET key == <<jobs[j].ev.pool, jobs[j].ev.user>> IN
  /\ jobs[j].kind = "onDeposit"
  /\ \/ jobs[j].at = "findBalance" /\ Reads(j, "saveBalance", FindOne(db.balances, key))
     \/ jobs[j].at = "saveBalance" /\ SaveBalance(j, key)
     \/ MoveSupply(j)

\* A withdrawal of a user without a row creates none.
onWithdrawal(j) ==
  LET key == <<jobs[j].ev.pool, jobs[j].ev.user>>
      found == FindOne(db.balances, key) IN
  /\ jobs[j].kind = "onWithdrawal"
  /\ \/ jobs[j].at = "findBalance" /\ Reads(j, IF found = <<>> THEN "findPool" ELSE "saveBalance", found)
     \/ jobs[j].at = "saveBalance" /\ SaveBalance(j, key)
     \/ MoveSupply(j)

\* save of a pool found missing: the insert has no value for the NOT NULL column
\* "strategy" and is refused; when the row has appeared since, its token and its
\* totalSupply '0' overwrite the row's.
SaveNewPool(j, p) ==
  IF HasPool(p) THEN Writes(j, "pools", [db.pools EXCEPT ![p].supply = 0]) ELSE Ends(j)

FindPool(j, p) == IF HasPool(p) THEN Ends(j) ELSE Reads(j, "savePool", <<>>)

onPoolAdded(j) ==
  \/ At(j, "onVaultPoolAdded", "findPool") /\ FindPool(j, jobs[j].ev.pool)
  \/ At(j, "onVaultPoolAdded", "savePool") /\ SaveNewPool(j, jobs[j].ev.pool)

-----------------------------------------------------------------------------
\* Transactions: the service's calls of the contract, whose event comes back.
deposit(u, p, a, foreseen) == Emits(Deposit(u, p, a), "onDeposit", "findBalance", foreseen)
withdraw(u, p, a, foreseen) ==
  /\ getBalance(u, p) >= a
  /\ Emits(Withdrawal(u, p, a), "onWithdrawal", "findBalance", foreseen)

depositEndpoint(u, p, a) == getPool(p) # <<>> /\ deposit(u, p, a, TRUE)
withdrawEndpoint(u, p, a) ==
  /\ getPool(p) # <<>>
  /\ getBalance(u, p) >= a
  /\ withdraw(u, p, a, TRUE)

\* The pool is on the contract before anything moves in it.
addPoolEndpoint(p) ==
  /\ getPool(p) = <<>>
  /\ \A i \in 1..Len(log) : log[i].pool # p
  /\ Calls(VaultEvent("PoolAdded", "admin", p, 0), "addVaultPool", "tx")

addPool(c) ==
  \/ At(c, "addVaultPool", "tx") /\ Transacts(c, "onVaultPoolAdded", "findPool", "findPool")
  \/ At(c, "addVaultPool", "findPool") /\ FindPool(c, jobs[c].ev.pool)
  \/ At(c, "addVaultPool", "savePool") /\ SaveNewPool(c, jobs[c].ev.pool)

\* Users of the contract who do not come through this backend.
MovedElsewhere(u, p, a) == deposit(u, p, a, HasPool(p)) \/ withdraw(u, p, a, TRUE)
=============================================================================
