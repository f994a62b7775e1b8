--------------------------- MODULE StrategyMirror ---------------------------
(* StrategyRegistryService and its controller. Its handlers listen to the    *)
(* event emitter of EventListenerService, whose emit delivers the events.    *)
EXTENDS MirrorDatabase

RegistryEvent(name, p, active, min, max) ==
  [name |-> name, pool |-> p, active |-> active, min |-> min, max |-> max]

\* The contract's pool: add_pool stores the limits it is given, an update replaces
\* them, and an id that was never added reads as zeros.
Executions == {i \in DOMAIN log : log[i].name = "StrategyExecuted"}
Changes(p) ==
  {i \in DOMAIN log : log[i].name \in {"RegistryPoolAdded", "PoolUpdated"} /\ log[i].pool = p}
Known(p) == Changes(p) # {}
Settings(p) ==
  IF Known(p) THEN Latest(Changes(p)) ELSE RegistryEvent("none", p, FALSE, 0, 0)

-----------------------------------------------------------------------------
\* Reads: the contract's pool, its validity test, and the tables.
getPool(p) == Settings(p)
isValidDeposit(p, a) == LET s == Settings(p) IN s.active /\ a >= s.min /\ a <= s.max
getPools(active) == {p \in DOMAIN db.pools : db.pools[p].active = active}
getStrategyExecutions(p) == {i \in DOMAIN db.executions : db.executions[i].pool = p}

\* The contract answers with a pool for every id, so that no 404 is ever given.
poolsEndpoint(active) == getPools(active)
poolEndpoint(p) == getPool(p)
executionsEndpoint(p) == getStrategyExecutions(p)

\* The reason is looked for only when the contract refuses the deposit, in the order
\* of the code; a capacity of 0 is taken for no capacity.
Reason(s, a) ==
  IF a < s.min THEN "below minimum"
  ELSE IF s.max # 0 /\ a > s.max THEN "above capacity"
  ELSE IF ~s.active THEN "inactive" ELSE "none"
validDepositEndpoint(p, a) ==
  [isValid |-> isValidDeposit(p, a),
   reason  |-> IF isValidDeposit(p, a) THEN "none" ELSE Reason(getPool(p), a)]

-----------------------------------------------------------------------------
\* PoolAdded: saved without a look at what is there, active and without limits.
onPoolAdded(j) ==
  LET p == jobs[j].ev.pool
      supply == IF HasPool(p) THEN db.pools[p].supply ELSE 0 IN
  /\ At(j, "onRegistryPoolAdded", "save")
  /\ Writes(j, "pools", Put(db.pools, p, [supply |-> supply, active |-> TRUE, min |-> 0, max |-> 0]))

\* PoolUpdated: one UPDATE statement, of no row when the pool is not there.
onPoolUpdated(j) ==
  LET e == jobs[j].ev IN
  /\ At(j, "onPoolUpdated", "update")
  /\ IF HasPool(e.pool)
       THEN Writes(j, "pools", [db.pools EXCEPT ![e.pool].active = e.active,
                                                ![e.pool].min = e.min, ![e.pool].max = e.max])
       ELSE Ends(j)

\* StrategyExecuted: the entity's id is 0 and nothing sets it, so that every save
\* after the first updates row 0.
onStrategyExecuted(j) ==
  /\ At(j, "onStrategyExecuted", "save")
  /\ Writes(j, "executions", Put(db.executions, 0, [pool |-> jobs[j].ev.pool]))

subscribeToEvents(j) == onPoolAdded(j) \/ onPoolUpdated(j) \/ onStrategyExecuted(j)

-----------------------------------------------------------------------------
\* Transactions. Neither the event nor the mirror of a new pool has its limits.
addPool(p, min, max) ==
  /\ ~Known(p)
  /\ Emits(RegistryEvent("RegistryPoolAdded", p, TRUE, min, max), "onRegistryPoolAdded", "save",
           min = 0 /\ max = 0)
updatePool(p, active, min, max) ==
  /\ Known(p)
  /\ Emits(RegistryEvent("PoolUpdated", p, active, min, max), "onPoolUpdated", "update", TRUE)

\* One transaction of the engine executes the strategy of each active pool.
executeRebalance(p) ==
  /\ Settings(p).active
  /\ Emits(RegistryEvent("StrategyExecuted", p, TRUE, 0, 0), "onStrategyExecuted", "save", TRUE)

addPoolEndpoint(p, min, max) == addPool(p, min, max)
updatePoolEndpoint(p, active, min, max) == updatePool(p, active, min, max)
=============================================================================
