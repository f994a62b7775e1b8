----------------------------- MODULE YieldMirror ----------------------------
(* YieldEngineService and its controller. Its handlers rethrow what they     *)
(* catch: nobody waits for them, and an unhandled rejection ends the process. *)
EXTENDS MirrorDatabase

Rebalanced(weights) == [name |-> "Rebalanced", weights |-> weights]
YieldHarvested(p, a) == [name |-> "YieldHarvested", pool |-> p, amount |-> a]
Rebalances == {i \in DOMAIN log : log[i].name = "Rebalanced"}

-----------------------------------------------------------------------------
\* findOne without an order: any row of the pool.
RowsOf(p) == {i \in DOMAIN db.weights : db.weights[i].pool = p}
getPoolWeight(p) == {db.weights[i].weight : i \in RowsOf(p)}
getPoolCount == PoolCount
poolExists(p) == p >= 0 /\ p < getPoolCount

\* The answers the endpoint can give; the empty set is 404.
weightEndpoint(p) == getPoolWeight(p)

-----------------------------------------------------------------------------
\* One save after the other, each a new row; the weight at index i is pool i's.
\* found holds the weights already saved.
onRebalanced(j) ==
  LET weights == jobs[j].ev.weights  i == Len(jobs[j].found) IN
  /\ At(j, "onRebalanced", "save")
  /\ IF i = Len(weights) THEN Ends(j)
     ELSE IF HasPool(i)
       THEN /\ db' = [db EXCEPT !.weights = Append(@, [pool |-> i, weight |-> weights[i+1]])]
            /\ Goto(j, "save", Append(jobs[j].found, weights[i+1]))
            /\ UNCHANGED <<log, subscribed, tidy>>
       ELSE Crash

onYieldHarvested(j) ==
  LET e == jobs[j].ev IN
  /\ At(j, "onYieldHarvested", "save")
  /\ IF HasPool(e.pool)
       THEN Writes(j, "harvests", Append(db.harvests, [pool |-> e.pool, amount |-> e.amount]))
       ELSE Crash

HandlerRejects(j) == Running(j) /\ Crash

-----------------------------------------------------------------------------
\* Transactions and the controller's checks before them.
rebalance(weights) ==
  /\ weights # <<>>
  /\ Emits(Rebalanced(weights), "onRebalanced", "save", \A i \in 1..Len(weights) : HasPool(i-1))
rebalanceEndpoint(weights) == Len(weights) = getPoolCount /\ rebalance(weights)

harvestYield(p, a) == Emits(YieldHarvested(p, a), "onYieldHarvested", "save", HasPool(p))
harvestEndpoint(p, a) == poolExists(p) /\ harvestYield(p, a)
=============================================================================
