--------------------------- MODULE BackendMirror ----------------------------
(* The five services that mirror the contracts into one database. A          *)
(* behaviour exercises the services of one family: the families share no     *)
(* table but pools, whose rows only the first family changes.                *)
EXTENDS MirrorDatabase

CONSTANTS Families, WeightArrays,
          Limits,   \* pairs <<min, max>> a pool is given
          Rates     \* volatilities and yield rates

VARIABLE family
vars == <<mirrorVars, family>>

Vault == INSTANCE VaultMirror
Strategy == INSTANCE StrategyMirror
Reward == INSTANCE RewardMirror
Oracle == INSTANCE OracleMirror
Yield == INSTANCE YieldMirror

Init == MirrorInit /\ family \in Families

-----------------------------------------------------------------------------
Calling(u, p, a) ==
  \/ Vault!depositEndpoint(u, p, a)
  \/ Vault!withdrawEndpoint(u, p, a)
  \/ Vault!MovedElsewhere(u, p, a)

VaultCalls ==
  \/ \E u \in Users, p \in Pools, a \in Amounts : Calling(u, p, a)
  \/ \E p \in Pools : Vault!addPoolEndpoint(p)
VaultSteps ==
  \E j \in Jobs : \/ Vault!onDeposit(j)
                  \/ Vault!onWithdrawal(j)
                  \/ Vault!onPoolAdded(j)
                  \/ Vault!addPool(j)
                  \/ QueryFails(j)

RegistryCalls ==
  \E p \in Pools :
    \/ \E l \in Limits :
         \/ Strategy!addPoolEndpoint(p, l[1], l[2])
         \/ \E active \in BOOLEAN : Strategy!updatePoolEndpoint(p, active, l[1], l[2])
    \/ Strategy!executeRebalance(p)
RegistrySteps == \E j \in Jobs : Strategy!subscribeToEvents(j) \/ QueryFails(j)

RewardCalls ==
  \E u \in Users :
    \/ \E a \in Amounts : Reward!distributeEndpoint(u, a)
    \/ Reward!claimEndpoint(u)
    \/ Reward!authorizeDistributorEndpoint(u)
    \/ Reward!revokeDistributorEndpoint(u)
RewardSteps ==
  \E j \in Jobs : \/ Reward!onRewardDistributed(j)
                  \/ Reward!onRewardClaimed(j)
                  \/ Reward!onDistributorAuthorized(j)
                  \/ Reward!onDistributorRevoked(j)
                  \/ Reward!authorizeDistributor(j)
                  \/ Reward!revokeDistributor(j)
                  \/ QueryFails(j)

OracleCalls ==
  \E p \in Pools :
    \/ \E a \in Amounts, isDeposit \in BOOLEAN : Oracle!updateMetricsEndpoint(p, a, isDeposit)
    \/ \E r \in Rates : Oracle!updateVolatilityEndpoint(p, r) \/ Oracle!updateYieldRateEndpoint(p, r)
    \/ \E q \in Pools \ {p}, c \in Amounts : Oracle!updateCorrelationEndpoint(p, q, c)
OracleSteps ==
  \E j \in Jobs : Oracle!onMetricsUpdated(j) \/ Oracle!onCorrelationUpdated(j) \/ QueryFails(j)

YieldCalls ==
  \/ \E weights \in WeightArrays : Yield!rebalanceEndpoint(weights)
  \/ \E p \in Pools, a \in Amounts : Yield!harvestEndpoint(p, a)
YieldSteps ==
  \E j \in Jobs : Yield!onRebalanced(j) \/ Yield!onYieldHarvested(j) \/ Yield!HandlerRejects(j)

Next ==
  /\ UNCHANGED family
  /\ \/ onModuleInit
     \/ Crash
     \/ family = "vault" /\ (VaultCalls \/ VaultSteps \/ \E p \in Pools : Strategy!addPoolEndpoint(p, 0, 0))
     \/ family = "vault" /\ \E j \in Jobs : Strategy!onPoolAdded(j)
     \/ family = "registry" /\ (RegistryCalls \/ RegistrySteps)
     \/ family = "reward" /\ (RewardCalls \/ RewardSteps)
     \/ family = "oracle" /\ (OracleCalls \/ OracleSteps)
     \/ family = "yield" /\ (YieldCalls \/ YieldSteps)

Spec == Init /\ [][Next]_vars

-----------------------------------------------------------------------------
\* When every event was handled alone, to its end, in a subscribed process, the
\* balances and the total supplies the service lists from its tables are those its
\* chain reads answer with: the balance of a user and the supply of a pool. It
\* holds of events sent by the endpoints even for pools the table did not have,
\* because the endpoints refuse those.
SerialVaultMirror ==
  tidy /\ Quiet =>
    \A p \in DOMAIN db.pools :
      /\ <<db.pools[p].supply>> = Vault!totalSupplyEndpoint(p)
      /\ \A u \in Users :
           LET rows == {r \in Vault!getPoolBalances(u) : r.pool = p} IN
           IF rows = {} THEN Vault!balanceEndpoint(u, p) = <<0>>
           ELSE \A r \in rows : Vault!balanceEndpoint(u, p) = <<r.balance>>

\* The sums that some of the events amount to.
SumsOfSome(events) == {SumFunction(Vault!Deltas(some)) : some \in SUBSET events}

\* However handlers overlap, fail or are lost with the process, a stored balance is
\* the sum of some of that user's events in that pool, and a stored supply the sum
\* of some of the pool's: an event can be missed or its effect overwritten by a
\* stale read, but none is counted twice or to another row.
VaultRowsFromEvents ==
  /\ \A k \in DOMAIN db.balances :
       db.balances[k].balance \in SumsOfSome(Vault!UserEvents(k[2], k[1]))
  /\ \A p \in DOMAIN db.pools : db.pools[p].supply \in SumsOfSome(Vault!PoolEvents(p))

\* After events handled one at a time: the mirrored pools carry the contract's
\* settings, a deposit refused as inactive is refused for a pool that is listed as
\* inactive, and the list of executions holds the latest execution and no other.
SerialRegistryMirror ==
  family = "registry" /\ tidy /\ Quiet =>
    \A p \in Pools :
      /\ Strategy!Known(p) =>
           /\ p \in Strategy!poolsEndpoint(Strategy!poolEndpoint(p).active)
           /\ db.pools[p].min = Strategy!poolEndpoint(p).min
           /\ db.pools[p].max = Strategy!poolEndpoint(p).max
           /\ \A a \in Amounts : Strategy!validDepositEndpoint(p, a).reason = "inactive"
                                 => p \in Strategy!poolsEndpoint(FALSE)
      /\ Strategy!Executions # {} =>
           (Strategy!executionsEndpoint(p) # {} <=> Latest(Strategy!Executions).pool = p)

\* After rewards, claims, authorizations and revocations requested one at a time,
\* the rows of a user that are not claimed add up to what the contract holds for
\* the user, and the listed distributors are the authorized ones. An endpoint and
\* the handler of the event its own transaction caused do overlap here, find and
\* save the same row, and may both insert one.
SerialRewardMirror ==
  family = "reward" /\ tidy /\ Quiet =>
    \A u \in Users :
      /\ Reward!userRewardsEndpoint(u).totalUnclaimed = Reward!rewardsEndpoint(u)
      /\ u \in Reward!distributorsEndpoint <=> Reward!distributorEndpoint(u)

\* The statistics never show more rewards, claimed and unclaimed, than the contract
\* distributed, whatever handlers overlap or are lost.
StatsWithinTotal ==
  LET stats == Reward!getRewardStats IN
  stats.totalClaimed + stats.totalUnclaimed <= Reward!totalDistributedEndpoint

\* After updates handled one at a time, of pools that have a row, the table holds
\* the contract's metrics, and for the direction of the latest update of a pair its
\* correlation.
SerialOracleMirror ==
  family = "oracle" /\ tidy /\ Quiet =>
    /\ \A p \in DOMAIN Oracle!getAllPoolMetrics :
         /\ Oracle!getAllPoolMetrics[p] = Oracle!metricsEndpoint(p)
         /\ Oracle!getAllPoolMetrics[p].yieldRate * Oracle!getAllPoolMetrics[p].tvl = Oracle!yieldEndpoint(p)
    /\ \A p \in Pools : Oracle!MetricsEvents(p) # {} => p \in DOMAIN Oracle!getAllPoolMetrics
    /\ \A p, q \in Pools :
         LET latest == Oracle!PairEvents({<<p, q>>, <<q, p>>}) IN
         latest # {} =>
           Oracle!getAllCorrelations[Latest(latest).pair] = Oracle!correlationEndpoint(p, q)

\* The mirror of every family agrees with the contract once its events were handled
\* one at a time: the part of a family speaks of its own tables only.
SerialMirror ==
  SerialVaultMirror /\ SerialRegistryMirror /\ SerialRewardMirror /\ SerialOracleMirror

\* However handlers overlap and the process dies, a pool never has more weight rows
\* than there were rebalances, every answer the weight endpoint can give was sent for
\* that pool, and a pool has at least as many rows as the pool after it: a rebalance
\* is stored in the order of its weights, up to the pool that is missing.
WeightRowsFollowEvents ==
  \A p \in Pools :
    /\ Cardinality(Yield!RowsOf(p)) <= Cardinality(Yield!Rebalances)
    /\ \A w \in Yield!weightEndpoint(p) : \E i \in Yield!Rebalances : log[i].weights[p+1] = w
    /\ p + 1 \in Pools => Cardinality(Yield!RowsOf(p)) >= Cardinality(Yield!RowsOf(p + 1))

\* What stays true of the tables when handlers and endpoints overlap, fail or die with
\* the process between two awaits: no event is counted twice or to another row, the
\* statistics stay within what was distributed, and weights were sent.
RacedMirror == VaultRowsFromEvents /\ StatsWithinTotal /\ WeightRowsFollowEvents
=============================================================================
