---------------------------- MODULE OracleMirror ----------------------------
(* CDROracleService and its controller: the metrics of a pool, which one save *)
(* writes column by column, and the correlation of a pair of pools.          *)
EXTENDS MirrorDatabase

Columns == {"tvl", "volatility", "yieldRate"}
MetricsUpdated(p, metrics) == [name |-> "MetricsUpdated", pool |-> p, metrics |-> metrics]
CorrelationUpdated(p, q, c) ==
  [name |-> "CorrelationUpdated", pair |-> <<p, q>>, correlation |-> c]
MetricsEvents(p) == {i \in DOMAIN log : log[i].name = "MetricsUpdated" /\ log[i].pool = p}
PairEvents(pairs) == {i \in DOMAIN log : log[i].name = "CorrelationUpdated" /\ log[i].pair \in pairs}

-----------------------------------------------------------------------------
\* Reads of the contract: zeros until something is written, and a correlation is
\* the same in both directions.
getPoolMetrics(p) ==
  IF MetricsEvents(p) = {} THEN [c \in Columns |-> 0] ELSE Latest(MetricsEvents(p)).metrics
getCorrelation(p, q) ==
  LET both == PairEvents({<<p, q>>, <<q, p>>}) IN
  IF both = {} THEN 0 ELSE Latest(both).correlation
getPoolYield(p) == getPoolMetrics(p).yieldRate * getPoolMetrics(p).tvl

\* Reads of the tables.
getAllPoolMetrics == db.metrics
getAllCorrelations == db.correlations

metricsEndpoint(p) == getPoolMetrics(p)
correlationEndpoint(p, q) == getCorrelation(p, q)
yieldEndpoint(p) == getPoolYield(p)

-----------------------------------------------------------------------------
\* save reads the row again and updates only the columns in which the entity
\* differs from what it read; a row that was not there is inserted.
Merged(row, read, entity) == [c \in Columns |-> IF entity[c] # read[c] THEN entity[c] ELSE row[c]]

onMetricsUpdated(j) ==
  LET p == jobs[j].ev.pool  entity == jobs[j].ev.metrics  read == jobs[j].found IN
  /\ jobs[j].kind = "onMetricsUpdated"
  /\ \/ jobs[j].at = "find" /\ Reads(j, "load", FindOne(db.metrics, p))
     \/ jobs[j].at = "load" /\ Reads(j, "write", FindOne(db.metrics, p))
     \/ /\ jobs[j].at = "write"
        /\ IF read # <<>>
             THEN Writes(j, "metrics", [db.metrics EXCEPT ![p] = Merged(@, read[1], entity)])
             ELSE IF HasPool(p) /\ p \notin DOMAIN db.metrics
                    THEN Writes(j, "metrics", Put(db.metrics, p, entity))
                    ELSE Ends(j)

\* The row of one direction is found and written; that of the other is left alone.
onCorrelationUpdated(j) ==
  LET e == jobs[j].ev IN
  /\ jobs[j].kind = "onCorrelationUpdated"
  /\ \/ jobs[j].at = "find" /\ Reads(j, "save", FindOne(db.correlations, e.pair))
     \/ jobs[j].at = "save" /\ Writes(j, "correlations", Put(db.correlations, e.pair, e.correlation))

-----------------------------------------------------------------------------
\* Transactions: each changes one column of the contract's metrics, and the event
\* carries all three.
ChangesColumn(p, c, v) ==
  Emits(MetricsUpdated(p, [getPoolMetrics(p) EXCEPT ![c] = v]), "onMetricsUpdated", "find", HasPool(p))

updatePoolMetrics(p, a, isDeposit) ==
  LET tvl == getPoolMetrics(p).tvl IN
  /\ isDeposit \/ tvl >= a
  /\ ChangesColumn(p, "tvl", IF isDeposit THEN tvl + a ELSE tvl - a)
updateVolatility(p, v) == ChangesColumn(p, "volatility", v)
updateYieldRate(p, y) == ChangesColumn(p, "yieldRate", y)
updateCorrelation(p, q, c) ==
  Emits(CorrelationUpdated(p, q, c), "onCorrelationUpdated", "find", TRUE)

updateMetricsEndpoint(p, a, isDeposit) == updatePoolMetrics(p, a, isDeposit)
updateVolatilityEndpoint(p, v) == updateVolatility(p, v)
updateYieldRateEndpoint(p, y) == updateYieldRate(p, y)
updateCorrelationEndpoint(p, q, c) == updateCorrelation(p, q, c)
=============================================================================
