---------------------------- MODULE BackendRedis ----------------------------
(* The services that stand on RedisService. Each Nest module has a connection *)
(* of its own, and a behaviour exercises one of them, or one of the series   *)
(* of the analytics, which share no key.                                     *)
EXTENDS RedisConnection, Sequences, Functions

CONSTANTS Services, points, duration, MsPerSecond, MaxNow, MaxRows, DefiAmounts, MaxTransfers

ASSUME LimiterAssumption == points \in Nat /\ duration \in Nat \ {0} /\ MsPerSecond \in Nat \ {0}
ASSUME DefiAssumption == DefiAmounts \subseteq Int

VARIABLES service, now, rows, overlap, totalValue, submitted, transactions, accepted, reverted, serial

limiterVars == <<now>>
analyticsVars == <<rows, overlap>>
chainVars == <<submitted, accepted, reverted>>
defiVars == <<totalValue, submitted, transactions, accepted, reverted, serial>>
vars == <<redisVars, service, limiterVars, analyticsVars, defiVars>>

Limiter == INSTANCE RateLimiter
Analytics == INSTANCE AnalyticsService
Defi == INSTANCE DefiService

Init ==
  /\ RedisInit
  /\ service \in Services
  /\ now = 0
  /\ rows = [s \in Analytics!Series |-> 0] /\ overlap = {}
  /\ totalValue = 0 /\ submitted = <<>> /\ transactions = {} /\ accepted = {} /\ reverted = {}
  /\ serial = TRUE

-----------------------------------------------------------------------------
\* Transfers use no key: their connection, once ready, is left alone.
Connection ==
  \/ Ready \/ Restart
  \/ service # "transfers" /\ (ServerDown \/ ServerUp \/ ReconnectTimer)

LimiterSteps(r) == Limiter!checkRateLimit(r) \/ Limiter!Refuse(r)
AnalyticsSteps(r) ==
  \/ Analytics!getPoolMetrics(r) \/ Analytics!getCorrelations(r) \/ Analytics!getCDRMetrics(r)
  \/ Analytics!updateMetrics(r) \/ Analytics!updateCorrelations(r) \/ Analytics!updateCDR(r)
TransferSteps(r) == Defi!deposit(r) \/ Defi!withdraw(r)
ViewSteps(r) == Defi!listPools(r) \/ Defi!getUserPoolBalance(r)

LimiterNext ==
  /\ service = "limiter"
  /\ \/ Limiter!Tick
     \/ /\ \/ \E r \in Requests : Limiter!canActivate(r) \/ LimiterSteps(r)
           \/ \E k \in DOMAIN store : Limiter!ExpireWindow(k)
        /\ UNCHANGED now
  /\ UNCHANGED <<analyticsVars, defiVars>>
AnalyticsNext ==
  /\ service \in Analytics!Series
  /\ \/ \E r \in Requests :
          \/ Analytics!getEndpoint(r, service) \/ Analytics!updateEndpoint(r, service)
          \/ AnalyticsSteps(r) \/ Analytics!QueryFails(r)
     \/ \E k \in DOMAIN store : Expires(k) /\ UNCHANGED analyticsVars
  /\ UNCHANGED <<limiterVars, defiVars>>
TransferNext ==
  /\ service = "transfers"
  /\ \/ \E r \in Requests :
          \/ \E a \in DefiAmounts : Defi!depositEndpoint(r, a) \/ Defi!withdrawEndpoint(r, a)
          \/ TransferSteps(r)
     \/ Defi!Settle /\ UNCHANGED redisVars
  /\ UNCHANGED <<limiterVars, analyticsVars>>
ViewNext ==
  /\ service = "views"
  /\ \/ \E r \in Requests : Defi!listPoolsEndpoint(r) \/ Defi!balanceEndpoint(r) \/ ViewSteps(r)
     \/ \E k \in DOMAIN store : Expires(k) /\ UNCHANGED defiVars
  /\ UNCHANGED <<limiterVars, analyticsVars>>

Next ==
  /\ UNCHANGED service
  /\ \/ Connection /\ UNCHANGED <<limiterVars, analyticsVars>>
        /\ UNCHANGED <<totalValue, chainVars, transactions>>
        /\ serial' = (serial /\ (client' = "connecting" => Quiet))
     \/ LimiterNext \/ AnalyticsNext \/ TransferNext \/ ViewNext

Spec == Init /\ [][Next]_vars

RequestStep(r) ==
  /\ Running(r)
  /\ UNCHANGED <<service, now>>
  /\ \/ service = "limiter" /\ LimiterSteps(r) /\ UNCHANGED <<analyticsVars, defiVars>>
     \/ service \in Analytics!Series /\ AnalyticsSteps(r) /\ UNCHANGED defiVars
     \/ service = "transfers" /\ TransferSteps(r) /\ UNCHANGED analyticsVars
     \/ service = "views" /\ ViewSteps(r) /\ UNCHANGED analyticsVars

\* The client tries again for ever, Node runs timers that are due, and every await of
\* a request is settled: by Redis, the database or the node.
Fairness ==
  /\ WF_vars(Ready /\ UNCHANGED <<service, limiterVars, analyticsVars, defiVars>>)
  /\ WF_vars(ReconnectTimer /\ UNCHANGED <<service, limiterVars, analyticsVars, defiVars>>)
  /\ \A r \in Requests : WF_vars(RequestStep(r))
FairSpec == Spec /\ Fairness

-----------------------------------------------------------------------------
\* As long as no operation was rejected: the set of a second never holds more members
\* than the limit plus the requests that can have counted before the others added
\* (members, not admitted requests: those of one millisecond add the same one), a
\* refused request finds it full until its duration is over (then it may expire, and
\* a late request start it anew), and every set has its expiry or a request about to
\* set it.
LimitPerSecond ==
  ~disturbed =>
    /\ \A k \in Limiter!LimiterKeys :
         /\ Cardinality(Members(k)) <= points + Cardinality(Requests) - 1
         /\ store[k].expires \/ \E r \in Requests : At(r, {"limit"}, "expire")
                                                    /\ Limiter!generateKey(requests[r].time) = k
    /\ \A r \in Requests :
         LET key == Limiter!generateKey(requests[r].time) IN
         At(r, {"limit"}, "refused") => Limiter!Over(key) \/ Cardinality(Members(key)) >= points

\* A cached series is the table's, whatever reads overlap each other, as long as no
\* update of the series ran beside another request of it, and no operation of Redis
\* was rejected (which leaves a saved row with its key not deleted).
CachedSeriesFresh ==
  ~disturbed =>
    \A s \in Analytics!Series \ overlap :
      /\ Analytics!Key(s) \in DOMAIN store
      /\ \A r \in Requests : ~Analytics!Of(r, {"update"}, s)
      => store[Analytics!Key(s)].value = rows[s]

\* However deposits and withdrawals overlap and fail, the total of the pool is the sum
\* of some of the stored transactions: an amount may be lost to a stale read, but none
\* is counted without its row. One at a time every submitted transaction has its row
\* and is counted, whatever became of it: the total differs from the contract's balance
\* by the transactions that are still pending and those that reverted.
TotalsFollowRows ==
  /\ \E counted \in SUBSET transactions : totalValue = SumFunctionOnSet(submitted, counted)
  /\ serial /\ Defi!Moving = {} =>
       /\ transactions = DOMAIN submitted
       /\ totalValue = SumFunctionOnSet(submitted, accepted)
                       + SumFunctionOnSet(submitted, DOMAIN submitted \ accepted)

\* Every request is answered, even while Redis is away for good: an operation that
\* finds the flag down is rejected at once and waits for nothing.
Answered == \A r \in Requests : Running(r) ~> ~Running(r)

\* An outage during which no operation ran and no timer was left over heals by itself.
QuietOutageHeals == <>[]serverUp => []<>(isConnected \/ disturbed)

\* The warning of every operation promises an attempt to reconnect: once the server
\* stays up, the service is connected again.
Reconnects == <>[]serverUp => []<>isConnected
=============================================================================
