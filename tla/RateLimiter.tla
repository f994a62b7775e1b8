---------------------------- MODULE RateLimiter -----------------------------
(* RateLimiterService and RateLimitGuard for the requests of one identifier: *)
(* a sorted set for every second, read and written in separate Redis calls.  *)
EXTENDS RedisConnection

CONSTANTS points, duration,  \* the options of the limit, duration in seconds
          MsPerSecond,       \* 1000 in the code
          MaxNow             \* bound on the clock; requests arrive before it

VARIABLE now                 \* Date.now(), in ms

Second(t) == t \div MsPerSecond
generateKey(t) == <<"ratelimit", Second(t)>>
getWindowStart(t) == Second(t) - duration
LimiterKeys == {k \in DOMAIN store : k[1] = "ratelimit"}

\* canActivate up to the first await; a route with skipRateLimit passes untouched.
canActivate(r) ==
  /\ now < MaxNow
  /\ Arrive(r, [kind |-> "limit", at |-> "clean", time |-> now])

\* The rest of canActivate: it reads points of the route's options, which are
\* undefined as the decorator stores them under another key, throws, and the request
\* is answered with an error, whether the limiter allowed it or refused it.
Answered(r) == With(r, Idle)
Refuse(r) == At(r, {"limit"}, "refused") /\ Goes(Answered(r))

-----------------------------------------------------------------------------
\* checkRateLimit, one Redis call a step. An error lets the request pass, except in
\* the count, where it counts as zero. The bound of the cleaning is in seconds and
\* the scores are in ms, so that nothing is removed.
\* Bug form used by a mutation run: one request more than the limit passes.
Decide_oneMore(r, count) == Goto(r, IF count > points THEN "refused" ELSE "add")

Decide(r, count) == Goto(r, IF count >= points THEN "refused" ELSE "add")

Record(r) ==
  LET key == generateKey(requests[r].time) IN
  \/ At(r, {"limit"}, "add") /\ zAdd(key, requests[r].time, Goto(r, "expire"), Answered(r))
  \/ At(r, {"limit"}, "expire") /\ expire(key, Answered(r), Answered(r))

getCurrentCount(r) ==
  LET count == zCount(generateKey(requests[r].time), getWindowStart(requests[r].time)) IN
  Command(store, Decide(r, count), Decide(r, 0))

checkRateLimit(r) ==
  \/ /\ At(r, {"limit"}, "clean")
     /\ zRemRangeByScore(generateKey(requests[r].time), getWindowStart(requests[r].time),
                         Goto(r, "count"), Answered(r))
  \/ At(r, {"limit"}, "count") /\ getCurrentCount(r)
  \/ Record(r)

Tick == now < MaxNow /\ now' = now + 1 /\ UNCHANGED redisVars

\* A set is read no more when its second is over, and expires after its duration.
Over(k) == now >= (k[2] + duration) * MsPerSecond
ExpireWindow(k) == Over(k) /\ Expires(k)
=============================================================================
