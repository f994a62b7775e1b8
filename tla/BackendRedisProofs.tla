------------------------- MODULE BackendRedisProofs --------------------------
(***************************************************************************)
(* What the services on Redis keep, for any number of requests, rows and   *)
(* limits: the cached series are the table's, the set of a second of the   *)
(* limiter grows no further than separate calls allow, and the pool's      *)
(* total is the sum of stored rows. Each has an invariant that says what   *)
(* its requests carry between two awaits; Apart keeps them out of each     *)
(* other's way.                                                            *)
(***************************************************************************)
EXTENDS BackendRedis, Sums

Series == Analytics!Series
Key(s) == Analytics!Key(s)

SeriesRequest == [kind : {"read", "update"}, at : {"getJson", "find", "setJson", "save", "del"},
                  series : Series, read : Nat]

\* A request that is no request of a series.
Plain(q) == "kind" \in DOMAIN q /\ q.kind \notin {"read", "update"}

Shapes ==
  /\ requests = [r \in Requests |-> requests[r]]
  /\ \A r \in Requests : requests[r] \in SeriesRequest \/ Plain(requests[r])
  /\ rows \in [Series -> Nat]

Reads(r, s) == requests[r].kind = "read" /\ requests[r].series = s
Updates(r, s) == requests[r].kind = "update" /\ requests[r].series = s

\* While no operation of Redis was rejected, a series whose requests never
\* overlapped has an update alone, reads that carry the table's rows, and a key
\* that holds them until an update is about to delete it.
Fresh(s) ==
  /\ \A r, q \in Requests : Updates(r, s) /\ (Reads(q, s) \/ Updates(q, s)) => q = r
  /\ \A r \in Requests : Reads(r, s) /\ requests[r].at = "setJson" => requests[r].read = rows[s]
  /\ \/ Key(s) \notin DOMAIN store
     \/ \E r \in Requests : Updates(r, s) /\ requests[r].at = "del"
     \/ store[Key(s)].value = rows[s]

Inv == Shapes /\ (~disturbed => \A s \in Series : s \in overlap \/ Fresh(s))

LEMMA InitInv == Init => Inv
<1> SUFFICES ASSUME Init PROVE Inv
  OBVIOUS
<1>1. /\ requests = [r \in Requests |-> [kind |-> "idle"]] /\ store = << >>
      /\ rows = [s \in Series |-> 0]
  BY DEF Init, RedisInit, Idle, Series
<1>2. Shapes
  BY <1>1 DEF Shapes, Plain
<1>3. \A s \in Series : Fresh(s)
  BY <1>1 DEF Fresh, Reads, Updates
<1>4. QED
  BY <1>2, <1>3 DEF Inv

\* Nothing of a series is touched, except that requests may end and keys go;
\* an update that ends before it deleted its key is a rejected operation.
LEMMA Elsewhere ==
  ASSUME Inv, UNCHANGED <<rows, overlap>>, ~disturbed' => ~disturbed,
         requests' = [r \in Requests |-> requests'[r]],
         \A r \in Requests :
            \/ requests'[r] = requests[r]
            \/ /\ Plain(requests'[r])
               /\ ~disturbed' => ~(requests[r].kind = "update" /\ requests[r].at = "del"),
         ~disturbed' => \A s \in Series : Key(s) \in DOMAIN store' =>
            Key(s) \in DOMAIN store /\ store'[Key(s)] = store[Key(s)]
  PROVE  Inv'
<1>1. Shapes'
  BY DEF Inv, Shapes, Plain
<1>2. ASSUME ~disturbed', NEW s \in Series, s \notin overlap PROVE Fresh(s)'
  <2>1. Fresh(s)
    BY <1>2 DEF Inv
  <2>2. \A r \in Requests :
          /\ Reads(r, s)' => Reads(r, s) /\ requests'[r] = requests[r]
          /\ Updates(r, s)' => Updates(r, s) /\ requests'[r] = requests[r]
          /\ Updates(r, s) /\ requests[r].at = "del" => Updates(r, s)' /\ requests'[r].at = "del"
    BY <1>2 DEF Reads, Updates, Plain
  <2>3. \A r, q \in Requests : Updates(r, s)' /\ (Reads(q, s)' \/ Updates(q, s)') => q = r
    BY <2>1, <2>2 DEF Fresh
  <2>4. \A r \in Requests : Reads(r, s)' /\ requests'[r].at = "setJson" => requests'[r].read = rows'[s]
    BY <2>1, <2>2 DEF Fresh
  <2>5. \/ Key(s) \notin DOMAIN store'
        \/ \E r \in Requests : Updates(r, s)' /\ requests'[r].at = "del"
        \/ store'[Key(s)].value = rows'[s]
    BY <1>2, <2>1, <2>2 DEF Fresh
  <2>6. Key(s)' = Key(s)
    BY DEF Key, Analytics!Key
  <2>7. QED
    BY <2>3, <2>4, <2>5, <2>6 DEF Fresh
<1>3. QED
  BY <1>1, <1>2 DEF Inv, Series, Analytics!Series
\* rs are the requests after a step of r, which is no request of a series then.
PlainAt(r, rs) ==
  /\ rs = [x \in Requests |-> rs[x]] /\ Plain(rs[r])
  /\ \A x \in Requests \ {r} : rs[x] = requests[x]

LEMMA PlainWith ==
  ASSUME Inv, NEW r \in Requests, NEW q, Plain(q)
  PROVE  PlainAt(r, [requests EXCEPT ![r] = q])
  BY DEF Inv, Shapes, PlainAt

LEMMA PlainGoto ==
  ASSUME Inv, NEW r \in Requests, Plain(requests[r]), NEW at
  PROVE  PlainAt(r, [requests EXCEPT ![r].at = at])
<1> DEFINE q == [requests[r] EXCEPT !.at = at]
<1>1. Plain(q)
  BY DEF Plain
<1>2. [requests EXCEPT ![r].at = at] = [requests EXCEPT ![r] = q]
  BY DEF Inv, Shapes
<1>3. QED
  BY <1>1, <1>2, PlainWith

\* The entries e of Redis after a step that leaves the keys of the series alone.
KeysKept(e) ==
  \A s \in Series : Key(s) \in DOMAIN e => Key(s) \in DOMAIN store /\ e[Key(s)] = store[Key(s)]

\* A step of a request that is no request of a series, on keys of its own.
LEMMA PlainStep ==
  ASSUME Inv, UNCHANGED <<rows, overlap>>, ~disturbed' => ~disturbed,
         NEW r \in Requests, PlainAt(r, requests'), KeysKept(store'),
         Plain(requests[r]) \/ ~(requests[r].kind = "update" /\ requests[r].at = "del")
  PROVE  Inv'
<1>1. \A x \in Requests :
        \/ requests'[x] = requests[x]
        \/ /\ Plain(requests'[x])
           /\ ~disturbed' => ~(requests[x].kind = "update" /\ requests[x].at = "del")
  BY DEF PlainAt, Plain
<1>2. requests' = [x \in Requests |-> requests'[x]]
  BY DEF PlainAt
<1>3. QED
  BY <1>1, <1>2, Elsewhere DEF KeysKept

\* What every command of Redis may do.
LEMMA CommandEnds ==
  ASSUME NEW effect, NEW replied, NEW failed, Command(effect, replied, failed)
  PROVE  /\ store' \in {store, effect} /\ requests' \in {replied, failed}
         /\ ~disturbed' => ~disturbed /\ store' = effect /\ requests' = replied
<1>1. CASE isConnected /\ store' = effect /\ requests' = replied /\ UNCHANGED disturbed
  BY <1>1
<1>2. CASE store' \in {store, effect} /\ requests' = failed /\ disturbed' = TRUE
  BY <1>2
<1>3. QED
  BY <1>1, <1>2 DEF Command

LEMMA KeptStore == KeysKept(store)
  BY DEF KeysKept

\* The keys of the limiter and of the cached views are none of a series.
LEMMA OtherKeys ==
  ASSUME NEW s \in Series
  PROVE  /\ \A t : Limiter!generateKey(t) # Key(s)
         /\ Defi!ListKey # Key(s) /\ Defi!BalanceKey # Key(s)
  BY DEF Series, Analytics!Series, Key, Analytics!Key, Limiter!generateKey, Defi!ListKey,
     Defi!BalanceKey

LEMMA PlainIdle == Plain([kind |-> "idle"])
  BY DEF Plain

\* A command of a request that is no request of a series.
LEMMA PlainCommand ==
  ASSUME Inv, UNCHANGED <<rows, overlap>>, NEW r \in Requests, Plain(requests[r]),
         NEW effect, NEW replied, NEW failed, Command(effect, replied, failed),
         PlainAt(r, replied), PlainAt(r, failed), KeysKept(effect)
  PROVE  Inv'
<1>1. KeysKept(store') /\ PlainAt(r, requests') /\ (~disturbed' => ~disturbed)
  BY CommandEnds, KeptStore
<1>2. QED
  BY <1>1, PlainStep
LEMMA ConnectionStep ==
  ASSUME Inv, Connection, UNCHANGED <<rows, overlap>> PROVE Inv'
<1>0. \A r \in Requests : requests = [x \in Requests |-> requests[x]]
  BY DEF Inv, Shapes
<1>1. CASE Ready \/ ServerDown \/ ServerUp \/ ReconnectTimer
  <2>1. UNCHANGED <<store, requests>>
    BY <1>1 DEF Ready, ServerDown, ServerUp, ReconnectTimer
  <2>2. disturbed' = disturbed \/ disturbed' = TRUE
    BY <1>1 DEF Ready, ServerDown, ServerUp, ReconnectTimer
  <2>3. ~disturbed' => ~disturbed
    BY <2>2
  <2>4. QED
    BY <2>1, <2>3, Elsewhere DEF Inv, Shapes
<1>2. CASE Restart
  <2>1. /\ store' = store /\ requests' = [r \in Requests |-> [kind |-> "idle"]]
        /\ disturbed' = (disturbed \/ ~Quiet)
    BY <1>2 DEF Restart, Idle
  <2>2. ~disturbed' => ~disturbed /\ Quiet
    BY <2>1, Zenon
  <2>3. ASSUME ~disturbed', NEW r \in Requests PROVE requests[r].kind = "idle"
    BY <2>2, <2>3 DEF Quiet, Running
  <2>4. \A r \in Requests : Plain(requests'[r])
    BY <2>1, PlainIdle
  <2>5. \A r \in Requests :
          \/ requests'[r] = requests[r]
          \/ /\ Plain(requests'[r])
             /\ ~disturbed' => ~(requests[r].kind = "update" /\ requests[r].at = "del")
    BY <2>3, <2>4
  <2>6. QED
    BY <2>1, <2>2, <2>5, Elsewhere
<1>3. QED
  BY <1>1, <1>2 DEF Connection

\* A key's time is up.
LEMMA ExpiryStep ==
  ASSUME Inv, NEW k \in DOMAIN store, Expires(k), UNCHANGED <<rows, overlap>> PROVE Inv'
<1>1. /\ store' = [x \in DOMAIN store \ {k} |-> store[x]] /\ UNCHANGED <<requests, disturbed>>
  BY DEF Expires, Without
<1>2. KeysKept(store')
  BY <1>1 DEF KeysKept
<1>3. QED
  BY <1>1, <1>2, Elsewhere DEF Inv, Shapes, KeysKept

LEMMA LimiterStep == ASSUME Inv, LimiterNext PROVE Inv'
<1>0. UNCHANGED <<rows, overlap>>
  BY DEF LimiterNext, analyticsVars
<1>1. CASE Limiter!Tick
  BY <1>0, <1>1, KeptStore, Elsewhere
  DEF Limiter!Tick, Limiter!redisVars, Inv, Shapes, KeysKept
<1>2. ASSUME NEW r \in Requests, Limiter!canActivate(r) PROVE Inv'
  <2> DEFINE q == [kind |-> "limit", at |-> "clean", time |-> now]
  <2>1. requests' = [requests EXCEPT ![r] = q] /\ UNCHANGED <<store, disturbed>>
        /\ requests[r].kind = "idle"
    BY <1>2 DEF Limiter!canActivate, Limiter!Arrive, Limiter!With, Limiter!Running, Limiter!Idle
  <2>2. Plain(q)
    BY DEF Plain
  <2>3. QED
    BY <1>0, <2>1, <2>2, PlainWith, KeptStore, PlainStep
<1>3. ASSUME NEW r \in Requests, requests[r].kind = "limit", NEW at,
             NEW rs, rs \in {[requests EXCEPT ![r].at = at], [requests EXCEPT ![r] = [kind |-> "idle"]]}
      PROVE  PlainAt(r, rs)
  <2>1. Plain(requests[r])
    BY <1>3 DEF Inv, Shapes, SeriesRequest, Plain
  <2>2. QED
    BY <1>3, <2>1, PlainGoto, PlainWith, PlainIdle
<1>4. ASSUME NEW r \in Requests, requests[r].kind = "limit", NEW effect, NEW replied, NEW failed,
             Limiter!Command(effect, replied, failed), PlainAt(r, replied), PlainAt(r, failed),
             KeysKept(effect)
      PROVE  Inv'
  <2>1. Plain(requests[r])
    BY <1>4 DEF Inv, Shapes, SeriesRequest, Plain
  <2>2. Command(effect, replied, failed)
    BY <1>4 DEF Limiter!Command, Command, Limiter!connectionVars, connectionVars, Limiter!Lost,
       Lost, Limiter!scheduleReconnect, scheduleReconnect
  <2>3. QED
    BY <1>0, <1>4, <2>1, <2>2, PlainCommand
<1>5. ASSUME NEW r \in Requests, Limiter!checkRateLimit(r) PROVE Inv'
  <2> DEFINE key == Limiter!generateKey(requests[r].time)
  <2>0. \A s \in Series : Key(s) # key
    BY OtherKeys
  <2>1. requests[r].kind = "limit"
    BY <1>5 DEF Limiter!checkRateLimit, Limiter!getCurrentCount, Limiter!Record, Limiter!At
  <2> DEFINE kept == {store, [x \in DOMAIN store \ {key} |-> store[x]]}
  <2>2. ASSUME NEW e, DOMAIN e \subseteq DOMAIN store \cup {key},
               \A x \in DOMAIN e \ {key} : e[x] = store[x]
        PROVE  KeysKept(e)
    BY <2>0, <2>2 DEF KeysKept
  <2>3. CASE Limiter!At(r, {"limit"}, "clean")
             /\ Limiter!zRemRangeByScore(key, Limiter!getWindowStart(requests[r].time),
                  Limiter!Goto(r, "count"), Limiter!Answered(r))
    <3> DEFINE left == {m \in Limiter!Members(key) : m > Limiter!getWindowStart(requests[r].time)}
               e == IF left = {} THEN Limiter!Without(key) ELSE [store EXCEPT ![key].value = left]
    <3>1. Limiter!Command(e, [requests EXCEPT ![r].at = "count"], [requests EXCEPT ![r] = [kind |-> "idle"]])
      BY <2>3 DEF Limiter!zRemRangeByScore, Limiter!Goto, Limiter!Answered, Limiter!With, Limiter!Idle
    <3> HIDE DEF left
    <3>2. KeysKept(e)
      BY <2>2 DEF Limiter!Without
    <3> HIDE DEF e
    <3>3. QED
      BY <1>3, <1>4, <2>1, <3>1, <3>2
  <2>4. CASE Limiter!At(r, {"limit"}, "count") /\ Limiter!getCurrentCount(r)
    <3>1. PICK a \in {"refused", "add"}, b \in {"refused", "add"} :
             Limiter!Command(store, [requests EXCEPT ![r].at = a], [requests EXCEPT ![r].at = b])
      BY <2>4 DEF Limiter!getCurrentCount, Limiter!Decide, Limiter!Goto
    <3>2. QED
      BY <1>3, <1>4, <2>1, <3>1, KeptStore
  <2>5. CASE Limiter!Record(r)
    <3>1. CASE Limiter!zAdd(key, requests[r].time, Limiter!Goto(r, "expire"), Limiter!Answered(r))
      <4>1. PICK entry : Limiter!Command(Limiter!Put(key, entry), [requests EXCEPT ![r].at = "expire"],
                                         [requests EXCEPT ![r] = [kind |-> "idle"]])
        BY <3>1 DEF Limiter!zAdd, Limiter!Goto, Limiter!Answered, Limiter!With, Limiter!Idle
      <4>2. KeysKept(Limiter!Put(key, entry))
        BY <2>2 DEF Limiter!Put
      <4>3. QED
        BY <1>3, <1>4, <2>1, <4>1, <4>2
    <3>2. CASE Limiter!expire(key, Limiter!Answered(r), Limiter!Answered(r))
      <4> DEFINE e == IF key \in DOMAIN store THEN [store EXCEPT ![key].expires = TRUE] ELSE store
      <4>1. Limiter!Command(e, [requests EXCEPT ![r] = [kind |-> "idle"]],
                            [requests EXCEPT ![r] = [kind |-> "idle"]])
        BY <3>2 DEF Limiter!expire, Limiter!Answered, Limiter!With, Limiter!Idle
      <4>2. KeysKept(e)
        BY <2>2
      <4> HIDE DEF e
      <4>3. QED
        BY <1>3, <1>4, <2>1, <4>1, <4>2
    <3>3. QED
      BY <2>5, <3>1, <3>2 DEF Limiter!Record
  <2>6. QED
    BY <1>5, <2>3, <2>4, <2>5 DEF Limiter!checkRateLimit
<1>6. ASSUME NEW r \in Requests, Limiter!Refuse(r) PROVE Inv'
  <2>1. /\ requests' = [requests EXCEPT ![r] = [kind |-> "idle"]] /\ UNCHANGED <<store, disturbed>>
        /\ requests[r].kind = "limit"
    BY <1>6 DEF Limiter!Refuse, Limiter!Goes, Limiter!Answered, Limiter!With, Limiter!Idle, Limiter!At
  <2>2. QED
    BY <1>0, <2>1, PlainWith, PlainIdle, KeptStore, PlainStep
<1>7. ASSUME NEW k \in DOMAIN store, Limiter!ExpireWindow(k) PROVE Inv'
  BY <1>0, <1>7, ExpiryStep
  DEF Limiter!ExpireWindow, Limiter!Expires, Expires, Limiter!Without, Without,
      Limiter!connectionVars, connectionVars
<1>8. QED
  BY <1>1, <1>2, <1>5, <1>6, <1>7 DEF LimiterNext, LimiterSteps

\* A step of a request that touches neither Redis nor a series.
LEMMA PlainGoes ==
  ASSUME Inv, UNCHANGED <<rows, overlap>>, NEW r \in Requests, NEW rs, Goes(rs), PlainAt(r, rs),
         Plain(requests[r])
  PROVE  Inv'
<1>1. requests' = rs /\ UNCHANGED <<store, disturbed>>
  BY DEF Goes
<1>2. QED
  BY <1>1, KeptStore, PlainStep

\* Whatever a plain request becomes keeps its kind or is idle.
LEMMA PlainMoves ==
  ASSUME Inv, NEW r \in Requests, Plain(requests[r])
  PROVE  /\ PlainAt(r, With(r, Idle))
         /\ \A at : PlainAt(r, Goto(r, at))
         /\ \A at, n : PlainAt(r, With(r, [requests[r] EXCEPT !.at = at, !.read = n]))
         /\ \A at, n : PlainAt(r, With(r, [requests[r] EXCEPT !.at = at, !.hash = n]))
<1>1. PlainAt(r, With(r, Idle))
  BY PlainWith, PlainIdle DEF With, Idle
<1>2. \A at : PlainAt(r, Goto(r, at))
  BY PlainGoto DEF Goto
<1>3. ASSUME NEW at, NEW n PROVE PlainAt(r, With(r, [requests[r] EXCEPT !.at = at, !.read = n]))
  <2> DEFINE q == [requests[r] EXCEPT !.at = at, !.read = n]
  <2>1. Plain(q)
    BY DEF Plain
  <2>2. QED
    BY <2>1, PlainWith DEF With
<1>4. ASSUME NEW at, NEW n PROVE PlainAt(r, With(r, [requests[r] EXCEPT !.at = at, !.hash = n]))
  <2> DEFINE q == [requests[r] EXCEPT !.at = at, !.hash = n]
  <2>1. Plain(q)
    BY DEF Plain
  <2>2. QED
    BY <2>1, PlainWith DEF With
<1>5. QED
  BY <1>1, <1>2, <1>3, <1>4

LEMMA PlainArrives ==
  ASSUME Inv, UNCHANGED <<rows, overlap>>, NEW r \in Requests, NEW q, Plain(q), Arrive(r, q)
  PROVE  Inv'
<1>1. requests' = [requests EXCEPT ![r] = q] /\ UNCHANGED <<store, disturbed>>
      /\ requests[r].kind = "idle"
  BY DEF Arrive, With, Running, Idle
<1>2. QED
  BY <1>1, PlainWith, KeptStore, PlainStep

LEMMA TransferStep == ASSUME Inv, TransferNext PROVE Inv'
<1>0. UNCHANGED <<rows, overlap>>
  BY DEF TransferNext, analyticsVars
<1>1. ASSUME NEW r \in Requests, NEW a, Defi!depositEndpoint(r, a) \/ Defi!withdrawEndpoint(r, a)
      PROVE  Inv'
  <2>1. PICK kind \in {"deposit", "withdraw"} :
           Arrive(r, [kind |-> kind, at |-> "getPool", amount |-> a, read |-> 0, hash |-> 0])
    BY <1>1 DEF Defi!depositEndpoint, Defi!withdrawEndpoint, Defi!Moves, Defi!Arrive, Arrive,
       Defi!Started, Started, Defi!Running, Running, Defi!Idle, Idle, Defi!With, With,
       Defi!connectionVars, connectionVars
  <2>2. Plain([kind |-> kind, at |-> "getPool", amount |-> a, read |-> 0, hash |-> 0])
    BY DEF Plain
  <2>3. QED
    BY <1>0, <2>1, <2>2, PlainArrives
<1>2. ASSUME NEW r \in Requests, TransferSteps(r) PROVE Inv'
  <2>1. requests[r].kind \in {"deposit", "withdraw"}
    BY <1>2 DEF TransferSteps, Defi!deposit, Defi!withdraw
  <2>2. Plain(requests[r])
    BY <2>1 DEF Inv, Shapes, SeriesRequest, Plain
  <2>3. \/ \E at : Goes(Goto(r, at))
        \/ \E at, n : Goes(With(r, [requests[r] EXCEPT !.at = at, !.read = n]))
        \/ \E at, n : Goes(With(r, [requests[r] EXCEPT !.at = at, !.hash = n]))
        \/ Goes(With(r, Idle))
    BY <1>2 DEF TransferSteps, Defi!deposit, Defi!withdraw, Defi!getPool, Defi!execute, Defi!Store,
       Defi!Fails, Defi!Goes, Goes, Defi!Goto, Goto, Defi!With, With, Defi!Idle, Idle,
       Defi!connectionVars, connectionVars
  <2>4. QED
    BY <1>0, <2>2, <2>3, PlainMoves, PlainGoes
<1>3. CASE UNCHANGED redisVars
  BY <1>0, <1>3, Elsewhere DEF redisVars, Inv, Shapes
<1>4. QED
  BY <1>1, <1>2, <1>3 DEF TransferNext

LEMMA ViewStep == ASSUME Inv, ViewNext PROVE Inv'
<1>0. UNCHANGED <<rows, overlap>>
  BY DEF ViewNext, analyticsVars
<1>1. ASSUME NEW r \in Requests, Defi!listPoolsEndpoint(r) \/ Defi!balanceEndpoint(r) PROVE Inv'
  <2>1. PICK kind \in {"listPools", "balance"} : Arrive(r, [kind |-> kind, at |-> "get", read |-> 0])
    BY <1>1 DEF Defi!listPoolsEndpoint, Defi!balanceEndpoint, Defi!Arrive, Arrive,
       Defi!Started, Started, Defi!Running, Running, Defi!Idle, Idle, Defi!With, With,
       Defi!connectionVars, connectionVars
  <2>2. Plain([kind |-> kind, at |-> "get", read |-> 0])
    BY DEF Plain
  <2>3. QED
    BY <1>0, <2>1, <2>2, PlainArrives
<1>2. ASSUME NEW r \in Requests, ViewSteps(r) PROVE Inv'
  <2>1. requests[r].kind \in {"listPools", "balance"}
    BY <1>2 DEF ViewSteps, Defi!listPools, Defi!getUserPoolBalance, Defi!callView
  <2>2. Plain(requests[r])
    BY <2>1 DEF Inv, Shapes, SeriesRequest, Plain
  <2>3. \A key \in {Defi!ListKey, Defi!BalanceKey} : \A entry : KeysKept(Put(key, entry))
    BY OtherKeys DEF KeysKept, Put
  <2>4. \/ \E at : Goes(Goto(r, at))
        \/ \E at, n : Goes(With(r, [requests[r] EXCEPT !.at = at, !.read = n]))
        \/ \E at : Command(store, With(r, Idle), Goto(r, at))
        \/ \E at : Command(store, Goto(r, at), Goto(r, at))
        \/ Command(store, With(r, Idle), With(r, Idle))
        \/ \E at : Command(store, Goto(r, at), With(r, Idle))
        \/ \E key \in {Defi!ListKey, Defi!BalanceKey} : \E entry :
             Command(Put(key, entry), With(r, Idle), With(r, Idle))
    BY <1>2 DEF ViewSteps, Defi!listPools, Defi!getUserPoolBalance, Defi!callView, Defi!getJson,
       Defi!get, Defi!setJson, Defi!set, Defi!Put, Put, Defi!Command, Command, Defi!Lost, Lost,
       Defi!scheduleReconnect, scheduleReconnect,
       Defi!Goes, Goes, Defi!Goto, Goto, Defi!With, With, Defi!Idle, Idle,
       Defi!connectionVars, connectionVars
  <2>5. QED
    BY <1>0, <2>2, <2>3, <2>4, PlainMoves, PlainGoes, KeptStore, PlainCommand
<1>3. ASSUME NEW k \in DOMAIN store, Expires(k) PROVE Inv'
  BY <1>0, <1>3, ExpiryStep
<1>4. QED
  BY <1>1, <1>2, <1>3 DEF ViewNext

-----------------------------------------------------------------------------
\* A step of r for the series s leaves the others as they are.
LEMMA SeriesStep ==
  ASSUME Inv, NEW r \in Requests, NEW s \in Series,
         requests[r].kind = "idle" \/ requests[r].series = s,
         requests' = [requests EXCEPT ![r] = requests'[r]],
         (requests'[r] \in SeriesRequest /\ requests'[r].series = s) \/ Plain(requests'[r]),
         rows' \in [Series -> Nat], \A t \in Series \ {s} : rows'[t] = rows[t],
         overlap \subseteq overlap', ~disturbed' => ~disturbed,
         \A t \in Series \ {s} : Key(t) \in DOMAIN store' =>
            Key(t) \in DOMAIN store /\ store'[Key(t)] = store[Key(t)],
         ~disturbed' /\ s \notin overlap' => Fresh(s)'
  PROVE  Inv'
<1>0. requests' = [x \in Requests |-> requests'[x]] /\ \A x \in Requests \ {r} : requests'[x] = requests[x]
  BY DEF Inv, Shapes
<1>1. Shapes'
  BY <1>0 DEF Inv, Shapes, Plain, SeriesRequest, Series, Analytics!Series
<1>2. ASSUME ~disturbed', NEW t \in Series \ {s}, t \notin overlap' PROVE Fresh(t)'
  <2>1. Fresh(t)
    BY <1>2 DEF Inv
  <2>2. \A x \in Requests :
          /\ Reads(x, t)' <=> Reads(x, t)
          /\ Updates(x, t)' <=> Updates(x, t)
          /\ Reads(x, t) \/ Updates(x, t) => requests'[x] = requests[x]
    BY <1>0 DEF Reads, Updates, Plain
  <2>3. Key(t)' = Key(t)
    BY DEF Key, Analytics!Key
  <2>4. \A x, q \in Requests : Updates(x, t)' /\ (Reads(q, t)' \/ Updates(q, t)') => q = x
    BY <2>1, <2>2 DEF Fresh
  <2>5. \A x \in Requests : Reads(x, t)' /\ requests'[x].at = "setJson" => requests'[x].read = rows'[t]
    BY <2>1, <2>2 DEF Fresh
  <2>6. \/ Key(t) \notin DOMAIN store'
        \/ \E x \in Requests : Updates(x, t)' /\ requests'[x].at = "del"
        \/ store'[Key(t)].value = rows'[t]
    BY <2>1, <2>2 DEF Fresh
  <2>7. QED
    BY <2>3, <2>4, <2>5, <2>6 DEF Fresh
<1>3. QED
  BY <1>1, <1>2 DEF Inv, Series, Analytics!Series

\* Fresh(s) in the primed state, its parts spelled out.
LEMMA FreshNext ==
  ASSUME NEW s,
         \A x, q \in Requests : Updates(x, s)' /\ (Reads(q, s)' \/ Updates(q, s)') => q = x,
         \A x \in Requests : Reads(x, s)' /\ requests'[x].at = "setJson" => requests'[x].read = rows'[s],
         \/ Key(s) \notin DOMAIN store'
         \/ \E x \in Requests : Updates(x, s)' /\ requests'[x].at = "del"
         \/ store'[Key(s)].value = rows'[s]
  PROVE  Fresh(s)'
<1>1. Key(s)' = Key(s)
  BY DEF Key, Analytics!Key
<1>2. QED
  BY <1>1 DEF Fresh

LEMMA ReadArrives ==
  ASSUME Inv, NEW r \in Requests, NEW s \in Series, Analytics!getEndpoint(r, s)
  PROVE  Inv'
<1> DEFINE q == [kind |-> "read", at |-> "getJson", series |-> s, read |-> 0]
<1>1. /\ requests[r].kind = "idle" /\ requests' = [requests EXCEPT ![r] = q]
      /\ UNCHANGED <<store, disturbed, rows>>
      /\ overlap' = overlap \cup (IF \E x \in Requests : Updates(x, s) THEN {s} ELSE {})
  BY DEF Analytics!getEndpoint, Analytics!Asks, Analytics!Arrive, Analytics!Running, Analytics!Idle,
     Analytics!With, Analytics!Of, Updates
<1>2. requests'[r] = q /\ \A x \in Requests \ {r} : requests'[x] = requests[x]
  BY <1>1 DEF Inv, Shapes
<1>3. q \in SeriesRequest
  BY DEF SeriesRequest
<1>4. ASSUME ~disturbed', s \notin overlap' PROVE Fresh(s)'
  <2>1. Fresh(s) /\ \A x \in Requests : ~Updates(x, s)
    BY <1>1, <1>4 DEF Inv
  <2>2. \A x \in Requests : ~Updates(x, s)' /\ (Reads(x, s)' => x = r \/ (Reads(x, s) /\ requests'[x] = requests[x]))
    BY <1>2, <2>1 DEF Updates, Reads
  <2>3. \A x \in Requests : Reads(x, s)' /\ requests'[x].at = "setJson" => requests'[x].read = rows'[s]
    BY <1>1, <1>2, <2>1, <2>2 DEF Fresh
  <2>4. Key(s) \notin DOMAIN store' \/ store'[Key(s)].value = rows'[s]
    BY <1>1, <2>1 DEF Fresh
  <2>5. QED
    BY <2>2, <2>3, <2>4, FreshNext
<1>5. overlap \subseteq overlap'
  BY <1>1
<1>6. QED
  BY <1>1, <1>2, <1>3, <1>4, <1>5, SeriesStep DEF Inv, Shapes

LEMMA UpdateArrives ==
  ASSUME Inv, NEW r \in Requests, NEW s \in Series, Analytics!updateEndpoint(r, s)
  PROVE  Inv'
<1> DEFINE q == [kind |-> "update", at |-> "save", series |-> s, read |-> 0]
<1>1. /\ requests[r].kind = "idle" /\ requests' = [requests EXCEPT ![r] = q]
      /\ UNCHANGED <<store, disturbed, rows>>
      /\ overlap' = overlap \cup (IF \E x \in Requests : Reads(x, s) \/ Updates(x, s) THEN {s} ELSE {})
  BY DEF Analytics!updateEndpoint, Analytics!Asks, Analytics!Arrive, Analytics!Running, Analytics!Idle,
     Analytics!With, Analytics!Of, Updates, Reads
<1>2. requests'[r] = q /\ \A x \in Requests \ {r} : requests'[x] = requests[x]
  BY <1>1 DEF Inv, Shapes
<1>3. q \in SeriesRequest
  BY DEF SeriesRequest
<1>4. ASSUME ~disturbed', s \notin overlap' PROVE Fresh(s)'
  <2>1. Fresh(s) /\ \A x \in Requests : ~Updates(x, s) /\ ~Reads(x, s)
    BY <1>1, <1>4 DEF Inv
  <2>2. \A x \in Requests : ~Reads(x, s)' /\ (Updates(x, s)' => x = r)
    BY <1>2, <2>1 DEF Updates, Reads
  <2>3. Key(s) \notin DOMAIN store' \/ store'[Key(s)].value = rows'[s]
    BY <1>1, <2>1 DEF Fresh
  <2>4. QED
    BY <2>2, <2>3, FreshNext
<1>5. overlap \subseteq overlap'
  BY <1>1
<1>6. QED
  BY <1>1, <1>2, <1>3, <1>4, <1>5, SeriesStep DEF Inv, Shapes

\* The steps of a read, and what becomes of its request.
LEMMA ReadStep ==
  ASSUME Inv, NEW r \in Requests, NEW s \in Series, Analytics!CachedRead(r, s)
  PROVE  Inv'
<1> DEFINE gone == [kind |-> "idle"]
           asked == [requests[r] EXCEPT !.at = "find"]
           found == [requests[r] EXCEPT !.at = "setJson", !.read = rows[s]]
<1>1. requests[r] \in SeriesRequest /\ Reads(r, s) /\ UNCHANGED <<rows, overlap>>
  BY DEF Analytics!CachedRead, Analytics!Of, Inv, Shapes, Plain, Reads
<1>2. requests[r].kind = "read" /\ requests[r].series = s
  BY <1>1 DEF Reads
<1>3. Plain(gone) /\ gone.kind = "idle" /\ asked \in SeriesRequest /\ asked.series = s /\ asked.kind = "read" /\ asked.at = "find"
      /\ found \in SeriesRequest /\ found.series = s /\ found.kind = "read" /\ found.read = rows[s]
  BY <1>1, <1>2 DEF Plain, SeriesRequest, Inv, Shapes
<1>4. \A n : [requests EXCEPT ![r] = n] = [x \in Requests |-> IF x = r THEN n ELSE requests[x]]
  BY DEF Inv, Shapes
<1> HIDE DEF gone, asked, found
<1>5. ASSUME NEW new \in {gone, asked, found}, requests' = [requests EXCEPT ![r] = new],
             ~disturbed' => ~disturbed,
             \A t \in Series \ {s} : Key(t) \in DOMAIN store' =>
               Key(t) \in DOMAIN store /\ store'[Key(t)] = store[Key(t)],
             ~disturbed' => store' = store
               \/ (Key(s) \in DOMAIN store' /\ store'[Key(s)].value = requests[r].read
                   /\ requests[r].at = "setJson")
      PROVE  Inv'
  <2>1. requests'[r] = new /\ \A x \in Requests \ {r} : requests'[x] = requests[x]
    BY <1>4, <1>5
  <2>2. ASSUME ~disturbed', s \notin overlap' PROVE Fresh(s)'
    <3>1. Fresh(s)
      BY <1>1, <1>5, <2>2 DEF Inv
    <3>2. \A x \in Requests : ~Updates(x, s)
      BY <1>1, <3>1 DEF Fresh, Updates, Reads
    <3>3. \A x \in Requests : ~Updates(x, s)'
      BY <1>3, <2>1, <3>2 DEF Updates, Plain
    <3>4. \A x \in Requests : Reads(x, s)' /\ requests'[x].at = "setJson" => requests'[x].read = rows'[s]
      <4>1. requests'[r] = found \/ requests'[r].at # "setJson" \/ requests'[r].kind # "read"
        BY <1>3, <1>5, <2>1
      <4>2. QED
        BY <1>1, <1>3, <2>1, <3>1, <4>1 DEF Fresh, Reads
    <3>5. Key(s) \notin DOMAIN store' \/ store'[Key(s)].value = rows'[s]
      BY <1>1, <1>5, <2>2, <3>1, <3>2 DEF Fresh
    <3>6. QED
      BY <3>3, <3>4, <3>5, FreshNext
  <2>3. \/ requests'[r] \in SeriesRequest /\ requests'[r].series = s
        \/ Plain(requests'[r])
    BY <1>3, <1>5, <2>1
  <2>4. requests' = [requests EXCEPT ![r] = requests'[r]]
    BY <1>5, <2>1
  <2>5. QED
    BY <1>1, <1>2, <1>5, <2>2, <2>3, <2>4, SeriesStep DEF Inv, Shapes
<1>6. CASE requests[r].at = "find"
  <2>1. requests' = [requests EXCEPT ![r] = found] /\ UNCHANGED <<store, disturbed>>
    BY <1>6 DEF found, Analytics!CachedRead, Analytics!Goes, Analytics!With
  <2>2. QED
    BY <1>5, <2>1
<1>7. [requests EXCEPT ![r].at = "find"] = [requests EXCEPT ![r] = asked]
  BY DEF asked, Inv, Shapes
<1>8. CASE requests[r].at = "getJson"
  <2>1. PICK replied \in {[requests EXCEPT ![r] = gone], [requests EXCEPT ![r] = asked]} :
           Command(store, replied, [requests EXCEPT ![r] = asked])
    BY <1>7, <1>8 DEF gone, Analytics!CachedRead, Analytics!getJson, Analytics!get, Analytics!Command, Command,
       Analytics!Lost, Lost, Analytics!scheduleReconnect, scheduleReconnect,
       Analytics!connectionVars, connectionVars, Analytics!Goto, Analytics!With, Analytics!Idle
  <2>2. /\ store' = store /\ requests' \in {replied, [requests EXCEPT ![r] = asked]}
        /\ ~disturbed' => ~disturbed
    BY <2>1, CommandEnds
  <2>3. QED
    BY <1>5, <2>1, <2>2
<1>9. CASE requests[r].at = "setJson"
  <2>1. PICK e : Command(Put(Key(s), [value |-> requests[r].read, expires |-> e]),
                         [requests EXCEPT ![r] = gone], [requests EXCEPT ![r] = gone])
    BY <1>9 DEF gone, Analytics!CachedRead, Analytics!setJson, Analytics!set, Analytics!Put, Put,
       Analytics!Command, Command, Analytics!Lost, Lost, Analytics!scheduleReconnect, scheduleReconnect,
       Analytics!connectionVars, connectionVars, Analytics!With, Analytics!Idle, Key
  <2> DEFINE put == Put(Key(s), [value |-> requests[r].read, expires |-> e])
  <2>2. /\ store' \in {store, put} /\ requests' = [requests EXCEPT ![r] = gone]
        /\ ~disturbed' => ~disturbed /\ store' = put
    BY <2>1, CommandEnds
  <2>3. \A t \in Series \ {s} : Key(t) \in DOMAIN store' =>
           Key(t) \in DOMAIN store /\ store'[Key(t)] = store[Key(t)]
    BY <2>2 DEF Put, Key, Analytics!Key
  <2>4. ~disturbed' => Key(s) \in DOMAIN store' /\ store'[Key(s)].value = requests[r].read
    BY <2>2 DEF Put
  <2>5. QED
    BY <1>5, <1>9, <2>2, <2>3, <2>4
<1>10. QED
  BY <1>6, <1>8, <1>9 DEF Analytics!CachedRead

\* A save counts the row before its key is deleted, and no other request of the
\* series is beside it unless the series overlapped.
LEMMA UpdateStep ==
  ASSUME Inv, NEW r \in Requests, NEW s \in Series, Analytics!Update(r, s, s)
  PROVE  Inv'
<1> DEFINE gone == [kind |-> "idle"]
           saved == [requests[r] EXCEPT !.at = "del"]
<1>1. requests[r] \in SeriesRequest /\ Updates(r, s) /\ UNCHANGED overlap
  BY DEF Analytics!Update, Analytics!Of, Inv, Shapes, Plain, Updates
<1>2. requests[r].kind = "update" /\ requests[r].series = s
  BY <1>1 DEF Updates
<1>3. Plain(gone) /\ gone.kind = "idle"
      /\ saved \in SeriesRequest /\ saved.series = s /\ saved.kind = "update" /\ saved.at = "del"
  BY <1>1, <1>2 DEF Plain, SeriesRequest
<1>4. \A n : [requests EXCEPT ![r] = n] = [x \in Requests |-> IF x = r THEN n ELSE requests[x]]
  BY DEF Inv, Shapes
<1>5. [requests EXCEPT ![r].at = "del"] = [requests EXCEPT ![r] = saved]
  BY DEF Inv, Shapes
<1> HIDE DEF gone, saved
<1>6. ASSUME NEW new \in {gone, saved}, requests' = [requests EXCEPT ![r] = new],
             ~disturbed' => ~disturbed,
             rows' \in [Series -> Nat], \A t \in Series \ {s} : rows'[t] = rows[t],
             \A t \in Series \ {s} : Key(t) \in DOMAIN store' =>
               Key(t) \in DOMAIN store /\ store'[Key(t)] = store[Key(t)],
             ~disturbed' => new = saved \/ Key(s) \notin DOMAIN store'
      PROVE  Inv'
  <2>1. requests'[r] = new /\ \A x \in Requests \ {r} : requests'[x] = requests[x]
    BY <1>4, <1>6
  <2>2. ASSUME ~disturbed', s \notin overlap' PROVE Fresh(s)'
    <3>1. Fresh(s)
      BY <1>1, <1>6, <2>2 DEF Inv
    <3>2. \A x \in Requests \ {r} : ~Updates(x, s) /\ ~Reads(x, s)
      BY <1>1, <3>1 DEF Fresh
    <3>3. \A x \in Requests : ~Reads(x, s)' /\ (Updates(x, s)' => x = r)
      BY <1>3, <1>6, <2>1, <3>2 DEF Updates, Reads
    <3>4. Key(s) \notin DOMAIN store' \/ \E x \in Requests : Updates(x, s)' /\ requests'[x].at = "del"
      BY <1>3, <1>6, <2>1, <2>2 DEF Updates
    <3>5. QED
      BY <3>3, <3>4, FreshNext
  <2>3. \/ requests'[r] \in SeriesRequest /\ requests'[r].series = s
        \/ Plain(requests'[r])
    BY <1>3, <1>6, <2>1
  <2>4. requests' = [requests EXCEPT ![r] = requests'[r]]
    BY <1>6, <2>1
  <2>5. QED
    BY <1>1, <1>2, <1>6, <2>2, <2>3, <2>4, SeriesStep
<1>7. CASE requests[r].at = "save"
  <2>1. /\ rows' = [rows EXCEPT ![s] = rows[s] + 1] /\ UNCHANGED <<store, disturbed>>
        /\ requests' = [requests EXCEPT ![r] = saved]
    BY <1>5, <1>7 DEF Analytics!Update, Analytics!Goes, Analytics!Goto
  <2>2. rows' \in [Series -> Nat] /\ \A t \in Series \ {s} : rows'[t] = rows[t]
    BY <2>1 DEF Inv, Shapes
  <2>3. QED
    BY <1>6, <2>1, <2>2
<1>8. CASE requests[r].at = "del"
  <2> DEFINE left == Without(Key(s))
  <2>1. Command(left, [requests EXCEPT ![r] = gone], [requests EXCEPT ![r] = gone]) /\ UNCHANGED rows
    BY <1>8 DEF gone, Analytics!Update, Analytics!del, Analytics!Without, Without,
       Analytics!Command, Command, Analytics!Lost, Lost, Analytics!scheduleReconnect, scheduleReconnect,
       Analytics!connectionVars, connectionVars, Analytics!With, Analytics!Idle, Key
  <2>2. /\ store' \in {store, left} /\ requests' = [requests EXCEPT ![r] = gone]
        /\ ~disturbed' => ~disturbed /\ store' = left
    BY <2>1, CommandEnds
  <2>3. \A t \in Series \ {s} : Key(t) \in DOMAIN store' =>
           Key(t) \in DOMAIN store /\ store'[Key(t)] = store[Key(t)]
    BY <2>2 DEF Without
  <2>4. ~disturbed' => Key(s) \notin DOMAIN store'
    BY <2>2 DEF Without
  <2>5. QED
    BY <1>6, <2>1, <2>2, <2>3, <2>4 DEF Inv, Shapes
<1>9. QED
  BY <1>7, <1>8 DEF Analytics!Update

LEMMA AnalyticsStep == ASSUME Inv, AnalyticsNext PROVE Inv'
<1>0. {"metrics", "correlations", "cdr"} = Series
  BY DEF Series, Analytics!Series
<1>1. ASSUME NEW r \in Requests, Analytics!getEndpoint(r, service) \/ Analytics!updateEndpoint(r, service)
      PROVE  Inv'
  BY <1>1, ReadArrives, UpdateArrives DEF AnalyticsNext, Series
<1>2. ASSUME NEW r \in Requests, AnalyticsSteps(r) PROVE Inv'
  BY <1>0, <1>2, ReadStep, UpdateStep
  DEF AnalyticsSteps, Analytics!getPoolMetrics, Analytics!getCorrelations, Analytics!getCDRMetrics,
      Analytics!updateMetrics, Analytics!updateCorrelations, Analytics!updateCDR
<1>3. ASSUME NEW r \in Requests, Analytics!QueryFails(r) PROVE Inv'
  <2>1. /\ requests' = [requests EXCEPT ![r] = [kind |-> "idle"]] /\ UNCHANGED <<store, disturbed, rows, overlap>>
        /\ requests[r].at # "del"
    BY <1>3 DEF Analytics!QueryFails, Analytics!At, Analytics!Goes, Analytics!With, Analytics!Idle
  <2>2. QED
    BY <2>1, PlainWith, PlainIdle, KeptStore, PlainStep
<1>4. ASSUME NEW k \in DOMAIN store, Expires(k), UNCHANGED analyticsVars PROVE Inv'
  BY <1>4, ExpiryStep DEF analyticsVars
<1>5. QED
  BY <1>1, <1>2, <1>3, <1>4 DEF AnalyticsNext

LEMMA NextInv == Inv /\ [Next]_vars => Inv'
<1> SUFFICES ASSUME Inv, [Next]_vars PROVE Inv'
  OBVIOUS
<1>1. CASE UNCHANGED vars
  <2>1. UNCHANGED <<requests, store, disturbed, rows, overlap>>
    BY <1>1 DEF vars, redisVars, analyticsVars
  <2>2. QED
    BY <2>1, Elsewhere DEF Inv, Shapes
<1>2. CASE Connection /\ UNCHANGED analyticsVars
  BY <1>2, ConnectionStep DEF analyticsVars
<1>3. CASE LimiterNext
  BY <1>3, LimiterStep
<1>4. CASE AnalyticsNext
  BY <1>4, AnalyticsStep
<1>5. CASE TransferNext
  BY <1>5, TransferStep
<1>6. CASE ViewNext
  BY <1>6, ViewStep
<1>7. QED
  BY <1>1, <1>2, <1>3, <1>4, <1>5, <1>6 DEF Next

\* A cached series is the table's for any number of requests, rows and series reads,
\* while its updates ran alone and no operation of Redis was rejected: reads of
\* AnalyticsService may overlap each other as they like.
THEOREM CachedSeriesAreFresh == Spec => []CachedSeriesFresh
<1>1. ASSUME Inv PROVE CachedSeriesFresh
  <2> SUFFICES ASSUME ~disturbed, NEW s \in Series \ overlap, Key(s) \in DOMAIN store,
                      \A r \in Requests : ~Updates(r, s)
               PROVE  store[Key(s)].value = rows[s]
    BY DEF CachedSeriesFresh, Series, Key, Analytics!Of, Updates
  <2>1. Fresh(s)
    BY <1>1 DEF Inv
  <2>2. QED
    BY <2>1 DEF Fresh
<1>2. QED
  BY InitInv, NextInv, <1>1, PTL DEF Spec
-----------------------------------------------------------------------------
(* Every service has the requests and the keys of its own: what the limiter's *)
(* windows and the pool's total are proved from is moved by one service only. *)

KindsOf(s) ==
  CASE s = "limiter"   -> {"limit"}
    [] s = "transfers" -> {"deposit", "withdraw"}
    [] s = "views"     -> {"listPools", "balance"}
    [] OTHER           -> {"read", "update"}

\* A service has the requests of its own, and no window but the limiter's.
Apart ==
  /\ \A r \in Requests : requests[r].kind \in {"idle"} \cup KindsOf(service)
  /\ service # "limiter" => \A k \in DOMAIN store : k[1] # "ratelimit"

\* The requests after a step of r that moves on or ends.
Continues(r, rs) ==
  \/ rs = With(r, Idle)
  \/ \E at : rs = Goto(r, at)
  \/ \E at, n : rs = With(r, [requests[r] EXCEPT !.at = at, !.read = n])
  \/ \E at, n : rs = With(r, [requests[r] EXCEPT !.at = at, !.hash = n])

\* A step of r with or without Redis, on some keys of its own.
ServiceStep(r, keys) ==
  \/ \E rs : Continues(r, rs) /\ Goes(rs)
  \/ \E effect, replied, failed :
        /\ DOMAIN effect \subseteq DOMAIN store \cup keys
        /\ Continues(r, replied) /\ Continues(r, failed)
        /\ Command(effect, replied, failed)

\* A request keeps its kind until it ends.
KindsKept(rs) == \A x \in Requests : rs[x].kind \in {requests[x].kind, "idle"}

LEMMA ContinuesKind ==
  ASSUME Inv, NEW r \in Requests, NEW rs, Continues(r, rs) PROVE KindsKept(rs)
<1>1. requests = [x \in Requests |-> requests[x]] /\ "kind" \in DOMAIN requests[r]
  BY DEF Inv, Shapes, SeriesRequest, Plain
<1>2. CASE rs = With(r, Idle)
  BY <1>1, <1>2 DEF With, Idle, KindsKept
<1>3. ASSUME NEW at, rs = Goto(r, at) PROVE KindsKept(rs)
  <2> DEFINE q == [requests[r] EXCEPT !.at = at]
  <2>1. q.kind = requests[r].kind
    BY <1>1
  <2>2. \A x \in Requests : rs[x] = IF x = r THEN q ELSE requests[x]
    BY <1>1, <1>3 DEF Goto
  <2>3. QED
    BY <2>1, <2>2 DEF KindsKept
<1>4. ASSUME NEW at, NEW n, rs = With(r, [requests[r] EXCEPT !.at = at, !.read = n])
      PROVE  KindsKept(rs)
  <2> DEFINE q == [requests[r] EXCEPT !.at = at, !.read = n]
  <2>1. q.kind = requests[r].kind
    BY <1>1
  <2>2. \A x \in Requests : rs[x] = IF x = r THEN q ELSE requests[x]
    BY <1>1, <1>4 DEF With
  <2>3. QED
    BY <2>1, <2>2 DEF KindsKept
<1>5. ASSUME NEW at, NEW n, rs = With(r, [requests[r] EXCEPT !.at = at, !.hash = n])
      PROVE  KindsKept(rs)
  <2> DEFINE q == [requests[r] EXCEPT !.at = at, !.hash = n]
  <2>1. q.kind = requests[r].kind
    BY <1>1
  <2>2. \A x \in Requests : rs[x] = IF x = r THEN q ELSE requests[x]
    BY <1>1, <1>5 DEF With
  <2>3. QED
    BY <2>1, <2>2 DEF KindsKept
<1>6. QED
  BY <1>2, <1>3, <1>4, <1>5 DEF Continues

LEMMA ServiceStepKeeps ==
  ASSUME Inv, NEW r \in Requests, NEW keys, ServiceStep(r, keys)
  PROVE  KindsKept(requests') /\ DOMAIN store' \subseteq DOMAIN store \cup keys
<1>1. ASSUME NEW rs, Continues(r, rs), Goes(rs)
      PROVE  KindsKept(requests') /\ DOMAIN store' \subseteq DOMAIN store \cup keys
  <2>1. requests' = rs /\ store' = store
    BY <1>1 DEF Goes
  <2>2. QED
    BY <1>1, <2>1, ContinuesKind
<1>2. ASSUME NEW effect, NEW replied, NEW failed, DOMAIN effect \subseteq DOMAIN store \cup keys,
             Continues(r, replied), Continues(r, failed), Command(effect, replied, failed)
      PROVE  KindsKept(requests') /\ DOMAIN store' \subseteq DOMAIN store \cup keys
  <2>1. store' \in {store, effect} /\ requests' \in {replied, failed}
    BY <1>2, CommandEnds
  <2>2. KindsKept(requests')
    BY <1>2, <2>1, ContinuesKind
  <2>3. QED
    BY <1>2, <2>1, <2>2
<1>3. QED
  BY <1>1, <1>2 DEF ServiceStep

\* The instances of RedisConnection say the same of the same state.
LEMMA CommandsSame ==
  ASSUME NEW effect, NEW replied, NEW failed
  PROVE  Limiter!Command(effect, replied, failed) = Command(effect, replied, failed)
BY DEF Limiter!Command, Command, Limiter!connectionVars, connectionVars, Limiter!Lost, Lost,
   Limiter!scheduleReconnect, scheduleReconnect

LEMMA LimiterWords ==
  ASSUME NEW r
  PROVE  Limiter!Answered(r) = With(r, Idle) /\ \A at : Limiter!Goto(r, at) = Goto(r, at)
BY DEF Limiter!Answered, Limiter!With, With, Limiter!Idle, Idle, Limiter!Goto, Goto

\* The steps of the services are such steps.
LEMMA ServicesStep ==
  ASSUME NEW r \in Requests
  PROVE  /\ TransferSteps(r) => ServiceStep(r, {})
         /\ ViewSteps(r) => ServiceStep(r, {Defi!ListKey, Defi!BalanceKey})
         /\ AnalyticsSteps(r) \/ Analytics!QueryFails(r) => ServiceStep(r, {Key(s) : s \in Series})
         /\ LimiterSteps(r) => ServiceStep(r, {Limiter!generateKey(requests[r].time)})
<1>1. /\ \A keys : \A key \in keys : \A entry : DOMAIN Put(key, entry) \subseteq DOMAIN store \cup keys
      /\ \A key : DOMAIN Without(key) \subseteq DOMAIN store
  BY DEF Put, Without
<1>2. /\ Continues(r, With(r, Idle)) /\ \A at : Continues(r, Goto(r, at))
      /\ \A at, n : Continues(r, With(r, [requests[r] EXCEPT !.at = at, !.read = n]))
      /\ \A at, n : Continues(r, With(r, [requests[r] EXCEPT !.at = at, !.hash = n]))
  BY DEF Continues
<1>3. \A rs : Continues(r, rs) /\ Goes(rs) => \A keys : ServiceStep(r, keys)
  BY DEF ServiceStep
<1>4. \A effect, replied, failed, keys :
         DOMAIN effect \subseteq DOMAIN store \cup keys /\ Continues(r, replied) /\ Continues(r, failed)
         /\ Command(effect, replied, failed) => ServiceStep(r, keys)
  BY DEF ServiceStep
<1>5. ASSUME TransferSteps(r) PROVE ServiceStep(r, {})
  <2>1. \/ \E at : Goes(Goto(r, at))
        \/ \E at, n : Goes(With(r, [requests[r] EXCEPT !.at = at, !.read = n]))
        \/ \E at, n : Goes(With(r, [requests[r] EXCEPT !.at = at, !.hash = n]))
        \/ Goes(With(r, Idle))
    BY <1>5 DEF TransferSteps, Defi!deposit, Defi!withdraw, Defi!getPool, Defi!execute, Defi!Store,
       Defi!Fails, Defi!Goes, Goes, Defi!Goto, Goto, Defi!With, With, Defi!Idle, Idle,
       Defi!connectionVars, connectionVars
  <2>2. QED
    BY <1>2, <1>3, <2>1
<1>6. ASSUME ViewSteps(r) PROVE ServiceStep(r, {Defi!ListKey, Defi!BalanceKey})
  <2>1. \/ \E at : Goes(Goto(r, at))
        \/ \E at, n : Goes(With(r, [requests[r] EXCEPT !.at = at, !.read = n]))
        \/ \E at : Command(store, With(r, Idle), Goto(r, at))
        \/ \E at : Command(store, Goto(r, at), Goto(r, at))
        \/ Command(store, With(r, Idle), With(r, Idle))
        \/ \E at : Command(store, Goto(r, at), With(r, Idle))
        \/ \E key \in {Defi!ListKey, Defi!BalanceKey} : \E entry :
             Command(Put(key, entry), With(r, Idle), With(r, Idle))
    BY <1>6 DEF ViewSteps, Defi!listPools, Defi!getUserPoolBalance, Defi!callView, Defi!getJson,
       Defi!get, Defi!setJson, Defi!set, Defi!Put, Put, Defi!Command, Command, Defi!Lost, Lost,
       Defi!scheduleReconnect, scheduleReconnect,
       Defi!Goes, Goes, Defi!Goto, Goto, Defi!With, With, Defi!Idle, Idle,
       Defi!connectionVars, connectionVars
  <2>2. QED
    BY <1>1, <1>2, <1>3, <1>4, <2>1
<1>7. ASSUME NEW s \in Series, Analytics!CachedRead(r, s) PROVE ServiceStep(r, {Key(t) : t \in Series})
  <2>1. \/ \E at, n : Goes(With(r, [requests[r] EXCEPT !.at = at, !.read = n]))
        \/ \E at : Command(store, With(r, Idle), Goto(r, at)) \/ Command(store, Goto(r, at), Goto(r, at))
        \/ \E entry : Command(Put(Key(s), entry), With(r, Idle), With(r, Idle))
    BY <1>7 DEF Analytics!CachedRead, Analytics!getJson, Analytics!get, Analytics!setJson, Analytics!set,
       Analytics!Put, Put, Analytics!Command, Command, Analytics!Lost, Lost,
       Analytics!scheduleReconnect, scheduleReconnect, Analytics!Goes, Goes, Analytics!Goto, Goto,
       Analytics!With, With, Analytics!Idle, Idle, Analytics!connectionVars, connectionVars, Key
  <2>2. Key(s) \in {Key(t) : t \in Series}
    OBVIOUS
  <2> DEFINE keys == {Key(t) : t \in Series}
  <2> HIDE DEF keys
  <2>3. ServiceStep(r, keys)
    BY <1>1, <1>2, <1>3, <1>4, <2>1, <2>2 DEF keys
  <2>4. QED
    BY <2>3 DEF keys
<1>8. ASSUME NEW s \in Series, Analytics!Update(r, s, s) PROVE ServiceStep(r, {Key(t) : t \in Series})
  <2>1. Goes(Goto(r, "del")) \/ Command(Without(Key(s)), With(r, Idle), With(r, Idle))
    BY <1>8 DEF Analytics!Update, Analytics!del, Analytics!Without, Without, Analytics!Command, Command,
       Analytics!Lost, Lost, Analytics!scheduleReconnect, scheduleReconnect, Analytics!Goes, Goes,
       Analytics!Goto, Goto, Analytics!With, With, Analytics!Idle, Idle, Analytics!connectionVars,
       connectionVars, Key
  <2>2. QED
    BY <1>1, <1>2, <1>3, <1>4, <2>1
<1>9. ASSUME Analytics!QueryFails(r) PROVE ServiceStep(r, {Key(t) : t \in Series})
  <2>1. Goes(With(r, Idle))
    BY <1>9 DEF Analytics!QueryFails, Analytics!Goes, Goes, Analytics!With, With, Analytics!Idle, Idle,
       Analytics!connectionVars, connectionVars
  <2>2. QED
    BY <1>2, <1>3, <2>1
<1>10. ASSUME AnalyticsSteps(r) PROVE ServiceStep(r, {Key(t) : t \in Series})
  BY <1>7, <1>8, <1>10
  DEF AnalyticsSteps, Analytics!getPoolMetrics, Analytics!getCorrelations, Analytics!getCDRMetrics,
      Analytics!updateMetrics, Analytics!updateCorrelations, Analytics!updateCDR, Series, Analytics!Series
<1>11. ASSUME LimiterSteps(r) PROVE ServiceStep(r, {Limiter!generateKey(requests[r].time)})
  <2> DEFINE key == Limiter!generateKey(requests[r].time)
             e1 == IF {m \in Limiter!Members(key) : m > Limiter!getWindowStart(requests[r].time)} = {}
                   THEN Limiter!Without(key)
                   ELSE [store EXCEPT ![key].value =
                           {m \in Limiter!Members(key) : m > Limiter!getWindowStart(requests[r].time)}]
             e2 == Limiter!Put(key, [value |-> Limiter!Members(key) \union {requests[r].time},
                                     expires |-> key \in DOMAIN store /\ store[key].expires])
             e3 == IF key \in DOMAIN store THEN [store EXCEPT ![key].expires = TRUE] ELSE store
  <2>1. DOMAIN e1 \subseteq DOMAIN store \cup {key}
    BY DEF Limiter!Without
  <2>2. DOMAIN e2 \subseteq DOMAIN store \cup {key}
    BY DEF Limiter!Put
  <2>3. DOMAIN e3 \subseteq DOMAIN store \cup {key}
    OBVIOUS
  <2> HIDE DEF e1, e2, e3
  <2>4. \/ Goes(With(r, Idle))
        \/ Command(e1, Goto(r, "count"), With(r, Idle))
        \/ \E at, to : Command(store, Goto(r, at), Goto(r, to))
        \/ Command(e2, Goto(r, "expire"), With(r, Idle))
        \/ Command(e3, With(r, Idle), With(r, Idle))
    <3>1. CASE Limiter!Refuse(r)
      BY <3>1 DEF Limiter!Refuse, Limiter!Goes, Goes, Limiter!Answered, Limiter!With, With, Limiter!Idle,
         Idle, Limiter!connectionVars, connectionVars
    <3>2. ASSUME Limiter!At(r, {"limit"}, "clean"),
                 Limiter!zRemRangeByScore(key, Limiter!getWindowStart(requests[r].time),
                   Limiter!Goto(r, "count"), Limiter!Answered(r))
          PROVE  Command(e1, Goto(r, "count"), With(r, Idle))
      <4>1. Limiter!Command(e1, Limiter!Goto(r, "count"), Limiter!Answered(r))
        BY <3>2 DEF Limiter!zRemRangeByScore, e1
      <4>2. QED
        BY <4>1, CommandsSame, LimiterWords
    <3>3. CASE Limiter!getCurrentCount(r)
      <4>1. PICK at, to : Limiter!Command(store, Limiter!Goto(r, at), Limiter!Goto(r, to))
        BY <3>3 DEF Limiter!getCurrentCount, Limiter!Decide
      <4>2. QED
        BY <4>1, CommandsSame, LimiterWords
    <3>4. ASSUME Limiter!zAdd(key, requests[r].time, Limiter!Goto(r, "expire"), Limiter!Answered(r))
          PROVE  Command(e2, Goto(r, "expire"), With(r, Idle))
      <4>1. Limiter!Command(e2, Limiter!Goto(r, "expire"), Limiter!Answered(r))
        BY <3>4 DEF Limiter!zAdd, e2
      <4>2. QED
        BY <4>1, CommandsSame, LimiterWords
    <3>5. ASSUME Limiter!expire(key, Limiter!Answered(r), Limiter!Answered(r))
          PROVE  Command(e3, With(r, Idle), With(r, Idle))
      <4>1. Limiter!Command(e3, Limiter!Answered(r), Limiter!Answered(r))
        BY <3>5 DEF Limiter!expire, e3
      <4>2. QED
        BY <4>1, CommandsSame, LimiterWords
    <3>6. QED
      BY <1>11, <3>1, <3>2, <3>3, <3>4, <3>5 DEF LimiterSteps, Limiter!checkRateLimit, Limiter!Record
  <2>5. \A at : Continues(r, Goto(r, at))
    BY <1>2
  <2>6. QED
    BY <1>2, <1>3, <1>4, <2>1, <2>2, <2>3, <2>4, <2>5
<1>12. QED
  BY <1>5, <1>6, <1>9, <1>10, <1>11

\* Who asks, and what is added to Redis, is the service's own.
LEMMA ApartStep ==
  ASSUME Apart, UNCHANGED service,
         \A x \in Requests : requests'[x].kind \in {requests[x].kind, "idle"} \cup KindsOf(service),
         service # "limiter" => \A k \in DOMAIN store' : k \in DOMAIN store \/ k[1] # "ratelimit"
  PROVE  Apart'
BY DEF Apart, KindsOf

\* The arrival of a request of a kind of the service.
LEMMA ApartArrives ==
  ASSUME Inv, Apart, UNCHANGED service, NEW r \in Requests, NEW q, q.kind \in KindsOf(service),
         requests' = [requests EXCEPT ![r] = q], UNCHANGED store
  PROVE  Apart'
<1>1. \A x \in Requests : requests'[x] = IF x = r THEN q ELSE requests[x]
  BY DEF Inv, Shapes
<1>2. QED
  BY <1>1, ApartStep

LEMMA ApartExpires ==
  ASSUME Inv, Apart, UNCHANGED <<service, requests>>, DOMAIN store' \subseteq DOMAIN store
  PROVE  Apart'
BY ApartStep

LEMMA ApartNext == Inv /\ Apart /\ [Next]_vars => Apart'
<1> SUFFICES ASSUME Inv, Apart, [Next]_vars PROVE Apart'
  OBVIOUS
<1>0. UNCHANGED service
  BY DEF Next, vars
<1>1. CASE UNCHANGED vars
  BY <1>1, ApartExpires DEF vars, redisVars
<1>2. CASE Connection
  <2>1. CASE Restart
    <3>1. requests' = [r \in Requests |-> [kind |-> "idle"]] /\ store' = store
      BY <2>1 DEF Restart, Idle
    <3>2. QED
      BY <1>0, <3>1, ApartStep
  <2>2. CASE Ready \/ ServerDown \/ ServerUp \/ ReconnectTimer
    BY <1>0, <2>2, ApartExpires DEF Ready, ServerDown, ServerUp, ReconnectTimer
  <2>3. QED
    BY <1>2, <2>1, <2>2 DEF Connection
<1>3. ASSUME NEW r \in Requests, NEW keys, ServiceStep(r, keys),
             service # "limiter" => \A k \in keys : k[1] # "ratelimit"
      PROVE  Apart'
  <2>1. KindsKept(requests') /\ DOMAIN store' \subseteq DOMAIN store \cup keys
    BY <1>3, ServiceStepKeeps
  <2>2. \A k \in DOMAIN store' : k \in DOMAIN store \/ k \in keys
    BY <2>1
  <2>3. QED
    BY <1>0, <1>3, <2>1, <2>2, ApartStep DEF KindsKept
<1>4. ASSUME NEW k \in DOMAIN store, Expires(k) PROVE Apart'
  <2>1. DOMAIN store' \subseteq DOMAIN store /\ requests' = requests
    BY <1>4 DEF Expires, Without
  <2>2. QED
    BY <1>0, <2>1, ApartExpires
<1>5. CASE LimiterNext
  <2>0. service = "limiter" /\ "limit" \in KindsOf(service)
    BY <1>5 DEF LimiterNext, KindsOf
  <2>1. CASE Limiter!Tick
    BY <1>0, <2>1, ApartExpires DEF Limiter!Tick, Limiter!redisVars
  <2>2. ASSUME NEW r \in Requests, Limiter!canActivate(r) PROVE Apart'
    <3>1. requests' = [requests EXCEPT ![r] = [kind |-> "limit", at |-> "clean", time |-> now]]
          /\ UNCHANGED store
      BY <2>2 DEF Limiter!canActivate, Limiter!Arrive, Limiter!With
    <3>2. QED
      BY <1>0, <2>0, <3>1, ApartArrives
  <2>3. ASSUME NEW r \in Requests, LimiterSteps(r) PROVE Apart'
    BY <1>3, <2>0, <2>3, ServicesStep
  <2>4. ASSUME NEW k \in DOMAIN store, Limiter!ExpireWindow(k) PROVE Apart'
    BY <1>4, <2>4
    DEF Limiter!ExpireWindow, Limiter!Expires, Expires, Limiter!Without, Without,
        Limiter!connectionVars, connectionVars
  <2>5. QED
    BY <1>5, <2>1, <2>2, <2>3, <2>4 DEF LimiterNext
<1>6. CASE AnalyticsNext
  <2>0. service \in Series /\ {"read", "update"} \subseteq KindsOf(service)
    BY <1>6 DEF AnalyticsNext, Series, Analytics!Series, KindsOf
  <2>1. \A k \in {Key(s) : s \in Series} : k[1] # "ratelimit"
    BY DEF Series, Analytics!Series, Key, Analytics!Key
  <2>2. ASSUME NEW r \in Requests, Analytics!getEndpoint(r, service) \/ Analytics!updateEndpoint(r, service)
        PROVE  Apart'
    <3>1. PICK q : q.kind \in {"read", "update"} /\ requests' = [requests EXCEPT ![r] = q] /\ UNCHANGED store
      BY <2>2 DEF Analytics!getEndpoint, Analytics!updateEndpoint, Analytics!Asks, Analytics!Arrive,
         Analytics!With
    <3>2. QED
      BY <1>0, <2>0, <3>1, ApartArrives
  <2>3. ASSUME NEW r \in Requests, AnalyticsSteps(r) \/ Analytics!QueryFails(r) PROVE Apart'
    BY <1>3, <2>1, <2>3, ServicesStep
  <2>4. QED
    BY <1>4, <1>6, <2>2, <2>3 DEF AnalyticsNext
<1>7. CASE TransferNext
  <2>0. service = "transfers" /\ {"deposit", "withdraw"} \subseteq KindsOf(service)
    BY <1>7 DEF TransferNext, KindsOf
  <2>1. ASSUME NEW r \in Requests, NEW a, Defi!depositEndpoint(r, a) \/ Defi!withdrawEndpoint(r, a)
        PROVE  Apart'
    <3>1. PICK q : q.kind \in {"deposit", "withdraw"} /\ requests' = [requests EXCEPT ![r] = q] /\ UNCHANGED store
      BY <2>1 DEF Defi!depositEndpoint, Defi!withdrawEndpoint, Defi!Moves, Defi!Arrive, Defi!With
    <3>2. QED
      BY <1>0, <2>0, <3>1, ApartArrives
  <2>2. ASSUME NEW r \in Requests, TransferSteps(r) PROVE Apart'
    BY <1>3, <2>2, ServicesStep
  <2>3. CASE UNCHANGED redisVars
    BY <1>0, <2>3, ApartExpires DEF redisVars
  <2>4. QED
    BY <1>7, <2>1, <2>2, <2>3 DEF TransferNext
<1>8. CASE ViewNext
  <2>0. service = "views" /\ {"listPools", "balance"} \subseteq KindsOf(service)
    BY <1>8 DEF ViewNext, KindsOf
  <2>1. \A k \in {Defi!ListKey, Defi!BalanceKey} : k[1] # "ratelimit"
    BY DEF Defi!ListKey, Defi!BalanceKey
  <2>2. ASSUME NEW r \in Requests, Defi!listPoolsEndpoint(r) \/ Defi!balanceEndpoint(r) PROVE Apart'
    <3>1. PICK q : q.kind \in {"listPools", "balance"} /\ requests' = [requests EXCEPT ![r] = q] /\ UNCHANGED store
      BY <2>2 DEF Defi!listPoolsEndpoint, Defi!balanceEndpoint, Defi!Arrive, Defi!With
    <3>2. QED
      BY <1>0, <2>0, <3>1, ApartArrives
  <2>3. ASSUME NEW r \in Requests, ViewSteps(r) PROVE Apart'
    BY <1>3, <2>1, <2>3, ServicesStep
  <2>4. QED
    BY <1>4, <1>8, <2>2, <2>3 DEF ViewNext
<1>9. QED
  BY <1>1, <1>2, <1>5, <1>6, <1>7, <1>8 DEF Next

-----------------------------------------------------------------------------
(* The windows of the limiter.  A request counts, adds itself and sets the   *)
(* expiry in three calls of Redis, so a window grows beyond the limit by the *)
(* requests that counted before the others added: each of those has its      *)
(* place in the bound from its count on.                                     *)

Second(t) == Limiter!Second(t)
Window(n) == <<"ratelimit", n>>

LimitRequest == [kind : {"limit"}, at : {"clean", "count", "add", "expire", "refused"}, time : Nat]

\* An entry of Redis that is a window of the second n.
EntryOK(entry, n) ==
  /\ entry \in [value : SUBSET Nat, expires : BOOLEAN]
  /\ IsFiniteSet(entry.value) /\ \A t \in entry.value : Second(t) = n

Windows ==
  /\ now \in Nat
  /\ \A r \in Requests : requests[r].kind = "limit" => requests[r] \in LimitRequest
  /\ \A k \in DOMAIN store : k[1] = "ratelimit" => \E n \in Nat : k = Window(n) /\ EntryOK(store[k], n)

\* The requests of a second at one of the limiter's calls.
In(r, at, n) == requests[r].kind = "limit" /\ requests[r].at = at /\ Second(requests[r].time) = n
Adding(n) == {r \in Requests : In(r, "add", n)}

\* The duration of the second is over, so that its window may expire.
Past(n) == Limiter!Over(Window(n))

\* While no operation was rejected: a request that is about to add itself counted
\* fewer than the limit, and one that was refused finds the window full until it may
\* expire.
Bounded(n) ==
  /\ Window(n) \in DOMAIN store \/ Adding(n) # {} =>
        Cardinality(Members(Window(n))) + Cardinality(Adding(n)) <= points + Cardinality(Requests) - 1
  /\ Window(n) \in DOMAIN store =>
        store[Window(n)].expires \/ \E r \in Requests : In(r, "expire", n)
  /\ (\E r \in Requests : In(r, "refused", n)) =>
        Past(n) \/ Cardinality(Members(Window(n))) >= points

LimiterInv == Windows /\ (~disturbed => \A n \in Nat : Bounded(n))

\* Seconds are no greater than milliseconds, so the cleaning, which compares the two,
\* never finds a time to remove.
LEMMA SecondOf == ASSUME NEW t \in Nat PROVE Second(t) \in Nat /\ Second(t) <= t
<1> DEFINE q == t \div MsPerSecond
<1>1. MsPerSecond \in Nat /\ MsPerSecond >= 1
  BY LimiterAssumption
<1>2. q \in Nat /\ q <= t
  BY <1>1, Z3
<1>3. QED
  BY <1>2 DEF Second, Limiter!Second

\* Members are a window's times.
LEMMA MembersOf ==
  ASSUME Windows, NEW n \in Nat
  PROVE  /\ IsFiniteSet(Members(Window(n)))
         /\ Cardinality(Members(Window(n))) \in Nat
         /\ \A t \in Members(Window(n)) : t \in Nat /\ Second(t) = n
         /\ Window(n) \in DOMAIN store => EntryOK(store[Window(n)], n)
<1>1. Window(n) \in DOMAIN store => EntryOK(store[Window(n)], n)
  BY DEF Windows, Window
<1>2. IsFiniteSet(Members(Window(n))) /\ \A t \in Members(Window(n)) : t \in Nat /\ Second(t) = n
  BY <1>1, FS_EmptySet DEF Members, EntryOK
<1>3. QED
  BY <1>1, <1>2, FS_CardinalityType

\* Requests are finitely many, and so are those of them at a call.
LEMMA AddingOf ==
  ASSUME NEW S \in SUBSET Requests
  PROVE  /\ IsFiniteSet(S) /\ Cardinality(S) \in Nat /\ Cardinality(S) <= Cardinality(Requests)
         /\ Cardinality(Requests) \in Nat
BY RedisAssumption, FS_Subset, FS_CardinalityType

\* The requests after a step of r to the call at, or to its end.
After(r, at) == IF at = "gone" THEN With(r, Idle) ELSE Goto(r, at)

\* What a step of r makes of Redis and of its request unless an operation is rejected.
Does(r, entries, at) ==
  LET key == Window(Second(requests[r].time)) IN
  \/ /\ requests[r].at = "clean" /\ at = "count"
     /\ \A k \in DOMAIN entries : k \in DOMAIN store /\ entries[k] = store[k]
     /\ \A k \in DOMAIN store : k \in DOMAIN entries \/ store[k].value = {}
  \/ /\ requests[r].at = "count" /\ entries = store
     /\ at = IF Cardinality(Members(key)) >= points THEN "refused" ELSE "add"
  \/ /\ requests[r].at = "add" /\ at = "expire"
     /\ entries = Put(key, [value   |-> Members(key) \union {requests[r].time},
                            expires |-> key \in DOMAIN store /\ store[key].expires])
  \/ /\ requests[r].at = "expire" /\ at = "gone"
     /\ entries = IF key \in DOMAIN store THEN [store EXCEPT ![key].expires = TRUE] ELSE store
  \/ requests[r].at = "refused" /\ at = "gone" /\ entries = store

\* The instance of RateLimiter over the same state.
LEMMA LimiterSame ==
  ASSUME NEW r, NEW key
  PROVE  /\ Limiter!generateKey(requests[r].time) = Window(Second(requests[r].time))
         /\ Limiter!Members(key) = Members(key) /\ Limiter!Without(key) = Without(key)
         /\ \A entry : Limiter!Put(key, entry) = Put(key, entry)
         /\ \A kinds, at : Limiter!At(r, kinds, at) = At(r, kinds, at)
BY DEF Limiter!generateKey, Window, Second, Limiter!Members, Members, Limiter!Without, Without,
   Limiter!Put, Put, Limiter!At, At

\* A command that ends as Does says, or is rejected.
LEMMA CommandDoes ==
  ASSUME NEW r \in Requests, NEW e, NEW at, NEW at2, Command(e, After(r, at), After(r, at2)), Does(r, e, at)
  PROVE  /\ requests' = After(r, at) \/ requests' = After(r, at2)
         /\ store' \in {store, e} /\ Does(r, e, at)
         /\ ~disturbed' => ~disturbed /\ store' = e /\ requests' = After(r, at)
BY CommandEnds

\* Every step of a request of the limiter is one of those.
LEMMA LimiterDoes ==
  ASSUME Windows, NEW r \in Requests, LimiterSteps(r)
  PROVE  /\ requests[r] \in LimitRequest
         /\ \E e : \E at \in {"count", "add", "refused", "expire", "gone"} :
              /\ Does(r, e, at) /\ store' \in {store, e}
              /\ \E at2 \in {"count", "add", "refused", "expire", "gone"} :
                    requests' = After(r, at) \/ requests' = After(r, at2)
              /\ ~disturbed' => ~disturbed /\ store' = e /\ requests' = After(r, at)
<1> DEFINE n == Second(requests[r].time)
           key == Window(n)
           Ats == {"count", "add", "refused", "expire", "gone"}
<1>1. requests[r].kind = "limit"
  BY DEF LimiterSteps, Limiter!Refuse, Limiter!checkRateLimit, Limiter!getCurrentCount, Limiter!Record,
     Limiter!At
<1>2. requests[r] \in LimitRequest
  BY <1>1 DEF Windows
<1>3. n \in Nat /\ requests[r].time \in Nat
  BY <1>2, SecondOf DEF LimitRequest
<1>4. Limiter!getWindowStart(requests[r].time) = n - duration /\ duration \in Nat \ {0}
  BY LimiterAssumption DEF Limiter!getWindowStart, Second
<1>5. \A m \in Members(key) : m > n - duration
  <2>1. \A m \in Members(key) : m \in Nat /\ Second(m) = n
    BY <1>3, MembersOf
  <2>2. \A m \in Members(key) : n <= m
    BY <2>1, SecondOf
  <2>3. QED
    BY <1>3, <1>4, <2>1, <2>2
<1>6. SUFFICES ASSUME TRUE
      PROVE  \E e : \E at, at2 \in Ats :
               /\ Does(r, e, at) /\ store' \in {store, e}
               /\ requests' = After(r, at) \/ requests' = After(r, at2)
               /\ ~disturbed' => ~disturbed /\ store' = e /\ requests' = After(r, at)
  BY <1>2
<1>7. ASSUME NEW e, NEW at \in Ats, NEW at2 \in Ats, Command(e, After(r, at), After(r, at2)), Does(r, e, at)
      PROVE  \E f : \E a, a2 \in Ats :
               /\ Does(r, f, a) /\ store' \in {store, f}
               /\ requests' = After(r, a) \/ requests' = After(r, a2)
               /\ ~disturbed' => ~disturbed /\ store' = f /\ requests' = After(r, a)
  BY <1>7, CommandDoes
<1>8. /\ \A at \in Ats \ {"gone"} : Goto(r, at) = After(r, at)
      /\ With(r, Idle) = After(r, "gone")
  BY DEF After
<1>9. CASE Limiter!Refuse(r)
  <2>1. /\ requests[r].at = "refused" /\ requests' = After(r, "gone") /\ UNCHANGED <<store, disturbed>>
    BY <1>9 DEF Limiter!Refuse, Limiter!At, Limiter!Goes, Limiter!Answered, Limiter!With, With,
       Limiter!Idle, Idle, After
  <2>2. Does(r, store, "gone")
    BY <2>1 DEF Does
  <2>3. QED
    BY <2>1, <2>2
<1>10. CASE Limiter!At(r, {"limit"}, "clean")
            /\ Limiter!zRemRangeByScore(key, Limiter!getWindowStart(requests[r].time),
                                        Limiter!Goto(r, "count"), Limiter!Answered(r))
  <2> DEFINE left == {m \in Members(key) : m > n - duration}
             e == IF left = {} THEN Without(key) ELSE [store EXCEPT ![key].value = left]
  <2>1. Limiter!Command(e, Limiter!Goto(r, "count"), Limiter!Answered(r))
    BY <1>4, <1>10, LimiterSame DEF Limiter!zRemRangeByScore
  <2>2. left = Members(key)
    BY <1>5
  <2> HIDE DEF left
  <2>3. /\ \A k \in DOMAIN e : k \in DOMAIN store /\ e[k] = store[k]
        /\ \A k \in DOMAIN store : k \in DOMAIN e \/ store[k].value = {}
    <3>1. CASE left = {}
      <4>1. /\ DOMAIN e = DOMAIN store \ {key} /\ \A k \in DOMAIN e : e[k] = store[k]
        BY <3>1 DEF Without
      <4>2. key \in DOMAIN store => store[key].value = {}
        BY <2>2, <3>1 DEF Members
      <4>3. QED
        BY <4>1, <4>2
    <3>2. CASE left # {}
      <4>1. key \in DOMAIN store /\ left = store[key].value
        BY <2>2, <3>2 DEF Members
      <4>2. store[key] \in [value : SUBSET Nat, expires : BOOLEAN]
        BY <1>3, <4>1, MembersOf DEF EntryOK
      <4>3. [store[key] EXCEPT !.value = left] = store[key]
        BY <4>1, <4>2
      <4>4. e = [store EXCEPT ![key] = [store[key] EXCEPT !.value = left]]
        BY <3>2
      <4>5. QED
        BY <4>1, <4>3, <4>4
    <3>3. QED
      BY <3>1, <3>2
  <2> HIDE DEF e
  <2>4. Command(e, After(r, "count"), After(r, "gone"))
    BY <1>8, <2>1, CommandsSame, LimiterWords
  <2>5. Does(r, e, "count")
    BY <1>10, <2>3 DEF Does, Limiter!At
  <2>6. QED
    BY <1>7, <2>4, <2>5
<1>11. CASE Limiter!At(r, {"limit"}, "count") /\ Limiter!getCurrentCount(r)
  <2> DEFINE at == IF Cardinality(Members(key)) >= points THEN "refused" ELSE "add"
  <2>1. Limiter!zCount(key, n - duration) = Cardinality(Members(key))
    <3>1. {m \in Members(key) : m >= n - duration} = Members(key)
      <4>1. \A m \in Members(key) : m \in Nat
        BY <1>3, MembersOf
      <4>2. QED
        BY <1>3, <1>4, <1>5, <4>1
    <3>2. Limiter!Members(key) = Members(key)
      BY LimiterSame
    <3>3. Limiter!zCount(key, n - duration) = Cardinality({m \in Limiter!Members(key) : m >= n - duration})
      BY DEF Limiter!zCount, Limiter!Cardinality, Cardinality
    <3>4. QED
      BY <3>1, <3>2, <3>3
  <2>2. PICK at2 \in {"refused", "add"} : Limiter!Command(store, Limiter!Goto(r, at), Limiter!Goto(r, at2))
    BY <1>4, <1>11, <2>1, LimiterSame DEF Limiter!getCurrentCount, Limiter!Decide
  <2>3. Does(r, store, at)
    BY <1>11 DEF Does, Limiter!At
  <2>4. at \in {"refused", "add"}
    OBVIOUS
  <2> HIDE DEF at
  <2>5. Command(store, After(r, at), After(r, at2))
    BY <1>8, <2>2, <2>4, CommandsSame, LimiterWords
  <2>6. QED
    BY <1>7, <2>3, <2>4, <2>5
<1>12. CASE Limiter!At(r, {"limit"}, "add")
            /\ Limiter!zAdd(key, requests[r].time, Limiter!Goto(r, "expire"), Limiter!Answered(r))
  <2> DEFINE e == Put(key, [value   |-> Members(key) \union {requests[r].time},
                            expires |-> key \in DOMAIN store /\ store[key].expires])
  <2>1. Limiter!Command(e, Limiter!Goto(r, "expire"), Limiter!Answered(r))
    BY <1>12, LimiterSame DEF Limiter!zAdd
  <2>2. Does(r, e, "expire")
    BY <1>12 DEF Does, Limiter!At
  <2> HIDE DEF e
  <2>3. Command(e, After(r, "expire"), After(r, "gone"))
    BY <1>8, <2>1, CommandsSame, LimiterWords
  <2>4. QED
    BY <1>7, <2>2, <2>3
<1>13. CASE Limiter!At(r, {"limit"}, "expire")
            /\ Limiter!expire(key, Limiter!Answered(r), Limiter!Answered(r))
  <2> DEFINE e == IF key \in DOMAIN store THEN [store EXCEPT ![key].expires = TRUE] ELSE store
  <2>1. Limiter!Command(e, Limiter!Answered(r), Limiter!Answered(r))
    BY <1>13 DEF Limiter!expire
  <2>2. Does(r, e, "gone")
    BY <1>13 DEF Does, Limiter!At
  <2> HIDE DEF e
  <2>3. Command(e, After(r, "gone"), After(r, "gone"))
    BY <1>8, <2>1, CommandsSame, LimiterWords
  <2>4. QED
    BY <1>7, <2>2, <2>3
<1>14. QED
  BY <1>9, <1>10, <1>11, <1>12, <1>13, LimiterSame
  DEF LimiterSteps, Limiter!checkRateLimit, Limiter!Record

\* What After makes of the requests.
LEMMA AfterOf ==
  ASSUME Inv, NEW r \in Requests, requests[r] \in LimitRequest,
         NEW at \in {"count", "add", "refused", "expire", "gone"}, requests' = After(r, at)
  PROVE  /\ \A x \in Requests \ {r} : requests'[x] = requests[x]
         /\ at = "gone" => requests'[r].kind = "idle"
         /\ at # "gone" => /\ requests'[r] \in LimitRequest /\ requests'[r].kind = "limit"
                           /\ requests'[r].at = at /\ requests'[r].time = requests[r].time
<1>1. requests = [x \in Requests |-> requests[x]]
  BY DEF Inv, Shapes
<1>2. CASE at = "gone"
  BY <1>1, <1>2 DEF After, With, Idle
<1>3. CASE at # "gone"
  <2> DEFINE q == [requests[r] EXCEPT !.at = at]
  <2>1. q \in LimitRequest /\ q.kind = "limit" /\ q.at = at /\ q.time = requests[r].time
    BY <1>3 DEF LimitRequest
  <2>2. \A x \in Requests : requests'[x] = IF x = r THEN q ELSE requests[x]
    BY <1>1, <1>3 DEF After, Goto
  <2>3. QED
    BY <1>3, <2>1, <2>2
<1>4. QED
  BY <1>2, <1>3

\* The entries are windows still.
LEMMA DoesWindows ==
  ASSUME Windows, NEW r \in Requests, requests[r] \in LimitRequest, NEW e, NEW at, Does(r, e, at)
  PROVE  LET n == Second(requests[r].time) IN
         \A k \in DOMAIN e : \/ k \in DOMAIN store /\ e[k] = store[k]
                             \/ k = Window(n) /\ EntryOK(e[k], n)
<1> DEFINE n == Second(requests[r].time)
           key == Window(n)
<1>1. n \in Nat /\ requests[r].time \in Nat
  BY SecondOf DEF LimitRequest
<1>2. /\ IsFiniteSet(Members(key)) /\ \A t \in Members(key) : t \in Nat /\ Second(t) = n
      /\ key \in DOMAIN store => EntryOK(store[key], n)
  BY <1>1, MembersOf
<1>3. CASE requests[r].at \in {"clean", "count", "refused"}
  BY <1>3 DEF Does
<1>4. CASE requests[r].at = "add"
  <2> DEFINE entry == [value   |-> Members(key) \union {requests[r].time},
                       expires |-> key \in DOMAIN store /\ store[key].expires]
  <2>1. e = Put(key, entry)
    BY <1>4 DEF Does
  <2>2. \A k \in DOMAIN e : e[k] = IF k = key THEN entry ELSE store[k]
    BY <2>1 DEF Put
  <2>3. \A k \in DOMAIN e : k = key \/ k \in DOMAIN store
    BY <2>1 DEF Put
  <2>4. EntryOK(entry, n)
    <3>1. (key \in DOMAIN store /\ store[key].expires) \in BOOLEAN
      BY Zenon
    <3>2. IsFiniteSet(Members(key) \union {requests[r].time})
      BY <1>2, FS_AddElement
    <3>3. /\ Members(key) \union {requests[r].time} \in SUBSET Nat
          /\ \A t \in Members(key) \union {requests[r].time} : Second(t) = n
      BY <1>1, <1>2
    <3>4. QED
      BY <3>1, <3>2, <3>3 DEF EntryOK
  <2>5. QED
    BY <2>2, <2>3, <2>4
<1>5. CASE requests[r].at = "expire"
  <2>1. CASE key \in DOMAIN store
    <3> DEFINE entry == [store[key] EXCEPT !.expires = TRUE]
    <3>1. EntryOK(entry, n)
      BY <1>2, <2>1 DEF EntryOK
    <3>2. \A k \in DOMAIN e : k \in DOMAIN store /\ e[k] = IF k = key THEN entry ELSE store[k]
      BY <1>5, <2>1 DEF Does
    <3>3. QED
      BY <3>1, <3>2
  <2>2. CASE key \notin DOMAIN store
    BY <1>5, <2>2 DEF Does
  <2>3. QED
    BY <2>1, <2>2
<1>6. QED
  BY <1>3, <1>4, <1>5 DEF LimitRequest

LEMMA WindowsStep ==
  ASSUME Windows, now' \in Nat,
         \A r \in Requests : requests'[r].kind = "limit" =>
            requests'[r] = requests[r] \/ requests'[r] \in LimitRequest,
         \A k \in DOMAIN store' : k[1] = "ratelimit" =>
            \/ k \in DOMAIN store /\ store'[k] = store[k]
            \/ \E n \in Nat : k = Window(n) /\ EntryOK(store'[k], n)
  PROVE  Windows'
BY DEF Windows, EntryOK, LimitRequest, Second, Limiter!Second, Window

\* A second whose requests at the calls that matter, and whose window, did not change,
\* except that requests may end their counting and the window may expire.
LEMMA BoundedElsewhere ==
  ASSUME Windows, NEW n \in Nat, Bounded(n),
         Window(n) \in DOMAIN store' => Window(n) \in DOMAIN store /\ store'[Window(n)] = store[Window(n)],
         Past(n) => Past(n)', Members(Window(n))' = Members(Window(n)) \/ Past(n)',
         \A r \in Requests : /\ In(r, "add", n)' => In(r, "add", n)
                             /\ In(r, "refused", n)' => In(r, "refused", n)
                             /\ In(r, "expire", n) => In(r, "expire", n)'
  PROVE  Bounded(n)'
<1> DEFINE key == Window(n)
           A == {r \in Requests : In(r, "add", n)}
           AA == {r \in Requests : In(r, "add", n)'}
<1>1. AA \in SUBSET A /\ A \in SUBSET Requests
  OBVIOUS
<1>2. /\ Cardinality(AA) \in Nat /\ Cardinality(A) \in Nat /\ Cardinality(AA) <= Cardinality(A)
      /\ Cardinality(Requests) \in Nat /\ points \in Nat
  BY <1>1, AddingOf, FS_Subset, LimiterAssumption
<1>3. /\ Cardinality(Members(key)) \in Nat
      /\ key \in DOMAIN store' => Members(key)' = Members(key)
      /\ key \notin DOMAIN store' => Members(key)' = {}
  BY MembersOf DEF Members, Window
<1>4. /\ key \in DOMAIN store \/ A # {} =>
            Cardinality(Members(key)) + Cardinality(A) <= points + Cardinality(Requests) - 1
      /\ key \in DOMAIN store => store[key].expires \/ \E r \in Requests : In(r, "expire", n)
      /\ (\E r \in Requests : In(r, "refused", n)) => Past(n) \/ Cardinality(Members(key)) >= points
  BY DEF Bounded, Adding
<1>5. Cardinality({}) = 0
  BY FS_EmptySet
<1>6. key \in DOMAIN store' \/ AA # {} =>
        Cardinality(Members(key)') + Cardinality(AA) <= points + Cardinality(Requests) - 1
  <2> HIDE DEF AA, A, key
  <2>1. AA # {} => A # {}
    BY <1>1
  <2>2. CASE key \in DOMAIN store'
    <3>1. key \in DOMAIN store
      BY <2>2 DEF key
    <3>2. QED
      BY <1>2, <1>3, <1>4, <2>2, <3>1
  <2>3. CASE key \notin DOMAIN store' /\ AA # {}
    BY <1>2, <1>3, <1>4, <1>5, <2>1, <2>3
  <2>4. QED
    BY <2>2, <2>3
<1>7. key \in DOMAIN store' => store'[key].expires \/ \E r \in Requests : In(r, "expire", n)'
  BY <1>4
<1>8. (\E r \in Requests : In(r, "refused", n)') => Past(n)' \/ Cardinality(Members(key)') >= points
  BY <1>4
<1>9. AA = Adding(n)' /\ key = Window(n)'
  BY DEF Adding, Window
<1> HIDE DEF AA, A, key
<1>10. QED
  BY <1>6, <1>7, <1>8, <1>9 DEF Bounded, key

\* A step of the limiter that is not rejected keeps the bound of the second it is for.
LEMMA BoundedHere ==
  ASSUME Inv, Windows, Windows', NEW r \in Requests, requests[r] \in LimitRequest,
         NEW at \in {"count", "add", "refused", "expire", "gone"},
         requests' = After(r, at), Does(r, store', at), now' = now,
         NEW n \in Nat, n = Second(requests[r].time), Bounded(n)
  PROVE  Bounded(n)'
<1>0. PICK t : t = requests[r].time
  OBVIOUS
<1> DEFINE key == Window(n)
           A == Adding(n)
           AA == {x \in Requests : In(x, "add", n)'}
<1>2. t \in Nat /\ n = Second(t) /\ requests[r].kind = "limit"
  BY <1>0 DEF LimitRequest
<1>3. /\ \A x \in Requests \ {r} : requests'[x] = requests[x]
      /\ at = "gone" => requests'[r].kind = "idle"
      /\ at # "gone" => requests'[r].kind = "limit" /\ requests'[r].at = at /\ requests'[r].time = t
  BY <1>0, AfterOf
<1>4. /\ \A x \in Requests \ {r} : \A a \in {"add", "refused", "expire"} : In(x, a, n)' <=> In(x, a, n)
      /\ \A a \in {"add", "refused", "expire"} : In(r, a, n)' <=> at = a
      /\ \A a \in {"add", "refused", "expire"} : In(r, a, n) <=> requests[r].at = a
  BY <1>0, <1>2, <1>3 DEF In, Second, Limiter!Second
<1>5. /\ A \in SUBSET Requests /\ AA \in SUBSET Requests /\ AA = Adding(n)' /\ key = Window(n)'
      /\ AA \ {r} = A \ {r} /\ (r \in A <=> requests[r].at = "add") /\ (r \in AA <=> at = "add")
  BY <1>4 DEF Adding, Window
<1>6. /\ IsFiniteSet(Members(key)) /\ Cardinality(Members(key)) \in Nat
      /\ key \in DOMAIN store => EntryOK(store[key], n)
      /\ points \in Nat /\ Cardinality(Requests) \in Nat
      /\ \A S \in SUBSET Requests :
           IsFiniteSet(S) /\ Cardinality(S) \in Nat /\ Cardinality(S) <= Cardinality(Requests)
  BY MembersOf, AddingOf, LimiterAssumption
<1>7. /\ key \in DOMAIN store \/ A # {} =>
            Cardinality(Members(key)) + Cardinality(A) <= points + Cardinality(Requests) - 1
      /\ key \in DOMAIN store => store[key].expires \/ \E x \in Requests : In(x, "expire", n)
      /\ (\E x \in Requests : In(x, "refused", n)) => Past(n) \/ Cardinality(Members(key)) >= points
  BY DEF Bounded
<1>8. /\ requests[r].at \in {"clean", "count", "add", "expire", "refused"}
      /\ Does(r, store', at)
  BY DEF LimitRequest
<1>p. Past(n)' <=> Past(n)
  BY DEF Past, Limiter!Over, Window
<1>9. CASE requests[r].at \in {"clean", "refused"}
  <2>1. at \in {"count", "gone"}
    BY <1>8, <1>9 DEF Does
  <2>2. key \in DOMAIN store' => key \in DOMAIN store /\ store'[key] = store[key]
    BY <1>8, <1>9 DEF Does
  <2>3. \A x \in Requests : /\ In(x, "add", n)' => In(x, "add", n)
                            /\ In(x, "refused", n)' => In(x, "refused", n)
                            /\ In(x, "expire", n) => In(x, "expire", n)'
    BY <1>4, <1>9, <2>1
  <2>4. key \in DOMAIN store => key \in DOMAIN store' \/ store[key].value = {}
    BY <1>8, <1>9 DEF Does
  <2>5. Members(key)' = Members(key)
    BY <2>2, <2>4 DEF Members, Window
  <2>6. QED
    BY <1>p, <2>2, <2>3, <2>5, BoundedElsewhere
<1>10. SUFFICES ASSUME requests[r].at \in {"count", "add", "expire"}
       PROVE  /\ key \in DOMAIN store' \/ AA # {} =>
                   Cardinality(Members(key)') + Cardinality(AA) <= points + Cardinality(Requests) - 1
              /\ key \in DOMAIN store' => store'[key].expires \/ \E x \in Requests : In(x, "expire", n)'
              /\ (\E x \in Requests : In(x, "refused", n)') =>
                   Past(n)' \/ Cardinality(Members(key)') >= points
  BY <1>5, <1>8, <1>9 DEF Bounded, Window
<1>11. CASE requests[r].at = "count"
  <2>1. /\ store' = store /\ at = IF Cardinality(Members(key)) >= points THEN "refused" ELSE "add"
        /\ Members(key)' = Members(key)
    BY <1>8, <1>11 DEF Does, Members, Window
  <2>2. \A x \in Requests : (In(x, "expire", n)' <=> In(x, "expire", n))
    BY <1>4, <1>11, <2>1
  <2>3. CASE Cardinality(Members(key)) >= points
    <3>1. at = "refused"
      BY <2>1, <2>3
    <3>2. A = AA
      BY <1>5, <1>11, <3>1
    <3>3. QED
      BY <1>7, <1>p, <2>1, <2>2, <2>3, <3>2
  <2>4. CASE ~(Cardinality(Members(key)) >= points)
    <3>1. at = "add"
      BY <2>1, <2>4
    <3>2. Cardinality(Members(key)) + Cardinality(AA) <= points + Cardinality(Requests) - 1
      BY <1>5, <1>6, <2>4
    <3>3. \A x \in Requests : In(x, "refused", n)' => In(x, "refused", n)
      BY <1>4, <3>1
    <3>4. QED
      BY <1>7, <1>p, <2>1, <2>2, <3>2, <3>3
  <2>5. QED
    BY <2>3, <2>4
<1>12. CASE requests[r].at = "add"
  <2>1. /\ at = "expire"
        /\ store' = Put(key, [value   |-> Members(key) \union {t},
                              expires |-> key \in DOMAIN store /\ store[key].expires])
    BY <1>0, <1>8, <1>12 DEF Does
  <2>2. key \in DOMAIN store' /\ store'[key].value = Members(key) \union {t}
    BY <2>1 DEF Put
  <2>3. Members(key)' = Members(key) \union {t}
    BY <2>2 DEF Members, Window
  <2>4. /\ Cardinality(Members(key)') \in Nat
        /\ Cardinality(Members(key)') <= Cardinality(Members(key)) + 1
        /\ Cardinality(Members(key)') >= Cardinality(Members(key))
    <3>1. \/ t \in Members(key) /\ Members(key)' = Members(key)
          \/ t \notin Members(key) /\ Cardinality(Members(key) \cup {t}) = Cardinality(Members(key)) + 1
      <4>1. CASE t \in Members(key)
        <5>1. Members(key) \union {t} = Members(key)
          BY <4>1
        <5>2. QED
          BY <2>3, <4>1, <5>1
      <4>2. CASE t \notin Members(key)
        BY <1>6, <4>2, FS_AddElement
      <4>3. QED
        BY <4>1, <4>2
    <3>2. QED
      BY <1>6, <2>3, <3>1
  <2>5. r \in A /\ AA = A \ {r}
    BY <1>5, <1>12, <2>1
  <2>6. Cardinality(AA) = Cardinality(A) - 1 /\ Cardinality(A) \in Nat
    BY <1>5, <1>6, <2>5, FS_RemoveElement
  <2>7. Cardinality(Members(key)') + Cardinality(AA) <= points + Cardinality(Requests) - 1
    BY <1>6, <1>7, <2>4, <2>5, <2>6
  <2>8. In(r, "expire", n)'
    BY <1>4, <2>1
  <2>9. ASSUME NEW x \in Requests, In(x, "refused", n)'
        PROVE  Past(n)' \/ Cardinality(Members(key)') >= points
    <3>1. In(x, "refused", n)
      BY <1>4, <2>1, <2>9
    <3>2. Past(n) \/ Cardinality(Members(key)) >= points
      BY <1>7, <3>1
    <3>3. QED
      BY <1>6, <1>p, <2>4, <3>2
  <2>10. QED
    BY <2>7, <2>8, <2>9
<1>13. CASE requests[r].at = "expire"
  <2>1. at = "gone" /\ store' = IF key \in DOMAIN store THEN [store EXCEPT ![key].expires = TRUE] ELSE store
    BY <1>8, <1>13 DEF Does
  <2>2. key \in DOMAIN store' => key \in DOMAIN store /\ store'[key] = [store[key] EXCEPT !.expires = TRUE]
    BY <2>1
  <2>3. key \in DOMAIN store' => store'[key].expires /\ store'[key].value = store[key].value
    BY <1>6, <2>2 DEF EntryOK
  <2>4. Members(key)' = Members(key)
    BY <2>1, <2>2, <2>3 DEF Members, Window
  <2>5. A = AA
    BY <1>5, <1>13, <2>1
  <2>6. \A x \in Requests : In(x, "refused", n)' => In(x, "refused", n)
    BY <1>4, <2>1
  <2>7. QED
    BY <1>7, <1>p, <2>2, <2>3, <2>4, <2>5, <2>6
<1>14. QED
  BY <1>10, <1>11, <1>12, <1>13

\* Nothing of the limiter's moves, except that requests may end or new ones start to
\* clean, windows that may expire go, and time passes.
LEMMA LimiterStays ==
  ASSUME LimiterInv, now' \in Nat, now <= now', ~disturbed' => ~disturbed,
         \A r \in Requests :
            \/ requests'[r] = requests[r]
            \/ requests'[r].kind = "limit" /\ requests[r].kind # "limit"
               /\ requests'[r] \in LimitRequest /\ requests'[r].at = "clean"
            \/ /\ requests'[r].kind # "limit"
               /\ ~disturbed' => ~(requests[r].kind = "limit" /\ requests[r].at = "expire"),
         \A k \in DOMAIN store' : k[1] = "ratelimit" => k \in DOMAIN store /\ store'[k] = store[k],
         \A n \in Nat : Window(n) \in DOMAIN store => Window(n) \in DOMAIN store' \/ Past(n)
  PROVE  LimiterInv'
<1>0. Windows
  BY DEF LimiterInv
<1>1. Windows'
  <2>1. \A r \in Requests : requests'[r].kind = "limit" =>
           requests'[r] = requests[r] \/ requests'[r] \in LimitRequest
    OBVIOUS
  <2>2. QED
    BY <1>0, <2>1, WindowsStep
<1>2. ASSUME ~disturbed', NEW n \in Nat PROVE Bounded(n)'
  <2>1. Bounded(n)
    BY <1>2 DEF LimiterInv
  <2>2. Window(n) \in DOMAIN store' => Window(n) \in DOMAIN store /\ store'[Window(n)] = store[Window(n)]
    BY DEF Window
  <2>3. Past(n) => Past(n)'
    <3>1. /\ Limiter!Over(Window(n)) <=> now >= (n + duration) * MsPerSecond
          /\ Limiter!Over(Window(n))' <=> now' >= (n + duration) * MsPerSecond
      BY DEF Limiter!Over, Window
    <3> DEFINE end == (n + duration) * MsPerSecond
    <3>2. end \in Int /\ now \in Nat
      BY LimiterAssumption DEF LimiterInv, Windows
    <3> HIDE DEF end
    <3>3. now >= end => now' >= end
      BY <3>2
    <3>4. QED
      BY <3>1, <3>3 DEF Past, end
  <2>4. Members(Window(n))' = Members(Window(n)) \/ Past(n)'
    <3>1. CASE Window(n) \in DOMAIN store'
      BY <2>2, <3>1 DEF Members, Window
    <3>2. CASE Window(n) \notin DOMAIN store'
      <4>1. CASE Window(n) \in DOMAIN store
        BY <2>3, <3>2, <4>1
      <4>2. CASE Window(n) \notin DOMAIN store
        BY <3>2, <4>2 DEF Members, Window
      <4>3. QED
        BY <4>1, <4>2
    <3>3. QED
      BY <3>1, <3>2
  <2>5. \A r \in Requests : /\ In(r, "add", n)' => In(r, "add", n)
                            /\ In(r, "refused", n)' => In(r, "refused", n)
                            /\ In(r, "expire", n) => In(r, "expire", n)'
    <3> SUFFICES ASSUME NEW r \in Requests
                 PROVE  /\ In(r, "add", n)' => In(r, "add", n)
                        /\ In(r, "refused", n)' => In(r, "refused", n)
                        /\ In(r, "expire", n) => In(r, "expire", n)'
      OBVIOUS
    <3>1. CASE requests'[r] = requests[r]
      BY <3>1 DEF In, Second, Limiter!Second
    <3>2. CASE requests'[r].kind = "limit" /\ requests[r].kind # "limit" /\ requests'[r].at = "clean"
      BY <3>2 DEF In
    <3>3. CASE requests'[r].kind # "limit" /\ ~(requests[r].kind = "limit" /\ requests[r].at = "expire")
      BY <3>3 DEF In
    <3>4. QED
      BY <1>2, <3>1, <3>2, <3>3
  <2>6. QED
    BY <1>0, <2>1, <2>2, <2>3, <2>4, <2>5, BoundedElsewhere DEF LimiterInv
<1>3. QED
  BY <1>1, <1>2 DEF LimiterInv

\* A step of a request of the limiter keeps the invariant.
LEMMA LimiterRequestStep ==
  ASSUME Inv, LimiterInv, now' = now, NEW r \in Requests, LimiterSteps(r) PROVE LimiterInv'
<1>1. Windows
  BY DEF LimiterInv
<1> DEFINE Ats == {"count", "add", "refused", "expire", "gone"}
<1>2. PICK e : \E at \in Ats :
              /\ requests[r] \in LimitRequest
              /\ Does(r, e, at) /\ store' \in {store, e}
              /\ \E at2 \in Ats : requests' = After(r, at) \/ requests' = After(r, at2)
              /\ ~disturbed' => ~disturbed /\ store' = e /\ requests' = After(r, at)
  BY <1>1, LimiterDoes
<1>3. PICK at \in Ats :
              /\ requests[r] \in LimitRequest
              /\ Does(r, e, at) /\ store' \in {store, e}
              /\ \E at2 \in Ats : requests' = After(r, at) \/ requests' = After(r, at2)
              /\ ~disturbed' => ~disturbed /\ store' = e /\ requests' = After(r, at)
  BY <1>2
<1>4. PICK t : t = requests[r].time
  OBVIOUS
<1>5. PICK m : m = Second(t)
  OBVIOUS
<1>6. t \in Nat /\ m \in Nat
  BY <1>3, <1>4, <1>5, SecondOf DEF LimitRequest
<1>7. \A x \in Requests : requests'[x] = requests[x] \/ x = r
  BY <1>3, AfterOf
<1>8. requests'[r].kind = "limit" => requests'[r] \in LimitRequest /\ requests'[r].time = t
  BY <1>3, <1>4, AfterOf
<1>9. \A k \in DOMAIN e : \/ k \in DOMAIN store /\ e[k] = store[k]
                          \/ k = Window(m) /\ EntryOK(e[k], m)
  <2>1. m = Second(requests[r].time)
    BY <1>4, <1>5
  <2>2. LET n == Second(requests[r].time) IN
        \A k \in DOMAIN e : \/ k \in DOMAIN store /\ e[k] = store[k]
                            \/ k = Window(n) /\ EntryOK(e[k], n)
    BY <1>1, <1>3, DoesWindows
  <2>3. QED
    BY <2>1, <2>2
<1>10. Windows'
  <2>1. \A x \in Requests : requests'[x].kind = "limit" =>
           requests'[x] = requests[x] \/ requests'[x] \in LimitRequest
    BY <1>7, <1>8
  <2>2. \A k \in DOMAIN store' : \/ k \in DOMAIN store /\ store'[k] = store[k]
                                 \/ k = Window(m) /\ EntryOK(store'[k], m)
    BY <1>3, <1>9
  <2>3. now' \in Nat
    BY <1>1 DEF Windows
  <2>4. QED
    BY <1>1, <1>6, <2>1, <2>2, <2>3, WindowsStep
<1>11. ASSUME ~disturbed', NEW n \in Nat PROVE Bounded(n)'
  <2>1. /\ store' = e /\ requests' = After(r, at) /\ Does(r, store', at) /\ Bounded(n)
    BY <1>3, <1>11 DEF LimiterInv
  <2>2. CASE n = m
    <3>1. n = Second(requests[r].time)
      BY <1>4, <1>5, <2>2
    <3>2. QED
      BY <1>1, <1>3, <1>10, <2>1, <3>1, BoundedHere
  <2>3. CASE n # m
    <3>1. Window(n) # Window(m)
      BY <2>3 DEF Window
    <3>2. Window(n) \in DOMAIN store' => Window(n) \in DOMAIN store /\ store'[Window(n)] = store[Window(n)]
      BY <1>9, <2>1, <3>1
    <3>3. Window(n) \in DOMAIN store => Window(n) \in DOMAIN store' \/ store[Window(n)].value = {}
      BY <2>1 DEF Does, Put
    <3>4. Members(Window(n))' = Members(Window(n))
      BY <3>2, <3>3 DEF Members, Window
    <3>5. \A x \in Requests : /\ In(x, "add", n)' => In(x, "add", n)
                              /\ In(x, "refused", n)' => In(x, "refused", n)
                              /\ In(x, "expire", n) => In(x, "expire", n)'
      BY <1>4, <1>5, <1>7, <1>8, <2>3 DEF In, Second, Limiter!Second
    <3>6. Past(n) => Past(n)'
      BY DEF Past, Limiter!Over, Window
    <3>7. QED
      BY <1>1, <2>1, <3>2, <3>4, <3>5, <3>6, BoundedElsewhere
  <2>4. QED
    BY <2>2, <2>3
<1>12. QED
  BY <1>10, <1>11 DEF LimiterInv

\* The other services have no request of the limiter and no window.
LEMMA LimiterAbsent ==
  ASSUME Apart', service' # "limiter", now' \in Nat PROVE LimiterInv'
<1>1. \A r \in Requests : requests'[r].kind # "limit"
  BY DEF Apart, KindsOf
<1>2. \A k \in DOMAIN store' : k[1] # "ratelimit"
  BY DEF Apart
<1>3. Windows'
  BY <1>1, <1>2 DEF Windows
<1>4. ASSUME NEW n \in Nat PROVE Bounded(n)'
  <2>1. Window(n)' \notin DOMAIN store'
    BY <1>2 DEF Window
  <2>2. \A r \in Requests : ~In(r, "add", n)' /\ ~In(r, "refused", n)'
    BY <1>1 DEF In
  <2>3. Adding(n)' = {}
    BY <2>2 DEF Adding
  <2>4. QED
    BY <2>1, <2>2, <2>3 DEF Bounded
<1>5. QED
  BY <1>3, <1>4 DEF LimiterInv

LEMMA LimiterNextInv == Inv /\ Apart /\ LimiterInv /\ [Next]_vars /\ Apart' => LimiterInv'
<1> SUFFICES ASSUME Inv, Apart, LimiterInv, [Next]_vars, Apart' PROVE LimiterInv'
  OBVIOUS
<1>0. service' = service /\ now \in Nat
  BY DEF Next, vars, LimiterInv, Windows
<1>1. CASE UNCHANGED <<store, requests, disturbed>> /\ now' \in Nat /\ now <= now'
  <2>1. \A n \in Nat : Window(n) \in DOMAIN store => Window(n) \in DOMAIN store' \/ Past(n)
    BY <1>1
  <2>2. ~disturbed' => ~disturbed
    BY <1>1, Zenon
  <2>3. QED
    BY <1>1, <2>1, <2>2, LimiterStays
<1>2. CASE UNCHANGED vars
  BY <1>0, <1>1, <1>2 DEF vars, redisVars, limiterVars
<1>3. ASSUME UNCHANGED limiterVars, service # "limiter" PROVE LimiterInv'
  BY <1>0, <1>3, LimiterAbsent DEF limiterVars
<1>4. CASE Connection /\ UNCHANGED limiterVars
  <2>1. CASE Restart
    <3>1. /\ requests' = [r \in Requests |-> [kind |-> "idle"]] /\ store' = store
          /\ disturbed' = (disturbed \/ ~Quiet) /\ now' = now
      BY <1>4, <2>1 DEF Restart, Idle, limiterVars
    <3>2. ~disturbed' => ~disturbed /\ \A r \in Requests : requests[r].kind = "idle"
      BY <3>1, Zenon DEF Quiet, Running
    <3>3. /\ \A n \in Nat : Window(n) \in DOMAIN store => Window(n) \in DOMAIN store' \/ Past(n)
          /\ \A r \in Requests :
               /\ requests'[r].kind # "limit"
               /\ ~disturbed' => ~(requests[r].kind = "limit" /\ requests[r].at = "expire")
      BY <3>1, <3>2
    <3>4. now' \in Nat /\ now <= now'
      BY <1>0, <3>1
    <3>5. QED
      BY <3>1, <3>2, <3>3, <3>4, LimiterStays
  <2>2. CASE Ready \/ ServerDown \/ ServerUp
    BY <1>0, <1>1, <1>4, <2>2 DEF Ready, ServerDown, ServerUp, limiterVars
  <2>3. CASE ReconnectTimer
    <3>1. /\ UNCHANGED <<store, requests>> /\ disturbed' = TRUE /\ now' = now
      BY <1>4, <2>3 DEF ReconnectTimer, limiterVars
    <3>2. \A n \in Nat : Window(n) \in DOMAIN store => Window(n) \in DOMAIN store' \/ Past(n)
      BY <3>1
    <3>3. QED
      BY <1>0, <3>1, <3>2, LimiterStays
  <2>4. QED
    BY <1>4, <2>1, <2>2, <2>3 DEF Connection
<1>5. CASE LimiterNext
  <2>1. CASE Limiter!Tick
    BY <1>0, <1>1, <2>1 DEF Limiter!Tick, Limiter!redisVars
  <2>2. ASSUME NEW r \in Requests, Limiter!canActivate(r), UNCHANGED now PROVE LimiterInv'
    <3> DEFINE q == [kind |-> "limit", at |-> "clean", time |-> now]
    <3>1. /\ requests' = [requests EXCEPT ![r] = q] /\ UNCHANGED <<store, disturbed>>
          /\ requests[r].kind = "idle"
      BY <2>2 DEF Limiter!canActivate, Limiter!Arrive, Limiter!With, Limiter!Running
    <3>2. q \in LimitRequest /\ q.kind = "limit" /\ q.at = "clean"
      BY <1>0 DEF LimitRequest
    <3> HIDE DEF q
    <3>3. \A x \in Requests : requests'[x] = IF x = r THEN q ELSE requests[x]
      <4>1. requests = [x \in Requests |-> requests[x]]
        BY DEF Inv, Shapes
      <4>2. QED
        BY <3>1, <4>1
    <3>4. \A x \in Requests :
            \/ requests'[x] = requests[x]
            \/ requests'[x].kind = "limit" /\ requests[x].kind # "limit"
               /\ requests'[x] \in LimitRequest /\ requests'[x].at = "clean"
      BY <3>1, <3>2, <3>3
    <3>5. /\ \A n \in Nat : Window(n) \in DOMAIN store => Window(n) \in DOMAIN store' \/ Past(n)
          /\ \A k \in DOMAIN store' : k \in DOMAIN store /\ store'[k] = store[k]
          /\ now' \in Nat /\ now <= now'
      BY <1>0, <2>2, <3>1
    <3>6. ~disturbed' => ~disturbed
      BY <3>1, Zenon
    <3>7. QED
      BY <3>4, <3>5, <3>6, LimiterStays
  <2>3. ASSUME NEW r \in Requests, LimiterSteps(r), UNCHANGED now PROVE LimiterInv'
    BY <2>3, LimiterRequestStep
  <2>4. ASSUME NEW k \in DOMAIN store, Limiter!ExpireWindow(k), UNCHANGED now PROVE LimiterInv'
    <3>1. /\ store' = [x \in DOMAIN store \ {k} |-> store[x]] /\ UNCHANGED <<requests, disturbed>>
          /\ Limiter!Over(k)
      BY <2>4 DEF Limiter!ExpireWindow, Limiter!Expires, Limiter!Without
    <3>2. \A n \in Nat : Window(n) \in DOMAIN store => Window(n) \in DOMAIN store' \/ Past(n)
      BY <3>1 DEF Past
    <3>3. \A x \in DOMAIN store' : x \in DOMAIN store /\ store'[x] = store[x]
      BY <3>1
    <3>4. ~disturbed' => ~disturbed
      BY <3>1, Zenon
    <3>5. now' \in Nat /\ now <= now'
      BY <1>0, <2>4
    <3>6. QED
      BY <3>1, <3>2, <3>3, <3>4, <3>5, LimiterStays
  <2>5. QED
    BY <1>5, <2>1, <2>2, <2>3, <2>4 DEF LimiterNext
<1>6. CASE AnalyticsNext \/ TransferNext \/ ViewNext
  BY <1>3, <1>6 DEF AnalyticsNext, TransferNext, ViewNext, Analytics!Series
<1>7. QED
  BY <1>2, <1>4, <1>5, <1>6 DEF Next

LEMMA InitLimiter == Init => Apart /\ LimiterInv
<1> SUFFICES ASSUME Init PROVE Apart /\ LimiterInv
  OBVIOUS
<1>1. /\ requests = [r \in Requests |-> [kind |-> "idle"]] /\ store = << >> /\ now = 0
  BY DEF Init, RedisInit, Idle
<1>2. Apart /\ Windows
  BY <1>1 DEF Apart, Windows
<1>3. ASSUME NEW n \in Nat PROVE Bounded(n)
  <2>1. Window(n) \notin DOMAIN store
    BY <1>1
  <2>2. \A r \in Requests : ~In(r, "add", n) /\ ~In(r, "refused", n)
    BY <1>1 DEF In
  <2>3. Adding(n) = {}
    BY <2>2 DEF Adding
  <2>4. QED
    BY <2>1, <2>2, <2>3 DEF Bounded
<1>4. QED
  BY <1>2, <1>3 DEF LimiterInv

LEMMA LimitHolds == LimiterInv => LimitPerSecond
<1> SUFFICES ASSUME LimiterInv, ~disturbed
             PROVE  /\ \A k \in Limiter!LimiterKeys :
                        /\ Cardinality(Members(k)) <= points + Cardinality(Requests) - 1
                        /\ store[k].expires \/ \E r \in Requests : At(r, {"limit"}, "expire")
                                                 /\ Limiter!generateKey(requests[r].time) = k
                    /\ \A r \in Requests :
                         LET key == Limiter!generateKey(requests[r].time) IN
                         At(r, {"limit"}, "refused") => Limiter!Over(key) \/ Cardinality(Members(key)) >= points
  BY DEF LimitPerSecond
<1>1. Windows /\ \A n \in Nat : Bounded(n)
  BY DEF LimiterInv
<1>2. ASSUME NEW k \in Limiter!LimiterKeys
      PROVE  /\ Cardinality(Members(k)) <= points + Cardinality(Requests) - 1
             /\ store[k].expires \/ \E r \in Requests : At(r, {"limit"}, "expire")
                                      /\ Limiter!generateKey(requests[r].time) = k
  <2>1. k \in DOMAIN store /\ k[1] = "ratelimit"
    BY <1>2 DEF Limiter!LimiterKeys
  <2>2. PICK n \in Nat : k = Window(n)
    BY <1>1, <2>1 DEF Windows
  <2>3. /\ Cardinality(Members(k)) \in Nat
        /\ Cardinality(Adding(n)) \in Nat /\ Cardinality(Requests) \in Nat /\ points \in Nat
    BY <1>1, <2>2, MembersOf, AddingOf, LimiterAssumption DEF Adding
  <2>4. /\ Cardinality(Members(k)) + Cardinality(Adding(n)) <= points + Cardinality(Requests) - 1
        /\ store[k].expires \/ \E r \in Requests : In(r, "expire", n)
    BY <1>1, <2>1, <2>2 DEF Bounded
  <2>5. \A r \in Requests : In(r, "expire", n) =>
          At(r, {"limit"}, "expire") /\ Limiter!generateKey(requests[r].time) = k
    BY <2>2, LimiterSame DEF In, At
  <2>6. QED
    BY <2>3, <2>4, <2>5
<1>3. ASSUME NEW r \in Requests, At(r, {"limit"}, "refused")
      PROVE  LET key == Limiter!generateKey(requests[r].time) IN
             Limiter!Over(key) \/ Cardinality(Members(key)) >= points
  <2>1. PICK n : n = Second(requests[r].time)
    OBVIOUS
  <2>2. n \in Nat
    BY <1>1, <1>3, <2>1, SecondOf DEF At, Windows, LimitRequest
  <2>3. Limiter!generateKey(requests[r].time) = Window(n)
    BY <2>1, LimiterSame
  <2>4. In(r, "refused", n)
    BY <1>3, <2>1 DEF In, At
  <2>5. Past(n) \/ Cardinality(Members(Window(n))) >= points
    BY <1>1, <2>2, <2>4 DEF Bounded
  <2>6. QED
    BY <2>3, <2>5 DEF Past
<1>4. QED
  BY <1>2, <1>3

\* While no operation was rejected, the set of a second grows no further than its limit
\* and the requests that can have counted before others added themselves, a refused
\* request finds it full until it may expire, and no set is left without an expiry:
\* checkRateLimit over separate calls of Redis, for every limit, duration and number
\* of requests. A set holds one member for all requests of a millisecond, so that this
\* bounds its members and not the requests that were admitted.
THEOREM MembersPerSecond == Spec => []LimitPerSecond
<1>1. Init => Inv /\ Apart /\ LimiterInv
  BY InitInv, InitLimiter
<1>2. Inv /\ Apart /\ LimiterInv /\ [Next]_vars => (Inv /\ Apart /\ LimiterInv)'
  BY NextInv, ApartNext, LimiterNextInv
<1>3. LimiterInv => LimitPerSecond
  BY LimitHolds
<1>4. QED
  BY <1>1, <1>2, <1>3, PTL DEF Spec

-----------------------------------------------------------------------------
(* The pool's total.  A movement saves what it read plus its amount, after it  *)
(* submitted its transaction and stored its row: what it read is the sum of     *)
(* some stored rows, to which its own is still to be added.                      *)

Movers == {"deposit", "withdraw"}
Mover == [kind : Movers, at : {"getPool", "starknet", "saveRow", "savePool"}, amount : DefiAmounts,
          read : Int, hash : Nat]
DeltaOf(q) == IF q.kind = "deposit" THEN q.amount ELSE -q.amount

\* Some of the rows tx add up to v, where txs are the submitted amounts.
SumOfSome(txs, tx, v) == \E counted \in SUBSET tx : v = SumFunctionOnSet(txs, counted)

\* What the movement q has read is the sum of some rows, its own not among them, and
\* its transaction, once submitted, is of its amount.
RowsOfOthers(q, tx) == IF q.at = "starknet" THEN tx ELSE tx \ {q.hash}
ReadsRows(q, txs, tx) ==
  /\ SumOfSome(txs, RowsOfOthers(q, tx), q.read)
  /\ q.at # "starknet" => q.hash \in DOMAIN txs /\ txs[q.hash] = DeltaOf(q)
  /\ q.at = "savePool" => q.hash \in tx

\* While movements come one at a time, the total, the rows and the submitted
\* transactions differ by what the movement q has done so far.
AloneWith(q, txs, tx, total) ==
  /\ q.at # "getPool" => q.read = total
  /\ tx = IF q.at = "saveRow" THEN DOMAIN txs \ {q.hash} ELSE DOMAIN txs
  /\ SumFunction(txs) = IF q.at \in {"saveRow", "savePool"} THEN total + DeltaOf(q) ELSE total

Moves(r) == requests[r].kind \in Movers

TotalsInv ==
  /\ totalValue \in Int /\ submitted \in Seq(Int)
  /\ transactions \subseteq DOMAIN submitted /\ accepted \subseteq DOMAIN submitted
  /\ SumOfSome(submitted, transactions, totalValue)
  /\ \A r \in Requests : Moves(r) =>
       /\ requests[r] \in Mover
       /\ requests[r].at # "getPool" => ReadsRows(requests[r], submitted, transactions)
  /\ serial =>
       /\ \A r, q \in Requests : Moves(r) /\ Moves(q) => q = r
       /\ \A r \in Requests : Moves(r) => AloneWith(requests[r], submitted, transactions, totalValue)
       /\ (\A r \in Requests : ~Moves(r)) =>
            transactions = DOMAIN submitted /\ totalValue = SumFunction(submitted)

LEMMA DeltaInt == ASSUME NEW q \in Mover PROVE DeltaOf(q) \in Int
<1>1. q.amount \in Int
  BY DefiAssumption DEF Mover
<1>2. QED
  BY <1>1 DEF DeltaOf

\* A transaction more: the sums over those before are the same, and with the new one
\* they are its amount more.
LEMMA SentMore ==
  ASSUME NEW txs \in Seq(Int), NEW d \in Int
  PROVE  LET more == Append(txs, d) IN
         /\ more \in Seq(Int) /\ DOMAIN more = DOMAIN txs \cup {Len(txs) + 1}
         /\ Len(txs) + 1 \notin DOMAIN txs /\ more[Len(txs) + 1] = d
         /\ \A i \in DOMAIN txs : more[i] = txs[i]
         /\ \A S \in SUBSET DOMAIN txs :
              /\ SumFunctionOnSet(more, S) = SumFunctionOnSet(txs, S)
              /\ SumFunctionOnSet(more, S \cup {Len(txs) + 1}) = SumFunctionOnSet(txs, S) + d
<1> DEFINE more == Append(txs, d)
           last == Len(txs) + 1
<1>1. /\ more \in Seq(Int) /\ DOMAIN more = DOMAIN txs \cup {last}
      /\ last \notin DOMAIN txs /\ more[last] = d
      /\ \A i \in DOMAIN txs : more[i] = txs[i] /\ txs[i] \in Int
      /\ DOMAIN txs = 1 .. Len(txs) /\ Len(txs) \in Nat
  OBVIOUS
<1> HIDE DEF more, last
<1>2. ASSUME NEW S \in SUBSET DOMAIN txs
      PROVE  /\ SumFunctionOnSet(more, S) = SumFunctionOnSet(txs, S)
             /\ SumFunctionOnSet(more, S \cup {last}) = SumFunctionOnSet(txs, S) + d
  <2>1. IsFiniteSet(S) /\ IsFiniteSet(S \cup {last})
    <3>1. IsFiniteSet(1 .. Len(txs))
      BY <1>1, FS_Interval
    <3>2. IsFiniteSet(S)
      BY <1>1, <3>1, FS_Subset
    <3>3. QED
      BY <3>2, FS_AddElement
  <2>2. SumFunctionOnSet(txs, S) = SumFunctionOnSet(more, S)
    BY <1>1, <2>1, SumAgree
  <2>3. \A i \in S \cup {last} : more[i] \in Int
    BY <1>1
  <2>4. SumFunctionOnSet(more, S \cup {last}) = more[last] + SumFunctionOnSet(more, (S \cup {last}) \ {last})
    BY <2>1, <2>3, SumRemove
  <2>5. (S \cup {last}) \ {last} = S
    BY <1>1
  <2>6. SumFunctionOnSet(more, S) \in Int
    BY <2>1, <2>3, SumInt
  <2>7. SumFunctionOnSet(more, S \cup {last}) = d + SumFunctionOnSet(more, S)
    BY <1>1, <2>4, <2>5
  <2>8. QED
    BY <2>2, <2>6, <2>7
<1>3. QED
  BY <1>1, <1>2 DEF more, last

\* A sum over transactions is an integer, and one that is not counted can be.
LEMMA SentSums ==
  ASSUME NEW txs \in Seq(Int), NEW S \in SUBSET DOMAIN txs
  PROVE  /\ SumFunctionOnSet(txs, S) \in Int
         /\ \A own \in DOMAIN txs \ S : SumFunctionOnSet(txs, S \cup {own}) = SumFunctionOnSet(txs, S) + txs[own]
<1>1. DOMAIN txs = 1 .. Len(txs) /\ Len(txs) \in Nat /\ \A i \in DOMAIN txs : txs[i] \in Int
  OBVIOUS
<1>2. IsFiniteSet(S)
  <2>1. IsFiniteSet(1 .. Len(txs))
    BY <1>1, FS_Interval
  <2>2. QED
    BY <1>1, <2>1, FS_Subset
<1>3. SumFunctionOnSet(txs, S) \in Int
  BY <1>1, <1>2, SumInt
<1>4. ASSUME NEW own \in DOMAIN txs \ S
      PROVE  SumFunctionOnSet(txs, S \cup {own}) = SumFunctionOnSet(txs, S) + txs[own]
  <2>1. IsFiniteSet(S \cup {own}) /\ \A i \in S \cup {own} : txs[i] \in Int
    BY <1>1, <1>2, FS_AddElement
  <2>2. SumFunctionOnSet(txs, S \cup {own}) = txs[own] + SumFunctionOnSet(txs, (S \cup {own}) \ {own})
    BY <2>1, SumRemove
  <2>3. (S \cup {own}) \ {own} = S /\ txs[own] \in Int
    BY <1>1, <1>4
  <2>4. SumFunctionOnSet(txs, S \cup {own}) = txs[own] + SumFunctionOnSet(txs, S)
    BY <2>2, <2>3
  <2>5. QED
    BY <1>3, <2>3, <2>4
<1>5. QED
  BY <1>3, <1>4

\* What holds of the rows still holds when a transaction is submitted.
LEMMA SentGrows ==
  ASSUME NEW txs \in Seq(Int), NEW d \in Int, NEW tx \in SUBSET DOMAIN txs
  PROVE  /\ \A v : SumOfSome(txs, tx, v) => SumOfSome(Append(txs, d), tx, v)
         /\ \A q : ReadsRows(q, txs, tx) => ReadsRows(q, Append(txs, d), tx)
         /\ SumFunction(Append(txs, d)) = SumFunction(txs) + d
<1> DEFINE more == Append(txs, d)
<1>1. /\ DOMAIN more = DOMAIN txs \cup {Len(txs) + 1} /\ Len(txs) + 1 \notin DOMAIN txs
      /\ \A i \in DOMAIN txs : more[i] = txs[i]
      /\ \A S \in SUBSET DOMAIN txs :
           /\ SumFunctionOnSet(more, S) = SumFunctionOnSet(txs, S)
           /\ SumFunctionOnSet(more, S \cup {Len(txs) + 1}) = SumFunctionOnSet(txs, S) + d
  BY SentMore
<1> HIDE DEF more
<1>2. \A v : SumOfSome(txs, tx, v) => SumOfSome(more, tx, v)
  BY <1>1 DEF SumOfSome
<1>3. \A q : ReadsRows(q, txs, tx) => ReadsRows(q, more, tx)
  <2> SUFFICES ASSUME NEW q, ReadsRows(q, txs, tx) PROVE ReadsRows(q, more, tx)
    OBVIOUS
  <2>1. PICK counted \in SUBSET RowsOfOthers(q, tx) : q.read = SumFunctionOnSet(txs, counted)
    BY DEF ReadsRows, SumOfSome
  <2>2. q.read = SumFunctionOnSet(more, counted)
    <3>1. counted \in SUBSET DOMAIN txs
      BY <2>1 DEF RowsOfOthers
    <3>2. QED
      BY <1>1, <2>1, <3>1
  <2>3. q.at # "starknet" => q.hash \in DOMAIN more /\ more[q.hash] = DeltaOf(q)
    BY <1>1 DEF ReadsRows
  <2>4. QED
    BY <2>1, <2>2, <2>3 DEF ReadsRows, SumOfSome
<1>4. SumFunction(more) = SumFunction(txs) + d
  <2>1. DOMAIN txs \in SUBSET DOMAIN txs
    OBVIOUS
  <2>2. QED
    BY <1>1, <2>1 DEF SumFunction
<1>5. QED
  BY <1>2, <1>3, <1>4 DEF more

\* And when a row is stored.
LEMMA RowsGrow ==
  ASSUME NEW txs, NEW tx, NEW more, tx \subseteq more
  PROVE  /\ \A v : SumOfSome(txs, tx, v) => SumOfSome(txs, more, v)
         /\ \A q : ReadsRows(q, txs, tx) => ReadsRows(q, txs, more)
<1>1. \A v : SumOfSome(txs, tx, v) => SumOfSome(txs, more, v)
  BY DEF SumOfSome
<1>2. \A q : ReadsRows(q, txs, tx) => ReadsRows(q, txs, more)
  <2> SUFFICES ASSUME NEW q, ReadsRows(q, txs, tx) PROVE ReadsRows(q, txs, more)
    OBVIOUS
  <2>1. PICK counted \in SUBSET RowsOfOthers(q, tx) : q.read = SumFunctionOnSet(txs, counted)
    BY DEF ReadsRows, SumOfSome
  <2>2. counted \in SUBSET RowsOfOthers(q, more)
    BY DEF RowsOfOthers
  <2>3. QED
    BY <2>1, <2>2 DEF ReadsRows, SumOfSome
<1>3. QED
  BY <1>1, <1>2

\* A step of a movement that goes on.
LEMMA TotalsMove ==
  ASSUME TotalsInv, NEW r \in Requests, Moves(r), NEW q \in Mover,
         \A x \in Requests : requests'[x] = IF x = r THEN q ELSE requests[x],
         totalValue' \in Int, submitted' \in Seq(Int),
         transactions' \subseteq DOMAIN submitted', accepted' \subseteq DOMAIN submitted',
         SumOfSome(submitted', transactions', totalValue'),
         \A p : ReadsRows(p, submitted, transactions) => ReadsRows(p, submitted', transactions'),
         q.at # "getPool" => ReadsRows(q, submitted', transactions'),
         serial' => serial /\ AloneWith(q, submitted', transactions', totalValue')
  PROVE  TotalsInv'
<1>1. q.kind \in Movers
  BY DEF Mover
<1>2. \A x \in Requests : Moves(x)' <=> Moves(x)
  BY <1>1 DEF Moves
<1>3. \A x \in Requests : Moves(x)' =>
        requests'[x] \in Mover /\ (requests'[x].at # "getPool" => ReadsRows(requests'[x], submitted', transactions'))
  BY <1>2 DEF TotalsInv
<1>4. ASSUME serial'
      PROVE  /\ \A x, y \in Requests : Moves(x)' /\ Moves(y)' => y = x
             /\ \A x \in Requests : Moves(x)' => AloneWith(requests'[x], submitted', transactions', totalValue')
             /\ ~ \A x \in Requests : ~Moves(x)'
  <2>1. \A x, y \in Requests : Moves(x) /\ Moves(y) => y = x
    BY <1>4 DEF TotalsInv
  <2>2. QED
    BY <1>2, <1>4, <2>1
<1>5. QED
  BY <1>3, <1>4 DEF TotalsInv

\* A movement ends.
LEMMA TotalsEnd ==
  ASSUME TotalsInv, NEW r \in Requests, Moves(r),
         \A x \in Requests : requests'[x] = IF x = r THEN [kind |-> "idle"] ELSE requests[x],
         totalValue' \in Int, submitted' \in Seq(Int),
         transactions' \subseteq DOMAIN submitted', accepted' \subseteq DOMAIN submitted',
         SumOfSome(submitted', transactions', totalValue'),
         \A p : ReadsRows(p, submitted, transactions) => ReadsRows(p, submitted', transactions'),
         serial' => serial /\ transactions' = DOMAIN submitted' /\ totalValue' = SumFunction(submitted')
  PROVE  TotalsInv'
<1>1. \A x \in Requests : Moves(x)' <=> Moves(x) /\ x # r
  BY DEF Moves, Movers
<1>2. \A x \in Requests : Moves(x)' => requests'[x] = requests[x]
  BY <1>1
<1>3. \A x \in Requests : Moves(x)' =>
        requests'[x] \in Mover /\ (requests'[x].at # "getPool" => ReadsRows(requests'[x], submitted', transactions'))
  BY <1>1, <1>2 DEF TotalsInv
<1>4. ASSUME serial' PROVE \A x \in Requests : ~Moves(x)'
  BY <1>1, <1>4 DEF TotalsInv
<1>5. QED
  BY <1>3, <1>4 DEF TotalsInv

\* The movements go on as they are, or end with the history that says so.
LEMMA TotalsStay ==
  ASSUME TotalsInv, UNCHANGED <<totalValue, submitted, transactions>>, accepted' \subseteq DOMAIN submitted,
         \A x \in Requests : Moves(x)' => requests'[x] = requests[x],
         serial' => serial /\ \A x \in Requests : Moves(x) => requests'[x] = requests[x]
  PROVE  TotalsInv'
<1>1. \A x \in Requests : Moves(x)' => Moves(x)
  BY DEF Moves
<1>2. \A x \in Requests : Moves(x)' =>
        requests'[x] \in Mover /\ (requests'[x].at # "getPool" => ReadsRows(requests'[x], submitted', transactions'))
  BY <1>1 DEF TotalsInv
<1>3. ASSUME serial'
      PROVE  /\ \A x, y \in Requests : Moves(x)' /\ Moves(y)' => y = x
             /\ \A x \in Requests : Moves(x)' => AloneWith(requests'[x], submitted', transactions', totalValue')
             /\ (\A x \in Requests : ~Moves(x)') =>
                  transactions' = DOMAIN submitted' /\ totalValue' = SumFunction(submitted')
  <2>1. \A x \in Requests : Moves(x) => Moves(x)'
    BY <1>3 DEF Moves
  <2>2. QED
    BY <1>1, <1>3, <2>1 DEF TotalsInv
<1>4. QED
  BY <1>2, <1>3 DEF TotalsInv

\* A movement starts: alone if no other is under way.
LEMMA TotalsArrive ==
  ASSUME TotalsInv, NEW r \in Requests, ~Moves(r), NEW q \in Mover, q.at = "getPool",
         \A x \in Requests : requests'[x] = IF x = r THEN q ELSE requests[x],
         UNCHANGED <<totalValue, submitted, transactions, accepted>>,
         serial' => serial /\ \A x \in Requests : ~Moves(x)
  PROVE  TotalsInv'
<1>1. q.kind \in Movers
  BY DEF Mover
<1>2. \A x \in Requests : Moves(x)' <=> Moves(x) \/ x = r
  BY <1>1 DEF Moves
<1>3. \A x \in Requests : Moves(x)' =>
        requests'[x] \in Mover /\ (requests'[x].at # "getPool" => ReadsRows(requests'[x], submitted', transactions'))
  BY <1>2 DEF TotalsInv
<1>4. ASSUME serial'
      PROVE  /\ \A x, y \in Requests : Moves(x)' /\ Moves(y)' => y = x
             /\ \A x \in Requests : Moves(x)' => AloneWith(requests'[x], submitted', transactions', totalValue')
             /\ ~ \A x \in Requests : ~Moves(x)'
  <2>1. \A x \in Requests : Moves(x)' <=> x = r
    BY <1>2, <1>4
  <2>2. transactions = DOMAIN submitted /\ totalValue = SumFunction(submitted)
    BY <1>4 DEF TotalsInv
  <2>3. AloneWith(q, submitted', transactions', totalValue')
    BY <2>2 DEF AloneWith
  <2>4. QED
    BY <2>1, <2>3
<1>5. QED
  BY <1>3, <1>4 DEF TotalsInv

\* Every step of a movement r, where m is its request and d its amount.
TransferStepOf(r, m, d) ==
  \/ /\ m.at = "getPool"
     /\ requests' = [requests EXCEPT ![r] = [m EXCEPT !.at = "starknet", !.read = totalValue]]
     /\ UNCHANGED <<totalValue, submitted, transactions, serial>>
  \/ /\ requests' = [requests EXCEPT ![r] = [kind |-> "idle"]] /\ serial' = FALSE
     /\ UNCHANGED <<totalValue, transactions>>
     /\ submitted' = submitted \/ submitted' = Append(submitted, d)
  \/ /\ m.at = "starknet"
     /\ requests' = [requests EXCEPT ![r] = [m EXCEPT !.at = "saveRow", !.hash = Len(submitted) + 1]]
     /\ submitted' = Append(submitted, d) /\ UNCHANGED <<totalValue, transactions, serial>>
  \/ /\ m.at = "saveRow" /\ requests' = [requests EXCEPT ![r] = [m EXCEPT !.at = "savePool"]]
     /\ transactions' = transactions \cup {m.hash} /\ UNCHANGED <<totalValue, submitted, serial>>
  \/ /\ m.at = "savePool" /\ requests' = [requests EXCEPT ![r] = [kind |-> "idle"]]
     /\ totalValue' = m.read + d /\ UNCHANGED <<submitted, transactions, serial>>

LEMMA TransferDoes ==
  ASSUME Inv, NEW r \in Requests, TransferSteps(r)
  PROVE  Moves(r) /\ UNCHANGED accepted /\ TransferStepOf(r, requests[r], DeltaOf(requests[r]))
<1>1. Moves(r)
  BY DEF TransferSteps, Defi!deposit, Defi!withdraw, Moves, Movers
<1>2. Defi!Delta(r) = DeltaOf(requests[r])
  BY DEF Defi!Delta, DeltaOf
<1>3. /\ \A at : [requests EXCEPT ![r].at = at] = [requests EXCEPT ![r] = [requests[r] EXCEPT !.at = at]]
      /\ \A at : Defi!Goto(r, at) = [requests EXCEPT ![r].at = at]
      /\ \A q : Defi!With(r, q) = [requests EXCEPT ![r] = q]
      /\ Defi!Idle = [kind |-> "idle"]
  BY DEF Defi!Goto, Defi!With, Defi!Idle
<1>4. Defi!getPool(r) \/ Defi!execute(r) \/ Defi!Store(r) \/ Defi!Fails(r)
  BY DEF TransferSteps, Defi!deposit, Defi!withdraw
<1>5. CASE Defi!getPool(r)
  BY <1>1, <1>3, <1>5 DEF TransferStepOf, Defi!getPool, Defi!At, Defi!Goes, Defi!defiVars
<1>6. CASE Defi!execute(r)
  BY <1>1, <1>2, <1>3, <1>6 DEF TransferStepOf, Defi!execute, Defi!At, Defi!Goes
<1>7. CASE Defi!Store(r)
  BY <1>1, <1>2, <1>3, <1>7 DEF TransferStepOf, Defi!Store, Defi!At, Defi!Goes, Defi!chainVars
<1>8. CASE Defi!Fails(r)
  BY <1>1, <1>3, <1>8 DEF TransferStepOf, Defi!Fails, Defi!Goes, Defi!chainVars
<1>9. QED
  BY <1>4, <1>5, <1>6, <1>7, <1>8

LEMMA TransferStepTotals ==
  ASSUME Inv, TotalsInv, NEW r \in Requests, TransferSteps(r) PROVE TotalsInv'
<1>0. PICK m : m = requests[r]
  OBVIOUS
<1>1. Moves(r) /\ UNCHANGED accepted /\ requests = [x \in Requests |-> requests[x]]
  BY TransferDoes DEF Inv, Shapes
<1>2. /\ m \in Mover /\ (m.at # "getPool" => ReadsRows(m, submitted, transactions))
      /\ serial => AloneWith(m, submitted, transactions, totalValue)
      /\ totalValue \in Int /\ submitted \in Seq(Int)
      /\ transactions \subseteq DOMAIN submitted /\ accepted \subseteq DOMAIN submitted
      /\ SumOfSome(submitted, transactions, totalValue)
  BY <1>0, <1>1 DEF TotalsInv
<1> DEFINE d == DeltaOf(m)
<1>3. d \in Int /\ m.read \in Int
  BY <1>2, DeltaInt DEF Mover
<1>4. /\ \A q : requests' = [requests EXCEPT ![r] = q] =>
              \A x \in Requests : requests'[x] = IF x = r THEN q ELSE requests[x]
      /\ d = DeltaOf(requests[r])
  BY <1>0, <1>1
<1> HIDE DEF d
<1>5. ASSUME m.at = "getPool",
             requests' = [requests EXCEPT ![r] = [m EXCEPT !.at = "starknet", !.read = totalValue]],
             UNCHANGED <<totalValue, submitted, transactions, serial>>
      PROVE  TotalsInv'
  <2> DEFINE q == [m EXCEPT !.at = "starknet", !.read = totalValue]
  <2>1. q \in Mover /\ q.at = "starknet" /\ q.read = totalValue /\ DeltaOf(q) = DeltaOf(m)
    BY <1>2 DEF Mover, DeltaOf
  <2>2. requests' = [requests EXCEPT ![r] = q]
    BY <1>5
  <2> HIDE DEF q
  <2>3. \A x \in Requests : requests'[x] = IF x = r THEN q ELSE requests[x]
    BY <1>4, <2>2
  <2>4. ReadsRows(q, submitted, transactions)
    BY <1>2, <2>1 DEF ReadsRows, RowsOfOthers
  <2>5. serial => AloneWith(q, submitted, transactions, totalValue)
    BY <1>2, <1>5, <2>1 DEF AloneWith
  <2>6. QED
    BY <1>1, <1>2, <1>5, <2>1, <2>3, <2>4, <2>5, TotalsMove
\* A transaction that was submitted leaves the rows and what was read of them.
<1>sent. ASSUME submitted' = Append(submitted, d)
      PROVE  /\ submitted' \in Seq(Int) /\ DOMAIN submitted' = DOMAIN submitted \cup {Len(submitted) + 1}
             /\ Len(submitted) + 1 \notin DOMAIN submitted /\ submitted'[Len(submitted) + 1] = d
             /\ SumOfSome(submitted', transactions, totalValue)
             /\ \A p : ReadsRows(p, submitted, transactions) => ReadsRows(p, submitted', transactions)
             /\ SumFunction(submitted') = SumFunction(submitted) + d
             /\ \A S \in SUBSET DOMAIN submitted :
                  SumFunctionOnSet(submitted', S) = SumFunctionOnSet(submitted, S)
  <2>1. /\ submitted' \in Seq(Int) /\ DOMAIN submitted' = DOMAIN submitted \cup {Len(submitted) + 1}
        /\ Len(submitted) + 1 \notin DOMAIN submitted /\ submitted'[Len(submitted) + 1] = d
        /\ \A S \in SUBSET DOMAIN submitted :
             SumFunctionOnSet(submitted', S) = SumFunctionOnSet(submitted, S)
    BY <1>2, <1>3, <1>sent, SentMore
  <2>2. /\ SumOfSome(submitted', transactions, totalValue)
        /\ \A p : ReadsRows(p, submitted, transactions) => ReadsRows(p, submitted', transactions)
        /\ SumFunction(submitted') = SumFunction(submitted) + d
    BY <1>2, <1>3, <1>sent, SentGrows
  <2>3. QED
    BY <2>1, <2>2
<1>6. ASSUME requests' = [requests EXCEPT ![r] = [kind |-> "idle"]], serial' = FALSE,
             UNCHANGED <<totalValue, transactions>>,
             submitted' = submitted \/ submitted' = Append(submitted, d)
      PROVE  TotalsInv'
  <2>1. /\ submitted' \in Seq(Int) /\ DOMAIN submitted \subseteq DOMAIN submitted'
        /\ SumOfSome(submitted', transactions, totalValue)
        /\ \A p : ReadsRows(p, submitted, transactions) => ReadsRows(p, submitted', transactions)
    BY <1>2, <1>6, <1>sent
  <2>2. QED
    BY <1>1, <1>2, <1>4, <1>6, <2>1, TotalsEnd
<1>7. ASSUME m.at = "starknet",
             requests' = [requests EXCEPT ![r] = [m EXCEPT !.at = "saveRow", !.hash = Len(submitted) + 1]],
             submitted' = Append(submitted, d), UNCHANGED <<totalValue, transactions, serial>>
      PROVE  TotalsInv'
  <2> DEFINE q == [m EXCEPT !.at = "saveRow", !.hash = Len(submitted) + 1]
  <2>0. PICK hash \in Nat : hash = Len(submitted) + 1
    BY <1>2
  <2>1. q \in Mover /\ q.at = "saveRow" /\ q.read = m.read /\ q.hash = hash /\ DeltaOf(q) = d
    BY <1>2, <2>0 DEF Mover, DeltaOf, d
  <2>2. requests' = [requests EXCEPT ![r] = q]
    BY <1>7
  <2> HIDE DEF q
  <2>3. \A x \in Requests : requests'[x] = IF x = r THEN q ELSE requests[x]
    BY <1>4, <2>2
  <2>4. /\ submitted' \in Seq(Int) /\ DOMAIN submitted' = DOMAIN submitted \cup {hash}
        /\ hash \notin DOMAIN submitted /\ submitted'[hash] = d
        /\ SumOfSome(submitted', transactions, totalValue)
        /\ \A p : ReadsRows(p, submitted, transactions) => ReadsRows(p, submitted', transactions)
        /\ SumFunction(submitted') = SumFunction(submitted) + d
        /\ \A S \in SUBSET DOMAIN submitted :
             SumFunctionOnSet(submitted', S) = SumFunctionOnSet(submitted, S)
    BY <1>7, <1>sent, <2>0
  <2>5. PICK counted \in SUBSET transactions : m.read = SumFunctionOnSet(submitted, counted)
    BY <1>2, <1>7 DEF ReadsRows, RowsOfOthers, SumOfSome
  <2>6. ReadsRows(q, submitted', transactions)
    <3>1. counted \in SUBSET (transactions \ {hash}) /\ q.read = SumFunctionOnSet(submitted', counted)
      BY <1>2, <2>1, <2>4, <2>5
    <3>2. q.hash \in DOMAIN submitted' /\ submitted'[q.hash] = DeltaOf(q)
      BY <2>1, <2>4
    <3>3. QED
      BY <2>1, <3>1, <3>2 DEF ReadsRows, RowsOfOthers, SumOfSome
  <2>7. serial => AloneWith(q, submitted', transactions, totalValue)
    <3> SUFFICES ASSUME serial PROVE AloneWith(q, submitted', transactions, totalValue)
      OBVIOUS
    <3>1. m.read = totalValue /\ transactions = DOMAIN submitted /\ SumFunction(submitted) = totalValue
      BY <1>2, <1>7 DEF AloneWith
    <3>2. transactions = DOMAIN submitted' \ {hash} /\ SumFunction(submitted') = totalValue + d
      BY <2>4, <3>1
    <3>3. QED
      BY <2>1, <3>1, <3>2 DEF AloneWith
  <2>8. QED
    BY <1>1, <1>2, <1>7, <2>1, <2>3, <2>4, <2>6, <2>7, TotalsMove
<1>8. ASSUME m.at = "saveRow", requests' = [requests EXCEPT ![r] = [m EXCEPT !.at = "savePool"]],
             transactions' = transactions \cup {m.hash}, UNCHANGED <<totalValue, submitted, serial>>
      PROVE  TotalsInv'
  <2> DEFINE q == [m EXCEPT !.at = "savePool"]
  <2>1. q \in Mover /\ q.at = "savePool" /\ q.read = m.read /\ q.hash = m.hash /\ DeltaOf(q) = d
    BY <1>2 DEF Mover, DeltaOf, d
  <2>2. requests' = [requests EXCEPT ![r] = q]
    BY <1>8
  <2> HIDE DEF q
  <2>3. \A x \in Requests : requests'[x] = IF x = r THEN q ELSE requests[x]
    BY <1>4, <2>2
  <2>4. m.hash \in DOMAIN submitted /\ submitted[m.hash] = d
    BY <1>2, <1>8 DEF ReadsRows, d
  <2>5. transactions \subseteq transactions' /\ transactions' \subseteq DOMAIN submitted
        /\ m.hash \in transactions' /\ transactions' \ {m.hash} = transactions \ {m.hash}
    BY <1>2, <1>8, <2>4
  <2>6. ReadsRows(q, submitted, transactions')
    <3>1. SumOfSome(submitted, transactions \ {m.hash}, m.read)
      BY <1>2, <1>8 DEF ReadsRows, RowsOfOthers
    <3>2. QED
      BY <2>1, <2>4, <2>5, <3>1 DEF ReadsRows, RowsOfOthers
  <2>7. /\ SumOfSome(submitted, transactions', totalValue)
        /\ \A p : ReadsRows(p, submitted, transactions) => ReadsRows(p, submitted, transactions')
    BY <1>2, <2>5, RowsGrow
  <2>8. serial => AloneWith(q, submitted, transactions', totalValue)
    <3> SUFFICES ASSUME serial PROVE AloneWith(q, submitted, transactions', totalValue)
      OBVIOUS
    <3>1. /\ m.read = totalValue /\ transactions = DOMAIN submitted \ {m.hash}
          /\ SumFunction(submitted) = totalValue + d
      BY <1>2, <1>8 DEF AloneWith, d
    <3>2. transactions' = DOMAIN submitted
      BY <1>8, <2>4, <3>1
    <3>3. QED
      BY <2>1, <3>1, <3>2 DEF AloneWith
  <2>9. QED
    BY <1>1, <1>2, <1>8, <2>1, <2>3, <2>5, <2>6, <2>7, <2>8, TotalsMove
<1>9. ASSUME m.at = "savePool", requests' = [requests EXCEPT ![r] = [kind |-> "idle"]],
             totalValue' = m.read + d, UNCHANGED <<submitted, transactions, serial>>
      PROVE  TotalsInv'
  <2>1. PICK counted \in SUBSET (transactions \ {m.hash}) : m.read = SumFunctionOnSet(submitted, counted)
    BY <1>2, <1>9 DEF ReadsRows, RowsOfOthers, SumOfSome
  <2>2. m.hash \in transactions /\ submitted[m.hash] = d
    BY <1>2, <1>9 DEF ReadsRows, d
  <2>3. SumFunctionOnSet(submitted, counted \cup {m.hash}) = SumFunctionOnSet(submitted, counted) + submitted[m.hash]
    BY <1>2, <2>2, SentSums
  <2>4. totalValue' = SumFunctionOnSet(submitted, counted \cup {m.hash})
    BY <1>9, <2>1, <2>2, <2>3
  <2>5. SumOfSome(submitted, transactions, totalValue') /\ totalValue' \in Int
    <3>1. counted \cup {m.hash} \in SUBSET transactions
      BY <2>2
    <3>2. QED
      BY <1>3, <1>9, <2>4, <3>1 DEF SumOfSome
  <2>6. serial => transactions = DOMAIN submitted /\ totalValue' = SumFunction(submitted)
    BY <1>2, <1>9 DEF AloneWith, d
  <2>7. QED
    BY <1>1, <1>2, <1>4, <1>9, <2>5, <2>6, TotalsEnd
<1>10. TransferStepOf(r, m, d)
  BY <1>0, <1>4, TransferDoes
<1>11. QED
  BY <1>5, <1>6, <1>7, <1>8, <1>9, <1>10 DEF TransferStepOf

LEMMA TotalsNextInv == Inv /\ Apart /\ TotalsInv /\ [Next]_vars /\ Apart' => TotalsInv'
<1> SUFFICES ASSUME Inv, Apart, TotalsInv, [Next]_vars, Apart' PROVE TotalsInv'
  OBVIOUS
<1>0. service' = service /\ accepted \subseteq DOMAIN submitted
  BY DEF Next, vars, TotalsInv
<1>1. ASSUME UNCHANGED <<requests, totalValue, submitted, transactions, serial>>,
             accepted' \subseteq DOMAIN submitted
      PROVE  TotalsInv'
  <2>1. serial' => serial
    BY <1>1, Zenon
  <2>2. QED
    BY <1>1, <2>1, TotalsStay
<1>2. CASE UNCHANGED vars
  BY <1>0, <1>1, <1>2 DEF vars, redisVars, defiVars
<1>3. ASSUME service # "transfers", UNCHANGED defiVars PROVE TotalsInv'
  <2>1. \A x \in Requests : ~Moves(x) /\ ~Moves(x)'
    BY <1>0, <1>3 DEF Apart, KindsOf, Moves, Movers
  <2>2. serial' => serial
    BY <1>3, Zenon DEF defiVars
  <2>3. QED
    BY <1>0, <1>3, <2>1, <2>2, TotalsStay DEF defiVars
<1>4. CASE Connection /\ UNCHANGED <<totalValue, chainVars, transactions>>
             /\ serial' = (serial /\ (client' = "connecting" => Quiet))
  <2>0. UNCHANGED <<totalValue, submitted, transactions>> /\ accepted' \subseteq DOMAIN submitted
    BY <1>0, <1>4 DEF chainVars
  <2>1. serial' => serial /\ (client' = "connecting" => Quiet)
    BY <1>4, Zenon
  <2>2. CASE Restart
    <3>1. requests' = [r \in Requests |-> [kind |-> "idle"]] /\ client' = "connecting"
      BY <2>2 DEF Restart, Idle
    <3>2. \A x \in Requests : ~Moves(x)'
      BY <3>1 DEF Moves, Movers
    <3>3. serial' => serial /\ \A x \in Requests : ~Moves(x)
      BY <2>1, <3>1 DEF Quiet, Running, Moves, Movers
    <3>4. QED
      BY <2>0, <3>2, <3>3, TotalsStay
  <2>3. CASE Ready \/ ServerDown \/ ServerUp \/ ReconnectTimer
    <3>1. UNCHANGED requests
      BY <2>3 DEF Ready, ServerDown, ServerUp, ReconnectTimer
    <3>2. QED
      BY <2>0, <2>1, <3>1, TotalsStay
  <2>4. QED
    BY <1>4, <2>2, <2>3 DEF Connection
<1>5. CASE LimiterNext \/ AnalyticsNext
  BY <1>3, <1>5 DEF LimiterNext, AnalyticsNext, Analytics!Series
<1>6. CASE ViewNext
  <2>1. UNCHANGED defiVars
    BY <1>6
    DEF ViewNext, Defi!listPoolsEndpoint, Defi!balanceEndpoint, ViewSteps, Defi!listPools,
        Defi!getUserPoolBalance, Defi!callView, Defi!defiVars, defiVars
  <2>2. QED
    BY <1>3, <1>6, <2>1 DEF ViewNext
<1>7. CASE TransferNext
  <2>1. ASSUME NEW r \in Requests, NEW a \in DefiAmounts, NEW kind \in Movers, Defi!Moves(r, kind, a)
        PROVE  TotalsInv'
    <3> DEFINE q == [kind |-> kind, at |-> "getPool", amount |-> a, read |-> 0, hash |-> 0]
    <3>1. /\ requests[r].kind = "idle" /\ requests' = [requests EXCEPT ![r] = q]
          /\ UNCHANGED <<totalValue, submitted, transactions, accepted>>
          /\ serial' = (serial /\ Defi!Moving = {})
      BY <2>1 DEF Defi!Moves, Defi!Arrive, Defi!Running, Defi!With, Defi!chainVars
    <3>2. q \in Mover /\ q.at = "getPool"
      BY <2>1 DEF Mover
    <3> HIDE DEF q
    <3>3. \A x \in Requests : requests'[x] = IF x = r THEN q ELSE requests[x]
      BY <3>1 DEF Inv, Shapes
    <3>4. serial' => serial /\ Defi!Moving = {}
      BY <3>1, Zenon
    <3>5. serial' => serial /\ \A x \in Requests : ~Moves(x)
      BY <3>4 DEF Defi!Moving, Defi!Movers, Moves, Movers
    <3>6. ~Moves(r)
      BY <3>1 DEF Moves, Movers
    <3>7. QED
      BY <3>1, <3>2, <3>3, <3>5, <3>6, TotalsArrive
  <2>2. ASSUME NEW r \in Requests, TransferSteps(r) PROVE TotalsInv'
    BY <2>2, TransferStepTotals
  <2>3. ASSUME Defi!Settle, UNCHANGED redisVars PROVE TotalsInv'
    <3>1. UNCHANGED <<requests, totalValue, submitted, transactions, serial>>
          /\ accepted' \subseteq DOMAIN submitted
      BY <1>0, <2>3 DEF Defi!Settle, redisVars
    <3>2. QED
      BY <1>1, <3>1
  <2>4. QED
    BY <1>7, <2>1, <2>2, <2>3 DEF TransferNext, Defi!depositEndpoint, Defi!withdrawEndpoint, Movers
<1>8. QED
  BY <1>2, <1>4, <1>5, <1>6, <1>7 DEF Next

LEMMA InitTotals == Init => TotalsInv
<1> SUFFICES ASSUME Init PROVE TotalsInv
  OBVIOUS
<1>1. /\ requests = [r \in Requests |-> [kind |-> "idle"]]
      /\ totalValue = 0 /\ submitted = << >> /\ transactions = {} /\ accepted = {}
  BY DEF Init, RedisInit, Idle
<1>2. submitted \in Seq(Int) /\ DOMAIN submitted = {} /\ SumFunctionOnSet(submitted, {}) = 0
  BY <1>1, SumEmpty
<1>3. SumOfSome(submitted, transactions, totalValue) /\ SumFunction(submitted) = 0
  BY <1>1, <1>2 DEF SumOfSome, SumFunction
<1>4. \A r \in Requests : ~Moves(r)
  BY <1>1 DEF Moves, Movers
<1>5. QED
  BY <1>1, <1>2, <1>3, <1>4 DEF TotalsInv

\* What all submitted transactions add up to is split by the chain.
LEMMA SentSplit ==
  ASSUME NEW txs \in Seq(Int), NEW S \in SUBSET DOMAIN txs
  PROVE  SumFunction(txs) = SumFunctionOnSet(txs, S) + SumFunctionOnSet(txs, DOMAIN txs \ S)
<1>1. DOMAIN txs = 1 .. Len(txs) /\ Len(txs) \in Nat /\ \A i \in DOMAIN txs : txs[i] \in Int
  OBVIOUS
<1>2. IsFiniteSet(DOMAIN txs)
  BY <1>1, FS_Interval
<1>3. QED
  BY <1>1, <1>2, SumSplit DEF SumFunction

\* However many deposits and withdrawals overlap, fail or are cut short by a restart,
\* and whatever the chain makes of their transactions, the total DefiService saves is
\* the sum of some of the stored rows: it never counts an amount without its row. As
\* long as they came one at a time every submitted transaction is stored and counted,
\* so that the total is off the contract's balance by what is pending or reverted.
THEOREM TotalsAreOfRows == Spec => []TotalsFollowRows
<1>1. ASSUME TotalsInv PROVE TotalsFollowRows
  <2>1. \E counted \in SUBSET transactions : totalValue = SumFunctionOnSet(submitted, counted)
    BY <1>1 DEF TotalsInv, SumOfSome
  <2>2. ASSUME serial, Defi!Moving = {}
        PROVE  /\ transactions = DOMAIN submitted
               /\ totalValue = SumFunctionOnSet(submitted, accepted)
                               + SumFunctionOnSet(submitted, DOMAIN submitted \ accepted)
    <3>1. \A r \in Requests : ~Moves(r)
      BY <2>2 DEF Defi!Moving, Defi!Movers, Moves, Movers
    <3>2. transactions = DOMAIN submitted /\ totalValue = SumFunction(submitted)
      BY <1>1, <2>2, <3>1 DEF TotalsInv
    <3>3. SumFunction(submitted)
            = SumFunctionOnSet(submitted, accepted) + SumFunctionOnSet(submitted, DOMAIN submitted \ accepted)
      BY <1>1, SentSplit DEF TotalsInv
    <3>4. QED
      BY <3>2, <3>3
  <2>3. QED
    BY <2>1, <2>2 DEF TotalsFollowRows
<1>2. Init => Inv /\ Apart /\ TotalsInv
  BY InitInv, InitLimiter, InitTotals
<1>3. Inv /\ Apart /\ TotalsInv /\ [Next]_vars => (Inv /\ Apart /\ TotalsInv)'
  BY NextInv, ApartNext, TotalsNextInv
<1>4. QED
  BY <1>1, <1>2, <1>3, PTL DEF Spec
=============================================================================
