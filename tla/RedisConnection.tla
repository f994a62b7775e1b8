-------------------------- MODULE RedisConnection --------------------------
(* RedisService: the flag isConnected it keeps beside the node-redis client's *)
(* own connection, its reconnect timer, and the operations the services call. *)
(* The client of node-redis 4 reconnects by itself for ever, and its connect()*)
(* rejects a socket that is open, as this one is from onModuleInit on.        *)
EXTENDS Integers, FiniteSets

CONSTANTS Requests,             \* bound on the requests in flight at a time
          maxReconnectAttempts,
          ReplyErrors           \* Redis may answer a command with an error

VARIABLES
  serverUp,           \* the Redis server can be reached
  client,             \* "connecting" (first connect), "ready" or "reconnecting"
  isConnected, reconnectTimer, reconnectAttempts,
  store,              \* the keys in Redis
  requests,           \* [Requests -> the request's progress]
  disturbed           \* history: an operation was rejected, or a restart lost a request

connectionVars == <<serverUp, client, isConnected, reconnectTimer, reconnectAttempts>>
redisVars == <<connectionVars, store, requests, disturbed>>

ASSUME RedisAssumption ==
  IsFiniteSet(Requests) /\ maxReconnectAttempts \in Nat /\ ReplyErrors \in BOOLEAN

Idle == [kind |-> "idle"]
Running(r) == requests[r].kind # "idle"
Quiet == \A r \in Requests : ~Running(r)
At(r, kinds, at) == requests[r].kind \in kinds /\ requests[r].at = at
With(r, request) == [requests EXCEPT ![r] = request]
Goto(r, at) == [requests EXCEPT ![r].at = at]

RedisInit ==
  /\ serverUp \in BOOLEAN
  /\ client = "connecting" /\ isConnected = FALSE
  /\ reconnectTimer = FALSE /\ reconnectAttempts = 0
  /\ store = << >>
  /\ requests = [r \in Requests |-> Idle]
  /\ disturbed = FALSE

-----------------------------------------------------------------------------
\* 'ready': the handler sets the flag and forgets the attempts; onModuleInit, which
\* awaits the first connect(), goes on and the process serves requests.
\* Bug form used by a mutation run: the handler does not set the flag.
Ready_silent ==
  /\ serverUp /\ client # "ready"
  /\ client' = "ready"
  /\ isConnected' = (client = "connecting")
  /\ reconnectAttempts' = 0
  /\ UNCHANGED <<serverUp, reconnectTimer, store, requests, disturbed>>

Ready ==
  /\ serverUp /\ client # "ready"
  /\ client' = "ready"
  /\ isConnected' = TRUE
  /\ reconnectAttempts' = 0
  /\ UNCHANGED <<serverUp, reconnectTimer, store, requests, disturbed>>
Started == client # "connecting"

\* 'error' on the open socket: the flag falls, and the client starts to reconnect.
Lost == client' = "reconnecting" /\ serverUp' = FALSE

ServerDown ==
  /\ client = "ready"
  /\ Lost
  /\ isConnected' = FALSE
  /\ UNCHANGED <<reconnectTimer, reconnectAttempts, store, requests, disturbed>>
ServerUp ==
  /\ ~serverUp
  /\ serverUp' = TRUE
  /\ UNCHANGED <<client, isConnected, reconnectTimer, reconnectAttempts, store, requests, disturbed>>

\* The attempts are compared with the maximum only, so they need not be counted on
\* beyond it. busy: a timer is set already.
scheduleReconnect(busy) ==
  IF busy THEN UNCHANGED <<reconnectTimer, reconnectAttempts>>
  ELSE /\ reconnectAttempts' = IF reconnectAttempts > maxReconnectAttempts
                                 THEN reconnectAttempts ELSE reconnectAttempts + 1
       /\ reconnectTimer' = (reconnectAttempts < maxReconnectAttempts)

\* The timer's callback: its connect() is rejected, and it schedules the next.
ReconnectTimer ==
  /\ reconnectTimer
  /\ isConnected' = FALSE
  /\ scheduleReconnect(FALSE)
  /\ disturbed' = TRUE
  /\ UNCHANGED <<serverUp, client, store, requests>>

-----------------------------------------------------------------------------
\* The body shared by the operations. Without the flag the operation calls connect(),
\* which rejects. A command on the open connection is answered, answered with an
\* error, or rejected because the connection is lost, before or after its effect.
\* Bug form used by a mutation run: the flag is not asked, and a command issued
\* while the client reconnects waits in the client's queue.
Command_queued(effect, replied, failed) ==
  /\ client = "ready"
  /\ store' = effect /\ requests' = replied
  /\ UNCHANGED <<connectionVars, disturbed>>

Command(effect, replied, failed) ==
  \/ /\ isConnected
     /\ store' = effect /\ requests' = replied
     /\ UNCHANGED <<connectionVars, disturbed>>
  \/ /\ \/ ~isConnected /\ store' = store /\ UNCHANGED <<serverUp, client>>
        \/ isConnected /\ ReplyErrors /\ store' = store /\ UNCHANGED <<serverUp, client>>
        \/ isConnected /\ store' \in {store, effect} /\ Lost
     /\ isConnected' = FALSE
     /\ scheduleReconnect(reconnectTimer)
     /\ requests' = failed
     /\ disturbed' = TRUE

Put(key, entry) == [k \in DOMAIN store \union {key} |-> IF k = key THEN entry ELSE store[k]]
Without(key) == [k \in DOMAIN store \ {key} |-> store[k]]

set(key, value, replied, failed) == Command(Put(key, [value |-> value, expires |-> TRUE]), replied, failed)
get(key, hit, miss, failed) == Command(store, IF key \in DOMAIN store THEN hit ELSE miss, failed)
del(key, replied, failed) == Command(Without(key), replied, failed)

\* setJson rethrows what set throws; getJson answers null instead.
setJson(key, value, replied, failed) == set(key, value, replied, failed)
getJson(key, hit, miss) == get(key, hit, miss, miss)

\* A member of a sorted set is the time of its request, and so is its score.
Members(key) == IF key \in DOMAIN store THEN store[key].value ELSE {}
zAdd(key, score, replied, failed) ==
  Command(Put(key, [value   |-> Members(key) \union {score},
                    expires |-> key \in DOMAIN store /\ store[key].expires]), replied, failed)
zRemRangeByScore(key, max, replied, failed) ==
  LET left == {s \in Members(key) : s > max} IN
  Command(IF left = {} THEN Without(key) ELSE [store EXCEPT ![key].value = left], replied, failed)
zCount(key, min) == Cardinality({s \in Members(key) : s >= min})
expire(key, replied, failed) ==
  Command(IF key \in DOMAIN store THEN [store EXCEPT ![key].expires = TRUE] ELSE store, replied, failed)

Expires(key) ==
  /\ key \in DOMAIN store /\ store[key].expires
  /\ store' = Without(key)
  /\ UNCHANGED <<connectionVars, requests, disturbed>>

\* A request starts when its process serves requests.
Arrive(r, request) ==
  /\ Started /\ ~Running(r)
  /\ requests' = With(r, request)
  /\ UNCHANGED <<connectionVars, store, disturbed>>

\* A step of a request that does not touch Redis.
Goes(rs) == requests' = rs /\ UNCHANGED <<connectionVars, store, disturbed>>

\* The process is restarted: its requests and its connection are gone.
Restart ==
  /\ client' = "connecting" /\ isConnected' = FALSE
  /\ reconnectTimer' = FALSE /\ reconnectAttempts' = 0
  /\ requests' = [r \in Requests |-> Idle]
  /\ disturbed' = (disturbed \/ ~Quiet)
  /\ UNCHANGED <<serverUp, store>>
=============================================================================
