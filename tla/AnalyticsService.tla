-------------------------- MODULE AnalyticsService --------------------------
(* AnalyticsService and its controller: three series of rows, each behind a  *)
(* Redis key that reads fill and updates delete.                             *)
EXTENDS RedisConnection

CONSTANT MaxRows   \* bound on the rows of a series

VARIABLES rows,    \* [series -> number of rows of the series], for one pool
          overlap  \* history: the series whose reads and updates ever overlapped

Series == {"metrics", "correlations", "cdr"}
Key(s) == <<s, 0>>
Of(r, kinds, s) == requests[r].kind \in kinds /\ requests[r].series = s

Asks(r, kind, at, s, against) ==
  /\ Arrive(r, [kind |-> kind, at |-> at, series |-> s, read |-> 0])
  /\ overlap' = overlap \union (IF \E q \in Requests : Of(q, against, s) THEN {s} ELSE {})
  /\ UNCHANGED rows
getEndpoint(r, s) == Asks(r, "read", "getJson", s, {"update"})
updateEndpoint(r, s) == rows[s] < MaxRows /\ Asks(r, "update", "save", s, {"read", "update"})

\* A query of the database is rejected: the request is answered with an error.
QueryFails(r) ==
  /\ At(r, {"read", "update"}, "find") \/ At(r, {"read", "update"}, "save")
  /\ Goes(With(r, Idle))
  /\ UNCHANGED <<rows, overlap>>

\* getPoolMetrics, getCorrelations and getCDRMetrics: the same three awaits. Redis
\* failing is a miss in the first of them and an error answer in the last.
CachedRead(r, s) ==
  /\ Of(r, {"read"}, s)
  /\ \/ requests[r].at = "getJson" /\ getJson(Key(s), With(r, Idle), Goto(r, "find"))
     \/ requests[r].at = "find" /\ Goes(With(r, [requests[r] EXCEPT !.at = "setJson", !.read = rows[s]]))
     \/ requests[r].at = "setJson" /\ setJson(Key(s), requests[r].read, With(r, Idle), With(r, Idle))
  /\ UNCHANGED <<rows, overlap>>
getPoolMetrics(r) == CachedRead(r, "metrics")
getCorrelations(r) == CachedRead(r, "correlations")
getCDRMetrics(r) == CachedRead(r, "cdr")

\* Save the new row, delete the key k.
Update(r, s, k) ==
  /\ Of(r, {"update"}, s)
  /\ \/ /\ requests[r].at = "save"
        /\ rows' = [rows EXCEPT ![s] = @ + 1]
        /\ Goes(Goto(r, "del"))
     \/ requests[r].at = "del" /\ del(Key(k), With(r, Idle), With(r, Idle)) /\ UNCHANGED rows
  /\ UNCHANGED overlap
updateMetrics(r) == Update(r, "metrics", "metrics")
\* The oracle call that follows changes nothing here and may only fail the answer.
updateCorrelations(r) == Update(r, "correlations", "correlations")
\* Bug form used by a mutation run: the key of another series is deleted.
updateCDR_otherKey(r) == Update(r, "cdr", "metrics")
updateCDR(r) == Update(r, "cdr", "cdr")
=============================================================================
