--------------------------- MODULE MirrorDatabase ---------------------------
(* The tables the backend mirrors the contracts into, the event handlers and *)
(* endpoint calls that are between two awaits, and the contracts' event log. *)
(* A job is one running handler or endpoint; every step of a job is the code *)
(* between two awaits, and the steps of different jobs interleave freely.    *)
EXTENDS Integers, Sequences, FiniteSets, FiniteSetsExt, Functions

CONSTANTS PoolCount,
          Users, Amounts,
          Jobs,     \* bound on the handlers and endpoints in flight at a time
          MaxLog    \* bound on the events the contracts emit

VARIABLES
  db,          \* the tables of the schema
  jobs,        \* [Jobs -> job records]
  log,         \* the events the contracts and the emitter emitted, in order
  subscribed,  \* the service's subscribeToEvents has succeeded in this process
  tidy         \* history: every event so far was handled, alone, to its end

mirrorVars == <<db, jobs, log, subscribed, tidy>>

ASSUME MirrorAssumption == PoolCount \in Nat /\ MaxLog \in Nat /\ Amounts \subseteq Nat

\* Pool ids: the index into an array of weights is the id of a pool.
Pools == 0 .. PoolCount - 1

\* CREATE TABLE ...: tables with a primary key are functions from keys to rows,
\* tables with a SERIAL id are sequences of rows.
EmptyTables(known) ==
  [pools        |-> [p \in known |-> [supply |-> 0, active |-> TRUE, min |-> 0, max |-> 0]],
   balances     |-> <<>>,  metrics    |-> <<>>, correlations |-> <<>>,
   executions   |-> <<>>,  rewards    |-> <<>>, distributors |-> <<>>,
   weights      |-> <<>>,  harvests   |-> <<>>]

\* REFERENCES "pools"("poolId"): a row of a pool that is not there is refused.
HasPool(p) == p \in DOMAIN db.pools

\* Repository.save of a row with a primary key: INSERT, or UPDATE when it is there.
Put(table, key, row) == [k \in DOMAIN table \union {key} |-> IF k = key THEN row ELSE table[k]]

\* findOne by primary key: a sequence of the row or of nothing.
FindOne(table, key) == IF key \in DOMAIN table THEN <<table[key]>> ELSE <<>>

Idle == [kind |-> "idle"]
Running(j) == jobs[j].kind # "idle"
Quiet == \A j \in Jobs : ~Running(j)
At(j, kind, at) == jobs[j].kind = kind /\ jobs[j].at = at

Job(kind, at, e) == [kind |-> kind, at |-> at, ev |-> e, found |-> <<>>]
Goto(j, at, found) == jobs' = [jobs EXCEPT ![j].at = at, ![j].found = found]
Finish(j) == jobs' = [jobs EXCEPT ![j] = Idle]

\* A job's next await reads: nothing changes but what the job has found.
Reads(j, at, found) == Goto(j, at, found) /\ UNCHANGED <<db, log, subscribed, tidy>>

\* A job's last await writes the table t and the job ends.
Writes(j, t, table) ==
  /\ db' = [db EXCEPT ![t] = table]
  /\ Finish(j)
  /\ UNCHANGED <<log, subscribed, tidy>>

\* A job ends without a further effect.
Ends(j) == Finish(j) /\ UNCHANGED <<db, log, subscribed, tidy>>

MirrorInit ==
  /\ \E known \in SUBSET Pools : db = EmptyTables(known)
  /\ jobs = [j \in Jobs |-> Idle]
  /\ log = <<>>
  /\ subscribed = FALSE
  /\ tidy = TRUE

\* onModuleInit: the subscription of a started process succeeds at most once; when
\* it fails the error is logged and the service runs on without its handlers.
onModuleInit ==
  /\ ~subscribed
  /\ subscribed' = TRUE
  /\ UNCHANGED <<db, jobs, log, tidy>>

\* The contract emits e; a subscribed service starts the handler of e at its first
\* await. foreseen: the event is one whose handling a row of pools does not prevent.
Emits(e, kind, at, foreseen) ==
  /\ Len(log) < MaxLog
  /\ log' = Append(log, e)
  /\ IF subscribed
       THEN \E j \in Jobs : ~Running(j) /\ jobs' = [jobs EXCEPT ![j] = Job(kind, at, e)]
       ELSE UNCHANGED jobs
  /\ tidy' = (tidy /\ subscribed /\ Quiet /\ foreseen)
  /\ UNCHANGED <<db, subscribed>>

\* An endpoint that goes on after its transaction starts as a job of its own.
Calls(e, kind, at) ==
  /\ Len(log) < MaxLog
  /\ \E j \in Jobs : ~Running(j) /\ jobs' = [jobs EXCEPT ![j] = Job(kind, at, e)]
  /\ tidy' = (tidy /\ Quiet)
  /\ UNCHANGED <<db, log, subscribed>>

\* executeTransaction inside endpoint job c, for an event whose handler is of kind
\* h: the transaction takes effect and, when its event is delivered, the handler
\* starts beside the endpoint. The call may throw before the effect or after it.
Transacts(c, h, at, next) ==
  \/ /\ Len(log) < MaxLog
     /\ log' = Append(log, jobs[c].ev)
     /\ \E threw \in BOOLEAN :
          LET rest == IF threw THEN [jobs EXCEPT ![c] = Idle]
                               ELSE [jobs EXCEPT ![c].at = next]
          IN  /\ \/ jobs' = rest
                 \/ /\ subscribed
                    /\ \E j \in Jobs : ~Running(j) /\ jobs' = [rest EXCEPT ![j] = Job(h, at, jobs[c].ev)]
              /\ tidy' = (tidy /\ ~threw)
     /\ UNCHANGED <<db, subscribed>>
  \/ Ends(c)

\* An await of a job rejects: the catch block logs (a handler) or answers with an
\* error (an endpoint), and what the job had not yet written is never written.
QueryFails(j) ==
  /\ Running(j)
  /\ Finish(j)
  /\ tidy' = FALSE
  /\ UNCHANGED <<db, log, subscribed>>

\* The process stops: its jobs are gone, and so are the events until the restart.
Crash ==
  /\ subscribed' = FALSE
  /\ jobs' = [j \in Jobs |-> Idle]
  /\ tidy' = (tidy /\ Quiet)
  /\ UNCHANGED <<db, log>>

-----------------------------------------------------------------------------
\* The last event of a non-empty set of the log's positions.
Latest(events) == log[Max(events)]
=============================================================================
