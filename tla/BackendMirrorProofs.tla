------------------------ MODULE BackendMirrorProofs ------------------------
(***************************************************************************)
(* What overlapping handlers and endpoints, failed queries and a process   *)
(* that dies cannot do to the mirrored tables, for any number of jobs,     *)
(* users, pools and events.  A handler does not say which event of the log *)
(* it was started for, and equal events may be on their way at once: the   *)
(* invariant numbers the handlers by positions of the log, and speaks of   *)
(* the sets of positions the tables are made of.                           *)
(*                                                                         *)
(* From SerialInv on: what the tables are when every event was handled     *)
(* alone and to its end.  Between two such events a table owes the         *)
(* contract the event of the one handler on its way, and nothing else.     *)
(***************************************************************************)
EXTENDS BackendMirror, Sums

\* The handlers whose events the tables are compared with, the names of those events,
\* and the endpoints that run on as jobs.
Tracked == {"onDeposit", "onWithdrawal", "onRewardDistributed", "onRebalanced"}
TrackedEvents == {"Deposit", "Withdrawal", "RewardDistributed", "Rebalanced"}
Endpoints == {"addVaultPool", "authorizeDistributor", "revokeDistributor"}

Sound(e) == e.name \in {"Deposit", "Withdrawal", "RewardDistributed"} => e.amount \in Nat

IsJob(q) == q = [kind |-> q.kind, at |-> q.at, ev |-> q.ev, found |-> q.found]

JobShapes ==
  /\ jobs = [j \in Jobs |-> jobs[j]]
  /\ \A j \in Jobs : jobs[j] = Idle \/ IsJob(jobs[j])
  /\ \A j \in Jobs : jobs[j].kind \in Endpoints => jobs[j].ev.name \notin TrackedEvents

LogShape ==
  /\ \E S : log \in Seq(S)
  /\ \A i \in DOMAIN log : Sound(log[i])

TableNames == {"pools", "balances", "metrics", "correlations", "executions", "rewards",
               "distributors", "weights", "harvests"}

TableShapes ==
  /\ db = [t \in TableNames |-> db[t]]
  /\ db.pools = [p \in DOMAIN db.pools |-> db.pools[p]]
  /\ \A p \in DOMAIN db.pools :
       db.pools[p] = [supply |-> db.pools[p].supply, active |-> db.pools[p].active,
                      min |-> db.pools[p].min, max |-> db.pools[p].max]
  /\ \E S : db.rewards \in Seq(S)
  /\ \A i \in DOMAIN db.rewards :
       /\ db.rewards[i] = [user |-> db.rewards[i].user, amount |-> db.rewards[i].amount,
                           claimed |-> db.rewards[i].claimed]
       /\ db.rewards[i].amount \in Nat
  /\ \E S : db.weights \in Seq(S)

Shapes == JobShapes /\ LogShape /\ TableShapes

LogKept == \A i \in DOMAIN log : i \in DOMAIN log' /\ log'[i] = log[i]
JobsKept(kinds) == \A j \in Jobs : jobs'[j].kind \in kinds => jobs'[j] = jobs[j]
JobMoves(j, q) == jobs'[j] = q /\ \A k \in Jobs \ {j} : jobs'[k] = jobs[k]

\* A job that is set to another record.
LEMMA JobSet ==
  ASSUME JobShapes, NEW j \in Jobs, NEW q, jobs' = [jobs EXCEPT ![j] = q],
         q = Idle \/ IsJob(q), q.kind \in Endpoints => q.ev.name \notin TrackedEvents
  PROVE  JobShapes' /\ JobMoves(j, q)
<1>1. jobs' = [k \in Jobs |-> IF k = j THEN q ELSE jobs[k]]
  BY DEF JobShapes
<1>2. /\ jobs'[j] = q
      /\ \A k \in Jobs \ {j} : jobs'[k] = jobs[k]
      /\ jobs' = [k \in Jobs |-> jobs'[k]]
  BY <1>1
<1>3. \A k \in Jobs : jobs'[k] = q \/ jobs'[k] = jobs[k]
  BY <1>2
<1>4. ASSUME NEW k \in Jobs
      PROVE  /\ jobs'[k] = Idle \/ IsJob(jobs'[k])
             /\ jobs'[k].kind \in Endpoints => jobs'[k].ev.name \notin TrackedEvents
  BY <1>3, Zenon DEF JobShapes
<1>5. QED
  BY <1>2, <1>4 DEF JobShapes, JobMoves, Idle, IsJob

\* An event appended to the log.
LEMMA LogAppended ==
  ASSUME LogShape, NEW e, Sound(e), log' = Append(log, e)
  PROVE  /\ LogShape' /\ LogKept
         /\ DOMAIN log = 1..Len(log) /\ Len(log) \in Nat /\ Len(log) + 1 \notin DOMAIN log
         /\ DOMAIN log' = DOMAIN log \union {Len(log) + 1}
         /\ log'[Len(log) + 1] = e
<1>1. PICK S : log \in Seq(S)
  BY DEF LogShape
<1>2. log \in Seq(S \union {e})
  <2>1. S \subseteq S \union {e}
    OBVIOUS
  <2>2. QED
    BY <1>1, <2>1
<1>3. log' \in Seq(S \union {e})
  BY <1>2
<1>4. /\ DOMAIN log = 1..Len(log) /\ Len(log) \in Nat
      /\ DOMAIN log' = 1..Len(log) + 1
      /\ \A i \in 1..Len(log) : log'[i] = log[i]
      /\ log'[Len(log) + 1] = e
  BY <1>2
<1>5. \A i \in DOMAIN log' : Sound(log'[i])
  <2> SUFFICES ASSUME NEW i \in DOMAIN log' PROVE Sound(log'[i])
    OBVIOUS
  <2>1. i \in DOMAIN log \/ i = Len(log) + 1
    BY <1>4
  <2>2. QED
    BY <1>4, <2>1 DEF LogShape
<1>6. LogShape'
  BY <1>3, <1>5 DEF LogShape, Sound
<1>7. QED
  BY <1>4, <1>6 DEF LogKept

-----------------------------------------------------------------------------
\* A job that ends, and all of them when the process does.
LEMMA FinishForm ==
  ASSUME JobShapes, NEW j \in Jobs, Finish(j)
  PROVE  JobShapes' /\ JobMoves(j, Idle) /\ JobsKept(Tracked)
<1>1. JobShapes' /\ JobMoves(j, Idle)
  BY JobSet DEF Finish, Idle, Endpoints
<1>2. QED
  BY <1>1 DEF JobMoves, JobsKept, Tracked, Idle

\* With the process all jobs are gone.
LEMMA CrashForm ==
  ASSUME jobs' = [j \in Jobs |-> Idle]
  PROVE  JobShapes' /\ JobsKept(Tracked)
<1>1. \A j \in Jobs : jobs'[j] = Idle
  OBVIOUS
<1>2. JobsKept(Tracked)
  BY <1>1 DEF JobsKept, Tracked, Idle
<1>3. JobShapes'
  BY <1>1 DEF JobShapes, Endpoints, Idle
<1>4. QED
  BY <1>2, <1>3

\* A job that goes on to its next await.
LEMMA GotoForm ==
  ASSUME JobShapes, NEW j \in Jobs, jobs[j].kind # "idle", NEW at, NEW found, Goto(j, at, found)
  PROVE  /\ JobShapes'
         /\ JobMoves(j, [kind |-> jobs[j].kind, at |-> at, ev |-> jobs[j].ev, found |-> found])
<1> DEFINE q == [kind |-> jobs[j].kind, at |-> at, ev |-> jobs[j].ev, found |-> found]
<1>1. IsJob(jobs[j])
  BY DEF JobShapes, Idle
<1>2. jobs = [k \in Jobs |-> jobs[k]]
  BY DEF JobShapes
<1>3. jobs' = [jobs EXCEPT ![j].at = at, ![j].found = found]
  BY DEF Goto
<1>4. IsJob(q) /\ (q.kind \in Endpoints => q.ev.name \notin TrackedEvents)
  BY DEF IsJob, JobShapes
<1>5. jobs' = [jobs EXCEPT ![j] = q]
  <2>1. jobs' = [k \in Jobs |-> jobs'[k]] /\ \A k \in Jobs \ {j} : jobs'[k] = jobs[k]
    BY ONLY <1>2, <1>3, j \in Jobs
  <2>2. jobs'[j] = q
    BY ONLY <1>1, <1>2, <1>3, j \in Jobs DEF IsJob
  <2> HIDE DEF q
  <2>3. QED
    BY <1>2, <2>1, <2>2
<1> HIDE DEF q
<1>6. JobShapes' /\ JobMoves(j, q)
  BY <1>4, <1>5, JobSet
<1>7. QED
  BY <1>6 DEF q

\* A job that starts.
LEMMA StartForm ==
  ASSUME JobShapes, NEW j \in Jobs, NEW kind, NEW at, NEW e,
         jobs' = [jobs EXCEPT ![j] = Job(kind, at, e)],
         kind \in Endpoints => e.name \notin TrackedEvents
  PROVE  JobShapes' /\ JobMoves(j, Job(kind, at, e))
<1>1. IsJob(Job(kind, at, e)) /\ Job(kind, at, e).kind = kind /\ Job(kind, at, e).ev = e
  BY DEF IsJob, Job
<1>2. QED
  BY <1>1, JobSet

\* An event that the contract emits.
LEMMA EmitsForm ==
  ASSUME Shapes, NEW e, NEW kind, NEW at, NEW f, Emits(e, kind, at, f), Sound(e),
         kind \notin Endpoints
  PROVE  /\ Shapes' /\ LogKept /\ db' = db /\ log' = Append(log, e)
         /\ \/ jobs' = jobs
            \/ \E j \in Jobs : ~Running(j) /\ JobMoves(j, Job(kind, at, e))
<1>1. db' = db /\ log' = Append(log, e)
  BY DEF Emits
<1>2. LogShape' /\ LogKept
  BY <1>1, LogAppended DEF Shapes
<1>3. TableShapes'
  BY <1>1 DEF Shapes, TableShapes
<1>4. CASE jobs' = jobs
  BY <1>1, <1>2, <1>3, <1>4 DEF Shapes, JobShapes, Idle, IsJob
<1>5. CASE \E j \in Jobs : ~Running(j) /\ jobs' = [jobs EXCEPT ![j] = Job(kind, at, e)]
  <2>1. PICK j \in Jobs : ~Running(j) /\ jobs' = [jobs EXCEPT ![j] = Job(kind, at, e)]
    BY <1>5
  <2>2. JobShapes' /\ JobMoves(j, Job(kind, at, e))
    BY <2>1, StartForm DEF Shapes
  <2>3. QED
    BY <1>1, <1>2, <1>3, <2>1, <2>2 DEF Shapes
<1>6. QED
  BY <1>4, <1>5 DEF Emits

\* Steps that no tracked handler takes and that change no table: they keep the log's
\* positions, and a tracked handler can only be gone after them.
Passive == Shapes' /\ LogKept /\ JobsKept(Tracked) /\ db' = db

\* A step that leaves the log and the tables keeps their shapes.
LEMMA LogStays == ASSUME Shapes, log' = log, db' = db, JobShapes' PROVE Shapes' /\ LogKept
BY DEF Shapes, LogShape, TableShapes, LogKept, Sound

\* An event of no tracked name, and its handler if it starts.
LEMMA PassiveEmits ==
  ASSUME Shapes, NEW e, NEW kind, NEW at, NEW f, Emits(e, kind, at, f),
         e.name \notin TrackedEvents, kind \notin Tracked \union Endpoints
  PROVE  Passive
<1>1. Sound(e)
  BY DEF Sound, TrackedEvents
<1>2. /\ Shapes' /\ LogKept /\ db' = db
      /\ jobs' = jobs \/ \E j \in Jobs : ~Running(j) /\ JobMoves(j, Job(kind, at, e))
  BY <1>1, EmitsForm
<1>3. JobsKept(Tracked)
  BY <1>2 DEF JobsKept, JobMoves, Job
<1>4. QED
  BY <1>2, <1>3 DEF Passive

\* An endpoint that starts as a job.
LEMMA PassiveCalls ==
  ASSUME Shapes, NEW e, NEW kind, NEW at, Calls(e, kind, at), e.name \notin TrackedEvents,
         kind \notin Tracked
  PROVE  Passive
<1>1. PICK j \in Jobs : jobs' = [jobs EXCEPT ![j] = Job(kind, at, e)]
  BY DEF Calls
<1>2. JobShapes' /\ JobMoves(j, Job(kind, at, e))
  BY <1>1, StartForm DEF Shapes
<1>3. JobsKept(Tracked)
  BY <1>2 DEF JobsKept, JobMoves, Job
<1>4. log' = log /\ db' = db
  BY DEF Calls
<1>5. QED
  BY <1>2, <1>3, <1>4, LogStays DEF Passive

\* A job that ends without writing, and the ways it may.
LEMMA PassiveEnds ==
  ASSUME Shapes, NEW j \in Jobs, Finish(j), UNCHANGED <<db, log>>
  PROVE  Passive
BY FinishForm, LogStays DEF Shapes, Passive

\* A read of a job that is no tracked handler.
LEMMA PassiveReads ==
  ASSUME Shapes, NEW j \in Jobs, jobs[j].kind \notin Tracked \union {"idle"},
         NEW at, NEW found, Reads(j, at, found)
  PROVE  Passive
<1>1. /\ JobShapes'
      /\ JobMoves(j, [kind |-> jobs[j].kind, at |-> at, ev |-> jobs[j].ev, found |-> found])
  BY GotoForm DEF Shapes, Reads
<1>2. JobsKept(Tracked)
  BY <1>1 DEF JobsKept, JobMoves
<1>3. QED
  BY <1>1, <1>2, LogStays DEF Passive, Reads

\* The process stops.
LEMMA PassiveCrash == ASSUME Shapes, Crash PROVE Passive
BY CrashForm, LogStays DEF Passive, Crash

\* The process subscribes.
LEMMA PassiveInit == ASSUME Shapes, onModuleInit PROVE Passive
<1>1. JobShapes' /\ JobsKept(Tracked)
  BY DEF onModuleInit, Shapes, JobShapes, JobsKept, Idle, IsJob
<1>2. QED
  BY <1>1, LogStays DEF Passive, onModuleInit

\* A query of any job is rejected.
LEMMA PassiveFails == ASSUME Shapes, NEW j \in Jobs, QueryFails(j) PROVE Passive
BY PassiveEnds DEF QueryFails

\* The transaction of an endpoint, which may throw, and the handler of its event.
LEMMA PassiveTransacts ==
  ASSUME Shapes, NEW c \in Jobs, NEW h, NEW at, NEW next, Transacts(c, h, at, next),
         jobs[c].kind \in Endpoints, h \notin Tracked \union Endpoints
  PROVE  Passive
<1>1. CASE Ends(c)
  BY <1>1, PassiveEnds DEF Ends
<1>2. ASSUME log' = Append(log, jobs[c].ev), db' = db,
             NEW threw \in BOOLEAN, NEW rest,
             rest = IF threw THEN [jobs EXCEPT ![c] = Idle] ELSE [jobs EXCEPT ![c].at = next],
             \/ jobs' = rest
             \/ \E j \in Jobs : ~Running(j) /\ jobs' = [rest EXCEPT ![j] = Job(h, at, jobs[c].ev)]
      PROVE  Passive
  <2> DEFINE q == IF threw THEN Idle
                  ELSE [kind |-> jobs[c].kind, at |-> next, ev |-> jobs[c].ev, found |-> jobs[c].found]
  <2>1. IsJob(jobs[c]) /\ jobs[c].ev.name \notin TrackedEvents
    BY DEF Shapes, JobShapes, Idle, Endpoints
  <2>2. ~threw => [jobs[c] EXCEPT !.at = next] = q
    BY <2>1 DEF IsJob
  <2>3. rest = [k \in Jobs |-> IF k = c THEN q ELSE jobs[k]]
    <3>1. jobs = [k \in Jobs |-> jobs[k]]
      BY DEF Shapes, JobShapes
    <3>2. CASE threw
      BY <1>2, <3>1, <3>2
    <3>3. CASE ~threw
      <4>1. rest = [jobs EXCEPT ![c] = [jobs[c] EXCEPT !.at = next]]
        BY <1>2, <3>1, <3>3
      <4>2. rest = [jobs EXCEPT ![c] = q]
        BY <2>2, <3>3, <4>1
      <4> HIDE DEF q
      <4>3. QED
        BY <3>1, <4>2
    <3>4. QED
      BY <3>2, <3>3
  <2>4. /\ (q = Idle \/ IsJob(q)) /\ q.kind \notin Tracked
        /\ q.kind \in Endpoints => q.ev.name \notin TrackedEvents
    <3>1. CASE threw
      BY <3>1 DEF Idle, Tracked, Endpoints
    <3>2. CASE ~threw
      BY <2>1, <3>2 DEF IsJob, Tracked, Endpoints
    <3>3. QED
      BY <3>1, <3>2
  <2> DEFINE r == Job(h, at, jobs[c].ev)
  <2>5. IsJob(r) /\ r.kind = h
    BY DEF Job, IsJob
  <2> HIDE DEF q, r
  <2>6. /\ jobs' = [k \in Jobs |-> jobs'[k]]
        /\ \A k \in Jobs : jobs'[k] = q \/ jobs'[k] = r \/ jobs'[k] = jobs[k]
    <3>1. CASE jobs' = rest
      BY <2>3, <3>1
    <3>2. CASE \E j \in Jobs : jobs' = [rest EXCEPT ![j] = r]
      BY <2>3, <3>2
    <3>3. QED
      BY <1>2, <3>1, <3>2 DEF r
  <2>7. JobsKept(Tracked)
    BY <2>4, <2>5, <2>6 DEF JobsKept
  <2>8. ASSUME NEW k \in Jobs
        PROVE  /\ jobs'[k] = Idle \/ IsJob(jobs'[k])
               /\ jobs'[k].kind \in Endpoints => jobs'[k].ev.name \notin TrackedEvents
    <3>1. CASE jobs'[k] = q
      BY <2>4, <3>1
    <3>2. CASE jobs'[k] = r
      BY <2>5, <3>2
    <3>3. CASE jobs'[k] = jobs[k]
      BY <3>3 DEF Shapes, JobShapes
    <3>4. QED
      BY <2>6, <3>1, <3>2, <3>3
  <2>9. JobShapes'
    BY <2>6, <2>8 DEF JobShapes, Idle, IsJob
  <2>10. LogShape' /\ LogKept
    <3>1. Sound(jobs[c].ev)
      BY <2>1 DEF Sound, TrackedEvents
    <3>2. QED
      BY <1>2, <3>1, LogAppended DEF Shapes
  <2>11. TableShapes'
    BY <1>2 DEF Shapes, TableShapes
  <2>12. QED
    BY <1>2, <2>7, <2>9, <2>10, <2>11 DEF Passive, Shapes
<1>3. QED
  BY <1>1, <1>2 DEF Transacts

-----------------------------------------------------------------------------
\* The steps of the services are the database's: each service has its own instance.
LEMMA VaultBase ==
  /\ \A e, kind, at, f : Vault!Emits(e, kind, at, f) => Emits(e, kind, at, f)
  /\ \A e, kind, at : Vault!Calls(e, kind, at) => Calls(e, kind, at)
  /\ \A c, h, at, next : Vault!Transacts(c, h, at, next) => Transacts(c, h, at, next)
  /\ \A j, at, found : Vault!Reads(j, at, found) => Reads(j, at, found)
  /\ \A j, at, found : Vault!Goto(j, at, found) => Goto(j, at, found)
  /\ \A j, t, table : Vault!Writes(j, t, table) => Writes(j, t, table)
  /\ \A j : Vault!Ends(j) => Ends(j)
  /\ \A j, kind, at : Vault!At(j, kind, at) => At(j, kind, at)
BY DEF Emits, Calls, Transacts, Reads, Goto, Writes, Ends, At, Finish, Idle, Job, Running,
       Quiet, Vault!Emits, Vault!Calls, Vault!Transacts, Vault!Reads, Vault!Goto,
       Vault!Writes, Vault!Ends, Vault!At, Vault!Finish, Vault!Idle, Vault!Job,
       Vault!Running, Vault!Quiet

\* The steps of StrategyRegistryService.
LEMMA StrategyBase ==
  /\ \A e, kind, at, f : Strategy!Emits(e, kind, at, f) => Emits(e, kind, at, f)
  /\ \A j, t, table : Strategy!Writes(j, t, table) => Writes(j, t, table)
  /\ \A j : Strategy!Ends(j) => Ends(j)
  /\ \A j, kind, at : Strategy!At(j, kind, at) => At(j, kind, at)
BY DEF Emits, Writes, Ends, At, Finish, Idle, Job, Running, Quiet,        Strategy!Emits,
       Strategy!Writes, Strategy!Ends, Strategy!At, Strategy!Finish, Strategy!Idle,
       Strategy!Job, Strategy!Running, Strategy!Quiet

\* The steps of RewardDistributorService.
LEMMA RewardBase ==
  /\ \A e, kind, at, f : Reward!Emits(e, kind, at, f) => Emits(e, kind, at, f)
  /\ \A e, kind, at : Reward!Calls(e, kind, at) => Calls(e, kind, at)
  /\ \A c, h, at, next : Reward!Transacts(c, h, at, next) => Transacts(c, h, at, next)
  /\ \A j, at, found : Reward!Reads(j, at, found) => Reads(j, at, found)
  /\ \A j, t, table : Reward!Writes(j, t, table) => Writes(j, t, table)
  /\ \A j : Reward!Ends(j) => Ends(j)
  /\ \A j, kind, at : Reward!At(j, kind, at) => At(j, kind, at)
BY DEF Emits, Calls, Transacts, Reads, Goto, Writes, Ends, At, Finish, Idle, Job, Running,
       Quiet,        Reward!Emits, Reward!Calls, Reward!Transacts, Reward!Reads,
       Reward!Goto, Reward!Writes, Reward!Ends, Reward!At, Reward!Finish, Reward!Idle,
       Reward!Job, Reward!Running, Reward!Quiet

\* The steps of CDROracleService.
LEMMA OracleBase ==
  /\ \A e, kind, at, f : Oracle!Emits(e, kind, at, f) => Emits(e, kind, at, f)
  /\ \A j, at, found : Oracle!Reads(j, at, found) => Reads(j, at, found)
  /\ \A j, t, table : Oracle!Writes(j, t, table) => Writes(j, t, table)
  /\ \A j : Oracle!Ends(j) => Ends(j)
BY DEF Emits, Reads, Goto, Writes, Ends, Finish, Idle, Job, Running, Quiet,
       Oracle!Emits, Oracle!Reads, Oracle!Goto, Oracle!Writes, Oracle!Ends, Oracle!Finish,
       Oracle!Idle, Oracle!Job, Oracle!Running, Oracle!Quiet

\* The steps of YieldEngineService.
LEMMA YieldBase ==
  /\ \A e, kind, at, f : Yield!Emits(e, kind, at, f) => Emits(e, kind, at, f)
  /\ \A j, at, found : Yield!Goto(j, at, found) => Goto(j, at, found)
  /\ \A j, t, table : Yield!Writes(j, t, table) => Writes(j, t, table)
  /\ \A j : Yield!Ends(j) => Ends(j)
  /\ \A j, kind, at : Yield!At(j, kind, at) => At(j, kind, at)
  /\ Yield!Crash => Crash
BY DEF Emits, Goto, Writes, Ends, At, Crash, Finish, Idle, Job, Running, Quiet,
       Yield!Emits, Yield!Goto, Yield!Writes, Yield!Ends, Yield!At, Yield!Crash,
       Yield!Finish, Yield!Idle, Yield!Job, Yield!Running, Yield!Quiet

-----------------------------------------------------------------------------
\* What a step leaves to each of the three mirrors it is no step of: the positions of
\* the log, the handlers that are on their way, and what they have stored. A supply
\* may be set back to zero by a save of a pool that was found missing.
MoveKinds == {"onDeposit", "onWithdrawal"}

VaultFrame ==
  /\ LogKept /\ JobsKept(MoveKinds)
  /\ db'.balances = db.balances
  /\ \A p \in DOMAIN db'.pools :
       \/ db'.pools[p].supply = 0
       \/ p \in DOMAIN db.pools /\ db'.pools[p].supply = db.pools[p].supply

RewardFrame ==
  /\ LogKept /\ JobsKept({"onRewardDistributed"})
  /\ DOMAIN db'.rewards = DOMAIN db.rewards
  /\ \A i \in DOMAIN db.rewards : db'.rewards[i].amount = db.rewards[i].amount

WeightFrame ==
  /\ LogKept /\ JobsKept({"onRebalanced"})
  /\ db'.weights = db.weights

Frame == Shapes' /\ VaultFrame /\ RewardFrame /\ WeightFrame

\* A step that keeps all tracked handlers keeps those of each mirror.
LEMMA KeptOfEach ==
  ASSUME JobsKept(Tracked)
  PROVE  JobsKept(MoveKinds) /\ JobsKept({"onRewardDistributed"}) /\ JobsKept({"onRebalanced"})
BY DEF JobsKept, Tracked, MoveKinds

\* A passive step leaves everything to all three.
LEMMA PassiveFrame == ASSUME Passive PROVE Frame
BY KeptOfEach DEF Passive, Frame, VaultFrame, RewardFrame, WeightFrame

\* A job's last write: one table changes, the job is gone.
LEMMA WritesForm ==
  ASSUME Shapes, NEW j \in Jobs, NEW t \in TableNames, NEW table, Writes(j, t, table)
  PROVE  /\ JobShapes' /\ LogShape' /\ LogKept
         /\ JobsKept(MoveKinds) /\ JobsKept({"onRewardDistributed"}) /\ JobsKept({"onRebalanced"})
         /\ db' = [s \in TableNames |-> IF s = t THEN table ELSE db[s]]
<1>1. JobShapes' /\ JobsKept(Tracked)
  BY FinishForm DEF Shapes, Writes
<1>2. LogShape' /\ LogKept
  BY DEF Writes, Shapes, LogShape, LogKept, Sound
<1>3. db' = [s \in TableNames |-> IF s = t THEN table ELSE db[s]]
  <2>1. db = [s \in TableNames |-> db[s]]
    BY DEF Shapes, TableShapes
  <2>2. db' = [db EXCEPT ![t] = table]
    BY DEF Writes
  <2>3. QED
    BY <2>1, <2>2
<1>4. QED
  BY <1>1, <1>2, <1>3, KeptOfEach

\* The last write of a job, into a table that none of the three mirrors speaks of.
LEMMA OtherWrites ==
  ASSUME Shapes, NEW j \in Jobs, NEW t, NEW table, Writes(j, t, table),
         t \in {"metrics", "correlations", "executions", "distributors", "harvests"}
  PROVE  Frame
<1>1. t \in TableNames
  BY DEF TableNames
<1>2. /\ JobShapes' /\ LogShape' /\ LogKept
      /\ JobsKept(MoveKinds) /\ JobsKept({"onRewardDistributed"}) /\ JobsKept({"onRebalanced"})
      /\ db' = [s \in TableNames |-> IF s = t THEN table ELSE db[s]]
  BY <1>1, WritesForm
<1>3. /\ db' = [s \in TableNames |-> db'[s]]
      /\ db'.pools = db.pools /\ db'.balances = db.balances
      /\ db'.rewards = db.rewards /\ db'.weights = db.weights
  BY <1>2 DEF TableNames
<1>4. TableShapes'
  BY <1>3 DEF Shapes, TableShapes
<1>5. QED
  BY <1>2, <1>3, <1>4 DEF Frame, Shapes, VaultFrame, RewardFrame, WeightFrame

\* A table of pools, each with its four columns.
PoolTable(table) ==
  /\ table = [p \in DOMAIN table |-> table[p]]
  /\ \A p \in DOMAIN table :
       /\ table[p] = [supply |-> table[p].supply, active |-> table[p].active,
                      min |-> table[p].min, max |-> table[p].max]

\* A write of the pools keeps the shapes of all tables when the new one has its own.
LEMMA PoolWrites ==
  ASSUME Shapes, NEW j \in Jobs, NEW table, Writes(j, "pools", table), PoolTable(table)
  PROVE  /\ Shapes' /\ LogKept /\ RewardFrame /\ WeightFrame
         /\ JobsKept(MoveKinds) /\ db'.balances = db.balances /\ db'.pools = table
<1>1. "pools" \in TableNames
  BY DEF TableNames
<1>2. /\ JobShapes' /\ LogShape' /\ LogKept
      /\ JobsKept(MoveKinds) /\ JobsKept({"onRewardDistributed"}) /\ JobsKept({"onRebalanced"})
      /\ db' = [s \in TableNames |-> IF s = "pools" THEN table ELSE db[s]]
  BY <1>1, WritesForm
<1>3. /\ db' = [s \in TableNames |-> db'[s]]
      /\ db'.pools = table /\ db'.balances = db.balances
      /\ db'.rewards = db.rewards /\ db'.weights = db.weights
  BY <1>2 DEF TableNames
<1>4. TableShapes'
  BY <1>3 DEF Shapes, TableShapes, PoolTable
<1>5. QED
  BY <1>2, <1>3, <1>4 DEF Shapes, RewardFrame, WeightFrame

-----------------------------------------------------------------------------
\* Which steps of the services are steps of none of the three mirrors.

\* A new supply of a pool keeps the table's shape.
LEMMA SupplySet ==
  ASSUME Shapes, NEW p \in DOMAIN db.pools, NEW v
  PROVE  LET table == [db.pools EXCEPT ![p].supply = v] IN
         /\ PoolTable(table) /\ DOMAIN table = DOMAIN db.pools
         /\ table[p].supply = v
         /\ \A q \in DOMAIN db.pools \ {p} : table[q] = db.pools[q]
<1> DEFINE table == [db.pools EXCEPT ![p].supply = v]
           row == [supply |-> v, active |-> db.pools[p].active,
                   min |-> db.pools[p].min, max |-> db.pools[p].max]
<1>1. db.pools = [q \in DOMAIN db.pools |-> db.pools[q]]
  BY DEF Shapes, TableShapes
<1>2. \A q \in DOMAIN db.pools :
        db.pools[q] = [supply |-> db.pools[q].supply, active |-> db.pools[q].active,
                       min |-> db.pools[q].min, max |-> db.pools[q].max]
  BY DEF Shapes, TableShapes
<1>3. /\ DOMAIN table = DOMAIN db.pools
      /\ table = [q \in DOMAIN table |-> table[q]]
      /\ \A q \in DOMAIN db.pools \ {p} : table[q] = db.pools[q]
  BY ONLY <1>1, p \in DOMAIN db.pools
<1>4. table[p] = row
  <2>1. table[p] = [db.pools[p] EXCEPT !.supply = v]
    BY ONLY <1>1, p \in DOMAIN db.pools
  <2>2. db.pools[p] = [supply |-> db.pools[p].supply, active |-> db.pools[p].active,
                       min |-> db.pools[p].min, max |-> db.pools[p].max]
    BY <1>2
  <2> HIDE DEF table
  <2>3. QED
    BY ONLY <2>1, <2>2
<1> HIDE DEF table
<1>5. PoolTable(table)
  <2> SUFFICES ASSUME NEW q \in DOMAIN table
               PROVE  table[q] = [supply |-> table[q].supply, active |-> table[q].active,
                                  min |-> table[q].min, max |-> table[q].max]
    BY <1>3 DEF PoolTable
  <2>1. CASE q = p
    BY <1>4, <2>1
  <2>2. CASE q # p
    BY <1>2, <1>3, <2>2
  <2>3. QED
    BY <2>1, <2>2
<1>6. QED
  BY <1>3, <1>4, <1>5 DEF table

\* The save of a new pool leaves its supply at zero.
LEMMA SaveNewPoolFrame ==
  ASSUME Shapes, NEW j \in Jobs, NEW p, Vault!SaveNewPool(j, p)
  PROVE  Frame
<1>1. CASE Vault!Ends(j)
  BY <1>1, VaultBase, PassiveEnds, PassiveFrame DEF Ends
<1>2. CASE p \in DOMAIN db.pools /\ Vault!Writes(j, "pools", [db.pools EXCEPT ![p].supply = 0])
  <2> DEFINE table == [db.pools EXCEPT ![p].supply = 0]
  <2>1. /\ PoolTable(table) /\ DOMAIN table = DOMAIN db.pools
        /\ table[p].supply = 0
        /\ \A q \in DOMAIN db.pools \ {p} : table[q] = db.pools[q]
    BY <1>2, SupplySet
  <2>2. Writes(j, "pools", table)
    BY <1>2, VaultBase
  <2> HIDE DEF table
  <2>3. /\ Shapes' /\ LogKept /\ RewardFrame /\ WeightFrame
        /\ JobsKept(MoveKinds) /\ db'.balances = db.balances /\ db'.pools = table
    BY <2>1, <2>2, PoolWrites
  <2>4. \A q \in DOMAIN table : q = p \/ q \in DOMAIN db.pools \ {p}
    BY <2>1
  <2>5. QED
    BY <2>1, <2>3, <2>4 DEF Frame, VaultFrame
<1>3. QED
  BY <1>1, <1>2 DEF Vault!SaveNewPool, Vault!HasPool

\* The find before it changes nothing.
LEMMA FindNewPoolFrame ==
  ASSUME Shapes, NEW j \in Jobs, jobs[j].kind \notin Tracked \union {"idle"}, NEW p,
         Vault!FindPool(j, p)
  PROVE  Frame
<1>1. CASE Vault!Ends(j)
  BY <1>1, VaultBase, PassiveEnds, PassiveFrame DEF Ends
<1>2. CASE Vault!Reads(j, "savePool", <<>>)
  BY <1>2, VaultBase, PassiveReads, PassiveFrame
<1>3. QED
  BY <1>1, <1>2 DEF Vault!FindPool

\* PoolAdded, for the vault: the handler and the endpoint that goes on beside it.
LEMMA VaultPoolFrame ==
  ASSUME Shapes
  PROVE  /\ \A p : Vault!addPoolEndpoint(p) => Frame
         /\ \A j \in Jobs : Vault!onPoolAdded(j) \/ Vault!addPool(j) => Frame
<1>1. ASSUME NEW p, Vault!addPoolEndpoint(p) PROVE Frame
  <2> DEFINE e == Vault!VaultEvent("PoolAdded", "admin", p, 0)
  <2>1. e.name \notin TrackedEvents
    BY DEF Vault!VaultEvent, TrackedEvents
  <2>2. Calls(e, "addVaultPool", "tx")
    BY <1>1, VaultBase DEF Vault!addPoolEndpoint
  <2> HIDE DEF e
  <2>3. QED
    BY <2>1, <2>2, PassiveCalls, PassiveFrame DEF Tracked
<1>2. ASSUME NEW j \in Jobs, Vault!onPoolAdded(j) PROVE Frame
  <2>1. jobs[j].kind = "onVaultPoolAdded"
    BY <1>2 DEF Vault!onPoolAdded, Vault!At
  <2>2. QED
    BY <1>2, <2>1, FindNewPoolFrame, SaveNewPoolFrame DEF Vault!onPoolAdded, Tracked
<1>3. ASSUME NEW j \in Jobs, Vault!addPool(j) PROVE Frame
  <2>1. jobs[j].kind = "addVaultPool"
    BY <1>3 DEF Vault!addPool, Vault!At
  <2>2. CASE Vault!Transacts(j, "onVaultPoolAdded", "findPool", "findPool")
    BY <2>1, <2>2, VaultBase, PassiveTransacts, PassiveFrame DEF Tracked, Endpoints
  <2>3. QED
    BY <1>3, <2>1, <2>2, FindNewPoolFrame, SaveNewPoolFrame DEF Vault!addPool, Tracked
<1>4. QED
  BY <1>1, <1>2, <1>3

\* The registry's transactions and handlers.
LEMMA RegistryCallFrame ==
  ASSUME Shapes, NEW p, NEW active, NEW min, NEW max,
         \/ Strategy!addPoolEndpoint(p, min, max)
         \/ Strategy!updatePoolEndpoint(p, active, min, max)
         \/ Strategy!executeRebalance(p)
  PROVE  Frame
<1>1. ASSUME NEW e, NEW kind, NEW at, NEW f, Strategy!Emits(e, kind, at, f),
             e.name \notin TrackedEvents, kind \notin Tracked \union Endpoints
      PROVE  Frame
  BY <1>1, StrategyBase, PassiveEmits, PassiveFrame
<1>2. CASE Strategy!addPoolEndpoint(p, min, max)
  <2> DEFINE e == Strategy!RegistryEvent("RegistryPoolAdded", p, TRUE, min, max)
  <2>1. e.name \notin TrackedEvents
    BY DEF Strategy!RegistryEvent, TrackedEvents
  <2>2. Strategy!Emits(e, "onRegistryPoolAdded", "save", min = 0 /\ max = 0)
    BY <1>2 DEF Strategy!addPoolEndpoint, Strategy!addPool
  <2> HIDE DEF e
  <2>3. QED
    BY <1>1, <2>1, <2>2 DEF Tracked, Endpoints
<1>3. CASE Strategy!updatePoolEndpoint(p, active, min, max)
  <2> DEFINE e == Strategy!RegistryEvent("PoolUpdated", p, active, min, max)
  <2>1. e.name \notin TrackedEvents
    BY DEF Strategy!RegistryEvent, TrackedEvents
  <2>2. Strategy!Emits(e, "onPoolUpdated", "update", TRUE)
    BY <1>3 DEF Strategy!updatePoolEndpoint, Strategy!updatePool
  <2> HIDE DEF e
  <2>3. QED
    BY <1>1, <2>1, <2>2 DEF Tracked, Endpoints
<1>4. CASE Strategy!executeRebalance(p)
  <2> DEFINE e == Strategy!RegistryEvent("StrategyExecuted", p, TRUE, 0, 0)
  <2>1. e.name \notin TrackedEvents
    BY DEF Strategy!RegistryEvent, TrackedEvents
  <2>2. Strategy!Emits(e, "onStrategyExecuted", "save", TRUE)
    BY <1>4 DEF Strategy!executeRebalance
  <2> HIDE DEF e
  <2>3. QED
    BY <1>1, <2>1, <2>2 DEF Tracked, Endpoints
<1>5. QED
  BY <1>2, <1>3, <1>4

\* The registry's handlers keep a supply or start it at zero.
LEMMA RegistryStepFrame ==
  ASSUME Shapes, NEW j \in Jobs, Strategy!subscribeToEvents(j)
  PROVE  Frame
<1>1. ASSUME Strategy!onPoolAdded(j) PROVE Frame
  <2> DEFINE p == jobs[j].ev.pool
             supply == IF Strategy!HasPool(p) THEN db.pools[p].supply ELSE 0
             row == [supply |-> supply, active |-> TRUE, min |-> 0, max |-> 0]
             table == [k \in DOMAIN db.pools \union {p} |-> IF k = p THEN row ELSE db.pools[k]]
  <2>1. Writes(j, "pools", table)
    BY <1>1, StrategyBase DEF Strategy!onPoolAdded, Strategy!Put
  <2>2. /\ DOMAIN table = DOMAIN db.pools \union {p} /\ table[p] = row
        /\ \A q \in DOMAIN db.pools \ {p} : table[q] = db.pools[q]
        /\ table = [q \in DOMAIN table |-> table[q]]
    OBVIOUS
  <2>3. row.supply = supply
         /\ row = [supply |-> row.supply, active |-> row.active, min |-> row.min, max |-> row.max]
    OBVIOUS
  <2>4. p \in DOMAIN db.pools => supply = db.pools[p].supply
    BY DEF Strategy!HasPool
  <2>5. p \notin DOMAIN db.pools => supply = 0
    BY DEF Strategy!HasPool
  <2> HIDE DEF table, row, supply
  <2>6. PoolTable(table)
    BY <2>2, <2>3, Zenon DEF PoolTable, Shapes, TableShapes
  <2>7. /\ Shapes' /\ LogKept /\ RewardFrame /\ WeightFrame
        /\ JobsKept(MoveKinds) /\ db'.balances = db.balances /\ db'.pools = table
    BY <2>1, <2>6, PoolWrites
  <2>8. QED
    BY <2>2, <2>3, <2>4, <2>5, <2>7 DEF Frame, VaultFrame
<1>2. ASSUME Strategy!onPoolUpdated(j) PROVE Frame
  <2>0. PICK e, p : e = jobs[j].ev /\ p = e.pool
    OBVIOUS
  <2> DEFINE table == [db.pools EXCEPT ![p].active = e.active, ![p].min = e.min, ![p].max = e.max]
  <2>1. CASE Strategy!Ends(j)
    BY <2>1, StrategyBase, PassiveEnds, PassiveFrame DEF Ends
  <2>2. CASE p \in DOMAIN db.pools /\ Strategy!Writes(j, "pools", table)
    <3>0. p \in DOMAIN db.pools
      BY <2>2
    <3>1. db.pools = [q \in DOMAIN db.pools |-> db.pools[q]]
      BY Zenon DEF Shapes, TableShapes
    <3>2. db.pools[p] = [supply |-> db.pools[p].supply, active |-> db.pools[p].active,
                         min |-> db.pools[p].min, max |-> db.pools[p].max]
      BY <3>0, Zenon DEF Shapes, TableShapes
    <3>3. /\ DOMAIN table = DOMAIN db.pools
          /\ table = [q \in DOMAIN table |-> table[q]]
          /\ \A q \in DOMAIN db.pools \ {p} : table[q] = db.pools[q]
      BY ONLY <3>0, <3>1
    <3>4. table[p] = [supply |-> db.pools[p].supply, active |-> e.active, min |-> e.min, max |-> e.max]
      BY ONLY <3>0, <3>1, <3>2
    <3>5. Writes(j, "pools", table)
      BY <2>2, StrategyBase, Zenon
    <3> HIDE DEF table
    <3>6. PoolTable(table)
      BY <3>3, <3>4 DEF PoolTable, Shapes, TableShapes
    <3>7. /\ Shapes' /\ LogKept /\ RewardFrame /\ WeightFrame
          /\ JobsKept(MoveKinds) /\ db'.balances = db.balances /\ db'.pools = table
      BY <3>5, <3>6, PoolWrites
    <3>8. QED
      BY <3>3, <3>4, <3>7 DEF Frame, VaultFrame
  <2>3. QED
    BY <1>2, <2>0, <2>1, <2>2, Zenon DEF Strategy!onPoolUpdated, Strategy!HasPool
<1>3. ASSUME Strategy!onStrategyExecuted(j) PROVE Frame
  <2>1. PICK table : Strategy!Writes(j, "executions", table)
    BY <1>3 DEF Strategy!onStrategyExecuted
  <2>2. QED
    BY <2>1, StrategyBase, OtherWrites
<1>4. QED
  BY <1>1, <1>2, <1>3 DEF Strategy!subscribeToEvents

\* Authorizing and revoking, in handlers and endpoints, write the distributors alone.
LEMMA DistributorFrame ==
  ASSUME Shapes, NEW j \in Jobs, jobs[j].kind \notin Tracked \union {"idle"},
         Reward!FindDistributor(j) \/ Reward!SaveDistributor(j) \/ Reward!RevokeRows(j)
  PROVE  Frame
<1>1. CASE Reward!FindDistributor(j)
  BY <1>1, RewardBase, PassiveReads, PassiveFrame DEF Reward!FindDistributor
<1>2. CASE Reward!SaveDistributor(j) \/ Reward!RevokeRows(j)
  <2>1. PICK table : Reward!Writes(j, "distributors", table)
    BY <1>2 DEF Reward!SaveDistributor, Reward!RevokeRows
  <2>2. QED
    BY <2>1, RewardBase, OtherWrites
<1>3. QED
  BY <1>1, <1>2

\* Endpoints of the rewards that distribute nothing.
LEMMA RewardCallFrame ==
  ASSUME Shapes, NEW u,
         \/ Reward!claimEndpoint(u)
         \/ Reward!authorizeDistributorEndpoint(u)
         \/ Reward!revokeDistributorEndpoint(u)
  PROVE  Frame
<1>1. CASE Reward!claimEndpoint(u)
  <2> DEFINE e == Reward!RewardEvent("RewardClaimed", u, 0)
  <2>1. e.name \notin TrackedEvents
    BY DEF Reward!RewardEvent, TrackedEvents
  <2>2. Emits(e, "onRewardClaimed", "update", TRUE)
    BY <1>1, RewardBase DEF Reward!claimEndpoint, Reward!claimRewards
  <2> HIDE DEF e
  <2>3. QED
    BY <2>1, <2>2, PassiveEmits, PassiveFrame DEF Tracked, Endpoints
<1>2. CASE Reward!authorizeDistributorEndpoint(u)
  <2> DEFINE e == Reward!RewardEvent("DistributorAuthorized", u, 0)
  <2>1. e.name \notin TrackedEvents
    BY DEF Reward!RewardEvent, TrackedEvents
  <2>2. Calls(e, "authorizeDistributor", "tx")
    BY <1>2, RewardBase DEF Reward!authorizeDistributorEndpoint
  <2> HIDE DEF e
  <2>3. QED
    BY <2>1, <2>2, PassiveCalls, PassiveFrame DEF Tracked
<1>3. CASE Reward!revokeDistributorEndpoint(u)
  <2> DEFINE e == Reward!RewardEvent("DistributorRevoked", u, 0)
  <2>1. e.name \notin TrackedEvents
    BY DEF Reward!RewardEvent, TrackedEvents
  <2>2. Calls(e, "revokeDistributor", "tx")
    BY <1>3, RewardBase DEF Reward!revokeDistributorEndpoint
  <2> HIDE DEF e
  <2>3. QED
    BY <2>1, <2>2, PassiveCalls, PassiveFrame DEF Tracked
<1>4. QED
  BY <1>1, <1>2, <1>3

\* A claim marks rows and leaves their amounts.
LEMMA ClaimFrame ==
  ASSUME Shapes, NEW j \in Jobs, Reward!onRewardClaimed(j)
  PROVE  Frame
<1> DEFINE table == [i \in DOMAIN db.rewards |->
              IF db.rewards[i].user = jobs[j].ev.user THEN [db.rewards[i] EXCEPT !.claimed = TRUE]
                                                      ELSE db.rewards[i]]
<1>1. Writes(j, "rewards", table)
  BY RewardBase DEF Reward!onRewardClaimed
<1>2. \A i \in DOMAIN db.rewards :
        /\ db.rewards[i] = [user |-> db.rewards[i].user, amount |-> db.rewards[i].amount,
                            claimed |-> db.rewards[i].claimed]
        /\ db.rewards[i].amount \in Nat
  BY DEF Shapes, TableShapes
<1>3. ASSUME NEW i \in DOMAIN db.rewards
      PROVE  /\ table[i] = [user |-> table[i].user, amount |-> table[i].amount,
                            claimed |-> table[i].claimed]
             /\ table[i].amount = db.rewards[i].amount
  <2>1. db.rewards[i] = [user |-> db.rewards[i].user, amount |-> db.rewards[i].amount,
                         claimed |-> db.rewards[i].claimed]
    BY <1>2
  <2>2. table[i] = [db.rewards[i] EXCEPT !.claimed = TRUE] \/ table[i] = db.rewards[i]
    OBVIOUS
  <2> HIDE DEF table
  <2>3. QED
    BY ONLY <2>1, <2>2
<1>4. DOMAIN table = DOMAIN db.rewards
  OBVIOUS
<1>5. \E S : table \in Seq(S)
  <2>1. PICK S : db.rewards \in Seq(S)
    BY DEF Shapes, TableShapes
  <2>2. DOMAIN db.rewards = 1..Len(db.rewards) /\ Len(db.rewards) \in Nat
    BY <2>1
  <2> DEFINE R == {table[i] : i \in DOMAIN db.rewards}
  <2>3. \A i \in DOMAIN db.rewards : table[i] \in R
    OBVIOUS
  <2>4. table = [i \in 1..Len(db.rewards) |-> table[i]]
    BY <2>2
  <2> HIDE DEF table, R
  <2>5. table \in [1..Len(db.rewards) -> R]
    BY <2>2, <2>3, <2>4
  <2>6. table \in Seq(R)
    BY <2>2, <2>5
  <2>7. QED
    BY <2>6
<1> HIDE DEF table
<1>6. "rewards" \in TableNames
  BY DEF TableNames
<1>7. /\ JobShapes' /\ LogShape' /\ LogKept
      /\ JobsKept(MoveKinds) /\ JobsKept({"onRewardDistributed"}) /\ JobsKept({"onRebalanced"})
      /\ db' = [s \in TableNames |-> IF s = "rewards" THEN table ELSE db[s]]
  BY <1>1, <1>6, WritesForm
<1>8. /\ db' = [s \in TableNames |-> db'[s]]
      /\ db'.rewards = table /\ db'.balances = db.balances
      /\ db'.pools = db.pools /\ db'.weights = db.weights
  BY <1>7 DEF TableNames
<1>9. TableShapes'
  BY <1>2, <1>3, <1>4, <1>5, <1>8 DEF Shapes, TableShapes
<1>10. QED
  BY <1>3, <1>4, <1>7, <1>8, <1>9 DEF Frame, Shapes, VaultFrame, RewardFrame, WeightFrame

\* Handlers and endpoints of the rewards that store no reward.
LEMMA RewardStepFrame ==
  ASSUME Shapes, NEW j \in Jobs,
         \/ Reward!onRewardClaimed(j)
         \/ Reward!onDistributorAuthorized(j)
         \/ Reward!onDistributorRevoked(j)
         \/ Reward!authorizeDistributor(j)
         \/ Reward!revokeDistributor(j)
  PROVE  Frame
<1>1. CASE Reward!onDistributorAuthorized(j)
  <2>1. jobs[j].kind = "onDistributorAuthorized"
    BY <1>1 DEF Reward!onDistributorAuthorized, Reward!At
  <2>2. QED
    BY <1>1, <2>1, DistributorFrame DEF Reward!onDistributorAuthorized, Tracked
<1>2. CASE Reward!onDistributorRevoked(j)
  <2>1. jobs[j].kind = "onDistributorRevoked"
    BY <1>2 DEF Reward!onDistributorRevoked, Reward!At
  <2>2. QED
    BY <1>2, <2>1, DistributorFrame DEF Reward!onDistributorRevoked, Tracked
<1>3. CASE Reward!authorizeDistributor(j)
  <2>1. jobs[j].kind = "authorizeDistributor"
    BY <1>3 DEF Reward!authorizeDistributor, Reward!At
  <2>2. CASE Reward!Transacts(j, "onDistributorAuthorized", "findDistributor", "findDistributor")
    BY <2>1, <2>2, RewardBase, PassiveTransacts, PassiveFrame DEF Tracked, Endpoints
  <2>3. QED
    BY <1>3, <2>1, <2>2, DistributorFrame DEF Reward!authorizeDistributor, Tracked
<1>4. CASE Reward!revokeDistributor(j)
  <2>1. jobs[j].kind = "revokeDistributor"
    BY <1>4 DEF Reward!revokeDistributor, Reward!At
  <2>2. CASE Reward!Transacts(j, "onDistributorRevoked", "update", "update")
    BY <2>1, <2>2, RewardBase, PassiveTransacts, PassiveFrame DEF Tracked, Endpoints
  <2>3. QED
    BY <1>4, <2>1, <2>2, DistributorFrame DEF Reward!revokeDistributor, Tracked
<1>5. QED
  BY <1>1, <1>2, <1>3, <1>4, ClaimFrame

\* The oracle's updates and their handlers.
LEMMA OracleCallFrame ==
  ASSUME Shapes, NEW p, NEW q, NEW a, NEW isDeposit, NEW r, NEW c,
         \/ Oracle!updateMetricsEndpoint(p, a, isDeposit)
         \/ Oracle!updateVolatilityEndpoint(p, r)
         \/ Oracle!updateYieldRateEndpoint(p, r)
         \/ Oracle!updateCorrelationEndpoint(p, q, c)
  PROVE  Frame
<1>1. ASSUME NEW col, NEW v, Oracle!ChangesColumn(p, col, v) PROVE Frame
  <2> DEFINE e == Oracle!MetricsUpdated(p, [Oracle!getPoolMetrics(p) EXCEPT ![col] = v])
  <2>1. e.name \notin TrackedEvents
    BY DEF Oracle!MetricsUpdated, TrackedEvents
  <2>2. Emits(e, "onMetricsUpdated", "find", Oracle!HasPool(p))
    BY <1>1, OracleBase DEF Oracle!ChangesColumn
  <2> HIDE DEF e
  <2>3. QED
    BY <2>1, <2>2, PassiveEmits, PassiveFrame DEF Tracked, Endpoints
<1>2. CASE Oracle!updateMetricsEndpoint(p, a, isDeposit)
  BY <1>1, <1>2 DEF Oracle!updateMetricsEndpoint, Oracle!updatePoolMetrics
<1>3. CASE Oracle!updateVolatilityEndpoint(p, r) \/ Oracle!updateYieldRateEndpoint(p, r)
  BY <1>1, <1>3 DEF Oracle!updateVolatilityEndpoint, Oracle!updateVolatility,
                    Oracle!updateYieldRateEndpoint, Oracle!updateYieldRate
<1>4. CASE Oracle!updateCorrelationEndpoint(p, q, c)
  <2> DEFINE e == Oracle!CorrelationUpdated(p, q, c)
  <2>1. e.name \notin TrackedEvents
    BY DEF Oracle!CorrelationUpdated, TrackedEvents
  <2>2. Emits(e, "onCorrelationUpdated", "find", TRUE)
    BY <1>4, OracleBase DEF Oracle!updateCorrelationEndpoint, Oracle!updateCorrelation
  <2> HIDE DEF e
  <2>3. QED
    BY <2>1, <2>2, PassiveEmits, PassiveFrame DEF Tracked, Endpoints
<1>5. QED
  BY <1>2, <1>3, <1>4

\* The oracle's handlers write tables that none of the three mirrors speaks of.
LEMMA OracleStepFrame ==
  ASSUME Shapes, NEW j \in Jobs, Oracle!onMetricsUpdated(j) \/ Oracle!onCorrelationUpdated(j)
  PROVE  Frame
<1>1. jobs[j].kind \in {"onMetricsUpdated", "onCorrelationUpdated"}
  BY DEF Oracle!onMetricsUpdated, Oracle!onCorrelationUpdated
<1>2. \/ \E at, found : Oracle!Reads(j, at, found)
      \/ \E table : Oracle!Writes(j, "metrics", table) \/ Oracle!Writes(j, "correlations", table)
      \/ Oracle!Ends(j)
  <2>1. CASE Oracle!onMetricsUpdated(j)
    BY <2>1, Zenon DEF Oracle!onMetricsUpdated
  <2>2. CASE Oracle!onCorrelationUpdated(j)
    BY <2>2, Zenon DEF Oracle!onCorrelationUpdated
  <2>3. QED
    BY <2>1, <2>2
<1>3. CASE \E at, found : Oracle!Reads(j, at, found)
  BY <1>1, <1>3, OracleBase, PassiveReads, PassiveFrame DEF Tracked
<1>4. CASE \E table : Oracle!Writes(j, "metrics", table) \/ Oracle!Writes(j, "correlations", table)
  BY <1>4, OracleBase, OtherWrites
<1>5. CASE Oracle!Ends(j)
  BY <1>5, OracleBase, PassiveEnds, PassiveFrame DEF Ends
<1>6. QED
  BY <1>2, <1>3, <1>4, <1>5

\* A harvest and a rejecting handler of the yield engine.
LEMMA HarvestFrame ==
  ASSUME Shapes
  PROVE  /\ \A p, a : Yield!harvestEndpoint(p, a) => Frame
         /\ \A j \in Jobs : Yield!onYieldHarvested(j) \/ Yield!HandlerRejects(j) => Frame
<1>1. ASSUME NEW p, NEW a, Yield!harvestEndpoint(p, a) PROVE Frame
  <2> DEFINE e == Yield!YieldHarvested(p, a)
  <2>1. e.name \notin TrackedEvents
    BY DEF Yield!YieldHarvested, TrackedEvents
  <2>2. Emits(e, "onYieldHarvested", "save", Yield!HasPool(p))
    BY <1>1, YieldBase DEF Yield!harvestEndpoint, Yield!harvestYield
  <2> HIDE DEF e
  <2>3. QED
    BY <2>1, <2>2, PassiveEmits, PassiveFrame DEF Tracked, Endpoints
<1>2. ASSUME NEW j \in Jobs, Yield!Crash PROVE Frame
  BY <1>2, YieldBase, PassiveCrash, PassiveFrame
<1>3. ASSUME NEW j \in Jobs, NEW table, Yield!Writes(j, "harvests", table) PROVE Frame
  BY <1>3, YieldBase, OtherWrites
<1>4. ASSUME NEW j \in Jobs, Yield!onYieldHarvested(j) \/ Yield!HandlerRejects(j) PROVE Frame
  BY <1>2, <1>3, <1>4 DEF Yield!onYieldHarvested, Yield!HandlerRejects
<1>5. QED
  BY <1>1, <1>4

-----------------------------------------------------------------------------
\* The vault's tables. Every handler on its way is given the position of its event in
\* the log. A stored balance is the sum of events whose handlers are past the read of
\* the balance, and a balance that a handler has read is one of events other than its
\* own; the same holds of the supplies. So the event a handler adds is a new one.
DeltaSum(lg, S) == SumFunction([i \in S |-> Vault!Delta(lg[i])])
SomeSums(lg, A) == {DeltaSum(lg, S) : S \in SUBSET A}

\* Sums of some events of a log are sums of some of more events of a longer one.
LEMMA SomeSumsKept ==
  ASSUME NEW lg, NEW lh, NEW A, NEW B, A \subseteq B, \A i \in A : lh[i] = lg[i],
         NEW v \in SomeSums(lg, A)
  PROVE  v \in SomeSums(lh, B)
<1>1. PICK S \in SUBSET A : v = SumFunction([i \in S |-> Vault!Delta(lg[i])])
  BY DEF SomeSums, DeltaSum
<1>2. [i \in S |-> Vault!Delta(lg[i])] = [i \in S |-> Vault!Delta(lh[i])]
  OBVIOUS
<1>3. v = DeltaSum(lh, S)
  BY <1>1, <1>2 DEF DeltaSum
<1>4. QED
  BY <1>3 DEF SomeSums

\* No events sum to zero, and one more event is one more summand.
LEMMA SomeSumsZero == ASSUME NEW lg, NEW A PROVE 0 \in SomeSums(lg, A)
<1> DEFINE f == [i \in {} |-> Vault!Delta(lg[i])]
<1>1. DOMAIN f = {}
  OBVIOUS
<1> HIDE DEF f
<1>2. SumFunction(f) = SumFunctionOnSet(f, {})
  BY <1>1 DEF SumFunction
<1>3. DeltaSum(lg, {}) = 0
  BY <1>2, SumEmpty DEF DeltaSum, f
<1>4. QED
  BY <1>3 DEF SomeSums

\* One more event is one more summand.
LEMMA SomeSumsAdd ==
  ASSUME NEW lg, NEW A, IsFiniteSet(A), NEW i, i \notin A,
         \A x \in A \union {i} : Vault!Delta(lg[x]) \in Int,
         NEW v \in SomeSums(lg, A)
  PROVE  v + Vault!Delta(lg[i]) \in SomeSums(lg, A \union {i})
<1>1. PICK S \in SUBSET A : v = DeltaSum(lg, S)
  BY DEF SomeSums
<1> DEFINE f == [x \in S |-> Vault!Delta(lg[x])]
           g == [x \in S \union {i} |-> Vault!Delta(lg[x])]
<1>2. DOMAIN f = S /\ DOMAIN g = S \union {i}
  OBVIOUS
<1>3. /\ \A x \in S : f[x] \in Int /\ f[x] = g[x]
      /\ g[i] = Vault!Delta(lg[i]) /\ g[i] \in Int
  OBVIOUS
<1>4. IsFiniteSet(S) /\ i \notin S
  BY FS_Subset
<1>5. v = SumFunction(f) /\ DeltaSum(lg, S \union {i}) = SumFunction(g)
  BY <1>1 DEF DeltaSum
<1> HIDE DEF f, g
<1>6. SumFunctionOnSet(g, S \union {i}) = SumFunctionOnSet(f, S) + g[i]
  BY ONLY <1>3, <1>4, SumAdd
<1>7. DeltaSum(lg, S \union {i}) = v + Vault!Delta(lg[i])
  BY <1>2, <1>3, <1>5, <1>6 DEF SumFunction
<1>8. S \union {i} \in SUBSET (A \union {i})
  OBVIOUS
<1>9. QED
  BY <1>7, <1>8 DEF SomeSums

\* The number of a handler is the position of its event, and of no other handler's.
Numbered(ix, kinds) ==
  /\ \A j \in Jobs : jobs[j].kind \in kinds => ix[j] \in DOMAIN log /\ log[ix[j]] = jobs[j].ev
  /\ \A j, k \in Jobs :
       jobs[j].kind \in kinds /\ jobs[k].kind \in kinds /\ ix[j] = ix[k] => j = k

\* The events of the handlers that stand at one of the given awaits.
Pending(ix, ats) ==
  {ix[j] : j \in {k \in Jobs : jobs[k].kind \in MoveKinds /\ jobs[k].at \in ats}}
Unread(ix) == Pending(ix, {"findBalance"})
Uncounted(ix) == Pending(ix, {"findBalance", "saveBalance", "findPool"})

\* The values a balance or a supply can have: taken is the event of a handler that has
\* read one and is about to add its own.
UserSums(ix, u, p, taken) == SomeSums(log, Vault!UserEvents(u, p) \ (Unread(ix) \union taken))
PoolSums(ix, p, taken) == SomeSums(log, Vault!PoolEvents(p) \ (Uncounted(ix) \union taken))

BalanceKnown(ix, j) ==
  jobs[j].found[1].balance \in UserSums(ix, jobs[j].ev.user, jobs[j].ev.pool, {ix[j]})
SupplyKnown(ix, j) == jobs[j].found[1].supply \in PoolSums(ix, jobs[j].ev.pool, {ix[j]})

VaultInv(ix) ==
  /\ Numbered(ix, MoveKinds)
  /\ \A j \in Jobs : jobs[j].kind \in MoveKinds => Vault!Moves(jobs[j].ev)
  /\ \A k \in DOMAIN db.balances : db.balances[k].balance \in UserSums(ix, k[2], k[1], {})
  /\ \A p \in DOMAIN db.pools : db.pools[p].supply \in PoolSums(ix, p, {})
  /\ \A j \in Jobs :
       jobs[j].kind \in MoveKinds /\ jobs[j].at = "saveBalance" /\ jobs[j].found # <<>>
         => BalanceKnown(ix, j)
  /\ \A j \in Jobs :
       jobs[j].kind \in MoveKinds /\ jobs[j].at = "savePool" => SupplyKnown(ix, j)

\* A step keeps the vault's invariant if no event of the log becomes pending again and
\* what is stored or read is what was, or is known to be a sum of events.
LEMMA VaultKeeps ==
  ASSUME NEW ix, NEW iy, VaultInv(ix), LogKept, Numbered(iy, MoveKinds)',
         \A j \in Jobs : jobs'[j].kind \in MoveKinds => Vault!Moves(jobs'[j].ev),
         \A i \in DOMAIN log : i \in Unread(iy)' => i \in Unread(ix),
         \A i \in DOMAIN log : i \in Uncounted(iy)' => i \in Uncounted(ix),
         \A k \in DOMAIN db'.balances :
           \/ k \in DOMAIN db.balances /\ db'.balances[k].balance = db.balances[k].balance
           \/ db'.balances[k].balance \in UserSums(iy, k[2], k[1], {})',
         \A p \in DOMAIN db'.pools :
           \/ p \in DOMAIN db.pools /\ db'.pools[p].supply = db.pools[p].supply
           \/ db'.pools[p].supply \in PoolSums(iy, p, {})',
         \A j \in Jobs : jobs'[j].kind \in MoveKinds /\ jobs'[j].at \in {"saveBalance", "savePool"} =>
           \/ jobs'[j] = jobs[j] /\ iy[j] = ix[j]
           \/ /\ jobs'[j].at = "saveBalance" /\ jobs'[j].found # <<>> => BalanceKnown(iy, j)'
              /\ jobs'[j].at = "savePool" => SupplyKnown(iy, j)'
  PROVE  VaultInv(iy)'
<1>1. /\ \A p : Vault!PoolEvents(p) \subseteq Vault!PoolEvents(p)'
      /\ \A u, p : Vault!UserEvents(u, p) \subseteq Vault!UserEvents(u, p)'
      /\ \A p : Vault!PoolEvents(p) \subseteq DOMAIN log
      /\ \A u, p : Vault!UserEvents(u, p) \subseteq DOMAIN log
  BY DEF LogKept, Vault!PoolEvents, Vault!UserEvents
<1>2. ASSUME NEW u, NEW p, NEW taken, NEW v \in UserSums(ix, u, p, taken)
      PROVE  v \in SomeSums(log', Vault!UserEvents(u, p)' \ (Unread(iy)' \union taken))
  <2>1. Vault!UserEvents(u, p) \ (Unread(ix) \union taken)
          \subseteq Vault!UserEvents(u, p)' \ (Unread(iy)' \union taken)
    BY <1>1
  <2>2. \A i \in Vault!UserEvents(u, p) \ (Unread(ix) \union taken) : log'[i] = log[i]
    BY <1>1 DEF LogKept
  <2>3. v \in SomeSums(log, Vault!UserEvents(u, p) \ (Unread(ix) \union taken))
    BY <1>2 DEF UserSums
  <2>4. QED
    BY ONLY <2>1, <2>2, <2>3, SomeSumsKept
<1>3. ASSUME NEW p, NEW taken, NEW v \in PoolSums(ix, p, taken)
      PROVE  v \in SomeSums(log', Vault!PoolEvents(p)' \ (Uncounted(iy)' \union taken))
  <2>1. Vault!PoolEvents(p) \ (Uncounted(ix) \union taken)
          \subseteq Vault!PoolEvents(p)' \ (Uncounted(iy)' \union taken)
    BY <1>1
  <2>2. \A i \in Vault!PoolEvents(p) \ (Uncounted(ix) \union taken) : log'[i] = log[i]
    BY <1>1 DEF LogKept
  <2>3. v \in SomeSums(log, Vault!PoolEvents(p) \ (Uncounted(ix) \union taken))
    BY <1>3 DEF PoolSums
  <2>4. QED
    BY ONLY <2>1, <2>2, <2>3, SomeSumsKept
<1>4. ASSUME NEW k \in DOMAIN db'.balances
      PROVE  db'.balances[k].balance \in UserSums(iy, k[2], k[1], {})'
  BY <1>2 DEF VaultInv, UserSums
<1>5. ASSUME NEW p \in DOMAIN db'.pools
      PROVE  db'.pools[p].supply \in PoolSums(iy, p, {})'
  BY <1>3 DEF VaultInv, PoolSums
<1>6. ASSUME NEW j \in Jobs, jobs'[j].kind \in MoveKinds, jobs'[j].at = "saveBalance",
             jobs'[j].found # <<>>
      PROVE  BalanceKnown(iy, j)'
  <2>1. CASE jobs'[j] = jobs[j] /\ iy[j] = ix[j]
    <3>1. jobs[j].found[1].balance \in UserSums(ix, jobs[j].ev.user, jobs[j].ev.pool, {ix[j]})
      BY <1>6, <2>1 DEF VaultInv, BalanceKnown
    <3>2. QED
      BY <1>2, <2>1, <3>1 DEF BalanceKnown, UserSums
  <2>2. QED
    BY <1>6, <2>1
<1>7. ASSUME NEW j \in Jobs, jobs'[j].kind \in MoveKinds, jobs'[j].at = "savePool"
      PROVE  SupplyKnown(iy, j)'
  <2>1. CASE jobs'[j] = jobs[j] /\ iy[j] = ix[j]
    <3>1. jobs[j].found[1].supply \in PoolSums(ix, jobs[j].ev.pool, {ix[j]})
      BY <1>7, <2>1 DEF VaultInv, SupplyKnown
    <3>2. QED
      BY <1>3, <2>1, <3>1 DEF SupplyKnown, PoolSums
  <2>2. QED
    BY <1>7, <2>1
<1>8. QED
  BY <1>4, <1>5, <1>6, <1>7 DEF VaultInv

\* A step of none of the vault's handlers.
LEMMA VaultFrameStep ==
  ASSUME NEW ix, VaultInv(ix), VaultFrame
  PROVE  VaultInv(ix)'
<1>1. \A j \in Jobs : jobs'[j].kind \in MoveKinds => jobs'[j] = jobs[j]
  BY DEF VaultFrame, JobsKept
<1>2. Numbered(ix, MoveKinds)'
  BY <1>1 DEF VaultInv, VaultFrame, LogKept, Numbered
<1>3. \A j \in Jobs : jobs'[j].kind \in MoveKinds => Vault!Moves(jobs'[j].ev)
  BY <1>1 DEF VaultInv
<1>4. \A ats : Pending(ix, ats)' \subseteq Pending(ix, ats)
  BY <1>1 DEF Pending
<1>5. \A p \in DOMAIN db'.pools :
        \/ p \in DOMAIN db.pools /\ db'.pools[p].supply = db.pools[p].supply
        \/ db'.pools[p].supply \in PoolSums(ix, p, {})'
  BY SomeSumsZero DEF VaultFrame, PoolSums
<1>6. LogKept /\ db'.balances = db.balances
  BY DEF VaultFrame
<1>7. QED
  BY <1>1, <1>2, <1>3, <1>4, <1>5, <1>6, VaultKeeps DEF Unread, Uncounted

\* A deposit or a withdrawal, and its handler when the service has subscribed.
LEMMA VaultEmits ==
  ASSUME Shapes, NEW ix \in [Jobs -> Nat], VaultInv(ix),
         NEW e, NEW kind \in MoveKinds, NEW f, Emits(e, kind, "findBalance", f),
         Vault!Moves(e), e.amount \in Nat
  PROVE  /\ \E iy \in [Jobs -> Nat] : VaultInv(iy)'
         /\ Shapes' /\ RewardFrame /\ WeightFrame
<1>1. Sound(e)
  BY DEF Sound, Vault!Moves
<1>2. kind \notin Endpoints
  BY DEF MoveKinds, Endpoints
<1>3. /\ Shapes' /\ LogKept /\ db' = db /\ log' = Append(log, e)
      /\ \/ jobs' = jobs
         \/ \E j \in Jobs : ~Running(j) /\ JobMoves(j, Job(kind, "findBalance", e))
  BY <1>1, <1>2, EmitsForm
<1>4. /\ Len(log) \in Nat /\ Len(log) + 1 \notin DOMAIN log
      /\ DOMAIN log' = DOMAIN log \union {Len(log) + 1} /\ log'[Len(log) + 1] = e
  BY <1>1, <1>3, LogAppended DEF Shapes
<1>5. JobsKept({"onRewardDistributed"}) /\ JobsKept({"onRebalanced"})
  BY <1>3 DEF JobsKept, JobMoves, Job, MoveKinds
<1>6. RewardFrame /\ WeightFrame
  BY <1>3, <1>5 DEF RewardFrame, WeightFrame
<1>7. CASE jobs' = jobs
  <2>1. VaultFrame
    BY <1>3, <1>7 DEF VaultFrame, JobsKept
  <2>2. QED
    BY <1>3, <1>6, <2>1, VaultFrameStep
<1>8. CASE \E j \in Jobs : ~Running(j) /\ JobMoves(j, Job(kind, "findBalance", e))
  <2>1. PICK j \in Jobs : ~Running(j) /\ JobMoves(j, Job(kind, "findBalance", e))
    BY <1>8
  <2>n. PICK n \in Nat : n = Len(log) + 1
    BY <1>4
  <2>2. PICK iy \in [Jobs -> Nat] : iy[j] = n /\ \A k \in Jobs \ {j} : iy[k] = ix[k]
    <3>1. [ix EXCEPT ![j] = n] \in [Jobs -> Nat]
      OBVIOUS
    <3>2. QED
      BY <3>1
  <2>3. /\ jobs'[j].kind = kind /\ jobs'[j].at = "findBalance" /\ jobs'[j].ev = e
        /\ \A k \in Jobs \ {j} : jobs'[k] = jobs[k]
    BY <2>1 DEF JobMoves, Job
  <2>4. n \notin DOMAIN log /\ n \in DOMAIN log' /\ log'[n] = e
    BY <1>4, <2>n
  <2>5. Numbered(iy, MoveKinds)'
    <3>1. ASSUME NEW k \in Jobs, jobs'[k].kind \in MoveKinds
          PROVE  iy[k] \in DOMAIN log' /\ log'[iy[k]] = jobs'[k].ev /\ (k # j => iy[k] \in DOMAIN log)
      <4>1. CASE k = j
        BY <2>2, <2>3, <2>4, <4>1
      <4>2. CASE k # j
        BY <1>3, <2>2, <2>3, <3>1, <4>2 DEF VaultInv, Numbered, LogKept
      <4>3. QED
        BY <4>1, <4>2
    <3>2. ASSUME NEW k \in Jobs, NEW m \in Jobs, jobs'[k].kind \in MoveKinds,
                 jobs'[m].kind \in MoveKinds, iy[k] = iy[m]
          PROVE  k = m
      <4>1. CASE k = j \/ m = j
        BY <2>2, <2>4, <3>1, <3>2, <4>1
      <4>2. CASE k # j /\ m # j
        BY <2>2, <2>3, <3>2, <4>2 DEF VaultInv, Numbered
      <4>3. QED
        BY <4>1, <4>2
    <3>3. QED
      BY <3>1, <3>2 DEF Numbered
  <2>6. \A k \in Jobs : jobs'[k].kind \in MoveKinds => Vault!Moves(jobs'[k].ev)
    BY <2>3 DEF VaultInv
  <2>7. ASSUME NEW ats, NEW i \in DOMAIN log, i \in Pending(iy, ats)' PROVE i \in Pending(ix, ats)
    <3>1. PICK k \in Jobs : jobs'[k].kind \in MoveKinds /\ jobs'[k].at \in ats /\ i = iy[k]
      BY <2>7 DEF Pending
    <3>2. k # j
      BY <2>2, <2>4, <2>7, <3>1
    <3>3. QED
      BY <2>2, <2>3, <3>1, <3>2 DEF Pending
  <2>8. \A k \in Jobs : jobs'[k].kind \in MoveKinds /\ jobs'[k].at \in {"saveBalance", "savePool"} =>
          jobs'[k] = jobs[k] /\ iy[k] = ix[k]
    BY <2>2, <2>3
  <2>9. /\ \A i \in DOMAIN log : i \in Unread(iy)' => i \in Unread(ix)
        /\ \A i \in DOMAIN log : i \in Uncounted(iy)' => i \in Uncounted(ix)
    BY <2>7 DEF Unread, Uncounted
  <2>10. VaultInv(iy)'
    BY <1>3, <2>5, <2>6, <2>8, <2>9, VaultKeeps
  <2>11. QED
    BY <1>3, <1>6, <2>2, <2>10
<1>9. QED
  BY <1>3, <1>7, <1>8

\* Events of the contract come from this backend's endpoints or from elsewhere.
LEMMA VaultCallStep ==
  ASSUME Shapes, NEW ix \in [Jobs -> Nat], VaultInv(ix),
         NEW u, NEW p, NEW a \in Amounts, Calling(u, p, a)
  PROVE  /\ \E iy \in [Jobs -> Nat] : VaultInv(iy)'
         /\ Shapes' /\ RewardFrame /\ WeightFrame
<1>1. \/ \E f : Vault!deposit(u, p, a, f)
      \/ \E f : Vault!withdraw(u, p, a, f)
  BY DEF Calling, Vault!depositEndpoint, Vault!withdrawEndpoint, Vault!MovedElsewhere
<1>2. a \in Nat
  BY MirrorAssumption
<1>3. CASE \E f : Vault!deposit(u, p, a, f)
  <2> DEFINE e == Vault!Deposit(u, p, a)
  <2>1. PICK f : Emits(e, "onDeposit", "findBalance", f)
    BY <1>3, VaultBase DEF Vault!deposit
  <2>2. Vault!Moves(e) /\ e.amount = a
    BY DEF Vault!Moves, Vault!Deposit, Vault!VaultEvent
  <2> HIDE DEF e
  <2>3. QED
    BY <1>2, <2>1, <2>2, VaultEmits DEF MoveKinds
<1>4. CASE \E f : Vault!withdraw(u, p, a, f)
  <2> DEFINE e == Vault!Withdrawal(u, p, a)
  <2>1. PICK f : Emits(e, "onWithdrawal", "findBalance", f)
    BY <1>4, VaultBase DEF Vault!withdraw
  <2>2. Vault!Moves(e) /\ e.amount = a
    BY DEF Vault!Moves, Vault!Withdrawal, Vault!VaultEvent
  <2> HIDE DEF e
  <2>3. QED
    BY <1>2, <2>1, <2>2, VaultEmits DEF MoveKinds
<1>5. QED
  BY <1>1, <1>3, <1>4

\* A handler of the vault that goes on: who else is pending stays as it was.
LEMMA MoverGoes ==
  ASSUME NEW ix, VaultInv(ix), NEW j \in Jobs, jobs[j].kind \in MoveKinds, log' = log,
         NEW at, NEW found,
         JobMoves(j, [kind |-> jobs[j].kind, at |-> at, ev |-> jobs[j].ev, found |-> found])
  PROVE  /\ LogKept /\ Numbered(ix, MoveKinds)'
         /\ \A k \in Jobs : jobs'[k].kind \in MoveKinds => Vault!Moves(jobs'[k].ev)
         /\ jobs'[j].at = at /\ jobs'[j].found = found /\ jobs'[j].ev = jobs[j].ev
         /\ \A k \in Jobs \ {j} : jobs'[k] = jobs[k]
         /\ \A ats : jobs[j].at \in ats => ix[j] \in Pending(ix, ats)
         /\ \A ats : at \notin ats =>
              /\ ix[j] \notin Pending(ix, ats)'
              /\ \A i \in Pending(ix, ats)' : i \in Pending(ix, ats)
         /\ \A ats : jobs[j].at \in ats => \A i \in Pending(ix, ats)' : i \in Pending(ix, ats)
<1>1. /\ jobs'[j].kind = jobs[j].kind /\ jobs'[j].at = at
      /\ jobs'[j].found = found /\ jobs'[j].ev = jobs[j].ev
      /\ \A k \in Jobs \ {j} : jobs'[k] = jobs[k]
  BY DEF JobMoves
<1>2. \A k \in Jobs : jobs'[k].kind = jobs[k].kind /\ jobs'[k].ev = jobs[k].ev
  BY <1>1
<1>3. LogKept /\ Numbered(ix, MoveKinds)'
  BY <1>2 DEF LogKept, VaultInv, Numbered
<1>4. \A k \in Jobs : jobs'[k].kind \in MoveKinds => Vault!Moves(jobs'[k].ev)
  BY <1>2 DEF VaultInv
<1>5. ASSUME NEW ats, jobs[j].at \in ats PROVE ix[j] \in Pending(ix, ats)
  BY <1>5 DEF Pending
<1>6. ASSUME NEW ats, NEW i \in Pending(ix, ats)', at \notin ats \/ jobs[j].at \in ats
      PROVE  i \in Pending(ix, ats)
  <2>1. PICK k \in Jobs : jobs'[k].kind \in MoveKinds /\ jobs'[k].at \in ats /\ i = ix[k]
    BY <1>6 DEF Pending
  <2>2. CASE k = j
    BY <1>1, <1>5, <1>6, <2>1, <2>2
  <2>3. CASE k # j
    BY <1>1, <2>1, <2>3 DEF Pending
  <2>4. QED
    BY <2>2, <2>3
<1>7. ASSUME NEW ats, at \notin ats PROVE ix[j] \notin Pending(ix, ats)'
  <2> SUFFICES ASSUME NEW k \in Jobs, jobs'[k].kind \in MoveKinds, jobs'[k].at \in ats, ix[j] = ix[k]
               PROVE  FALSE
    BY DEF Pending
  <2>1. k = j
    BY <1>2 DEF VaultInv, Numbered
  <2>2. QED
    BY <1>1, <1>7, <2>1
<1>8. QED
  BY <1>1, <1>3, <1>4, <1>5, <1>6, <1>7

\* The position of a handler's event is one of its user's, and its pool's.
LEMMA OwnEvent ==
  ASSUME Shapes, NEW ix, VaultInv(ix), NEW j \in Jobs, jobs[j].kind \in MoveKinds
  PROVE  /\ log[ix[j]] = jobs[j].ev
         /\ ix[j] \in Vault!UserEvents(jobs[j].ev.user, jobs[j].ev.pool)
         /\ ix[j] \in Vault!PoolEvents(jobs[j].ev.pool)
BY DEF VaultInv, Numbered, Vault!UserEvents, Vault!PoolEvents

\* What the events of a pool, and of a user, move are integers, and there are finitely
\* many of them.
LEMMA DeltasInt ==
  ASSUME Shapes
  PROVE  /\ \A u, p : Vault!UserEvents(u, p) \subseteq Vault!PoolEvents(p)
         /\ \A p : IsFiniteSet(Vault!PoolEvents(p))
         /\ \A p : \A i \in Vault!PoolEvents(p) : Vault!Delta(log[i]) \in Int
<1>1. PICK S : log \in Seq(S)
  BY DEF Shapes, LogShape
<1>2. DOMAIN log = 1..Len(log) /\ Len(log) \in Nat
  BY <1>1
<1>3. IsFiniteSet(DOMAIN log)
  BY <1>2, FS_Interval
<1>4. \A p : Vault!PoolEvents(p) \in SUBSET DOMAIN log
  BY DEF Vault!PoolEvents
<1>5. \A p : IsFiniteSet(Vault!PoolEvents(p))
  BY <1>3, <1>4, FS_Subset
<1>6. ASSUME NEW p, NEW i \in Vault!PoolEvents(p) PROVE Vault!Delta(log[i]) \in Int
  <2>1. i \in DOMAIN log /\ Vault!Moves(log[i])
    BY DEF Vault!PoolEvents
  <2>2. log[i].amount \in Nat
    BY <2>1 DEF Shapes, LogShape, Sound, Vault!Moves
  <2>3. QED
    BY <2>2 DEF Vault!Delta
<1>7. QED
  BY <1>5, <1>6 DEF Vault!UserEvents

\* A sum that leaves out the event of a handler, with that event's move added.
LEMMA OneMoreEvent ==
  ASSUME Shapes, NEW E, NEW p, E \subseteq Vault!PoolEvents(p), NEW B, NEW T,
         NEW i \in E, B \subseteq E \ {i}, T = E \ B,
         NEW v \in SomeSums(log, E \ (B \union {i}))
  PROVE  v + Vault!Delta(log[i]) \in SomeSums(log, T)
<1> DEFINE A == E \ (B \union {i})
<1>1. IsFiniteSet(A) /\ i \notin A
  <2>1. A \in SUBSET Vault!PoolEvents(p) /\ IsFiniteSet(Vault!PoolEvents(p))
    BY DeltasInt
  <2>2. QED
    BY <2>1, FS_Subset
<1>2. \A x \in A \union {i} : Vault!Delta(log[x]) \in Int
  BY DeltasInt
<1>3. A \union {i} = T
  OBVIOUS
<1> HIDE DEF A
<1>4. v \in SomeSums(log, A)
  BY DEF A
<1>5. v + Vault!Delta(log[i]) \in SomeSums(log, A \union {i})
  BY ONLY <1>1, <1>2, <1>4, SomeSumsAdd
<1>6. QED
  BY <1>3, <1>5

\* A handler of the vault whose step reads.
LEMMA MoverReads ==
  ASSUME Shapes, NEW j \in Jobs, jobs[j].kind \in MoveKinds, NEW at, NEW found, Reads(j, at, found)
  PROVE  /\ Shapes' /\ RewardFrame /\ WeightFrame /\ db' = db /\ log' = log
         /\ JobMoves(j, [kind |-> jobs[j].kind, at |-> at, ev |-> jobs[j].ev, found |-> found])
<1>1. db' = db /\ log' = log /\ Goto(j, at, found)
  BY DEF Reads
<1>2. /\ JobShapes'
      /\ JobMoves(j, [kind |-> jobs[j].kind, at |-> at, ev |-> jobs[j].ev, found |-> found])
  BY <1>1, GotoForm DEF Shapes, MoveKinds
<1>3. JobsKept({"onRewardDistributed"}) /\ JobsKept({"onRebalanced"})
  BY <1>2 DEF JobsKept, JobMoves, MoveKinds
<1>4. Shapes' /\ LogKept
  BY <1>1, <1>2, LogStays
<1>5. QED
  BY <1>1, <1>2, <1>3, <1>4 DEF RewardFrame, WeightFrame

\* Either handler reads the balance: the sum it finds is one of other events.
LEMMA FindBalanceStep ==
  ASSUME Shapes, NEW ix, VaultInv(ix), NEW j \in Jobs, jobs[j].kind \in MoveKinds,
         jobs[j].at = "findBalance", NEW at, NEW found, Reads(j, at, found),
         \/ at = "findPool"
         \/ at = "saveBalance" /\ found = Vault!FindOne(db.balances, <<jobs[j].ev.pool, jobs[j].ev.user>>)
  PROVE  VaultInv(ix)'
<1> DEFINE u == jobs[j].ev.user
           p == jobs[j].ev.pool
<1>1. /\ db' = db /\ log' = log
      /\ JobMoves(j, [kind |-> jobs[j].kind, at |-> at, ev |-> jobs[j].ev, found |-> found])
  BY MoverReads
<1>2. /\ LogKept /\ Numbered(ix, MoveKinds)'
      /\ \A k \in Jobs : jobs'[k].kind \in MoveKinds => Vault!Moves(jobs'[k].ev)
      /\ jobs'[j].at = at /\ jobs'[j].found = found /\ jobs'[j].ev = jobs[j].ev
      /\ \A k \in Jobs \ {j} : jobs'[k] = jobs[k]
      /\ \A i \in Unread(ix)' : i \in Unread(ix)
      /\ \A i \in Uncounted(ix)' : i \in Uncounted(ix)
      /\ ix[j] \in Unread(ix)
  BY <1>1, MoverGoes DEF Unread, Uncounted
<1>3. at = "saveBalance" /\ found # <<>> => BalanceKnown(ix, j)'
  <2> SUFFICES ASSUME at = "saveBalance", found # <<>> PROVE BalanceKnown(ix, j)'
    OBVIOUS
  <2>1. <<p, u>> \in DOMAIN db.balances /\ found = <<db.balances[<<p, u>>]>>
    BY DEF Vault!FindOne
  <2>2. found[1].balance \in SomeSums(log, Vault!UserEvents(u, p) \ Unread(ix))
    <3>1. db.balances[<<p, u>>].balance
            \in SomeSums(log, Vault!UserEvents(<<p, u>>[2], <<p, u>>[1]) \ (Unread(ix) \union {}))
      BY <2>1 DEF VaultInv, UserSums
    <3>2. Unread(ix) \union {} = Unread(ix) /\ <<p, u>>[2] = u /\ <<p, u>>[1] = p
      OBVIOUS
    <3>3. QED
      BY <2>1, <3>1, <3>2
  <2>3. Vault!UserEvents(u, p)' = Vault!UserEvents(u, p)
    BY <1>1, <1>2 DEF Vault!UserEvents, Vault!PoolEvents
  <2>4. Vault!UserEvents(u, p) \ Unread(ix)
          \subseteq Vault!UserEvents(u, p)' \ (Unread(ix)' \union {ix[j]})
    BY <1>2, <2>3
  <2>5. found[1].balance \in SomeSums(log', Vault!UserEvents(u, p)' \ (Unread(ix)' \union {ix[j]}))
    BY <1>1, <2>2, <2>4, SomeSumsKept
  <2>6. QED
    BY <1>2, <2>5 DEF BalanceKnown, UserSums
<1>4. \A k \in Jobs : jobs'[k].kind \in MoveKinds /\ jobs'[k].at \in {"saveBalance", "savePool"} =>
        \/ jobs'[k] = jobs[k] /\ ix[k] = ix[k]
        \/ /\ jobs'[k].at = "saveBalance" /\ jobs'[k].found # <<>> => BalanceKnown(ix, k)'
           /\ jobs'[k].at = "savePool" => SupplyKnown(ix, k)'
  BY <1>2, <1>3
<1>5. QED
  BY <1>1, <1>2, <1>4, VaultKeeps

\* The row of the balance is written: one more event is in it.
LEMMA SaveBalanceStep ==
  ASSUME Shapes, NEW ix, VaultInv(ix), NEW j \in Jobs, jobs[j].kind \in MoveKinds,
         jobs[j].at = "saveBalance", Vault!SaveBalance(j, <<jobs[j].ev.pool, jobs[j].ev.user>>)
  PROVE  VaultInv(ix)' /\ Shapes' /\ RewardFrame /\ WeightFrame
<1> DEFINE u == jobs[j].ev.user
           p == jobs[j].ev.pool
           key == <<p, u>>
<1>1. CASE Vault!Ends(j)
  <2>1. Frame
    BY <1>1, VaultBase, PassiveEnds, PassiveFrame DEF Ends
  <2>2. QED
    BY <2>1, VaultFrameStep DEF Frame
<1>2. CASE /\ db' = [db EXCEPT !.balances = Vault!Put(@, key, [balance |-> Vault!Moved(j)])]
           /\ Vault!Goto(j, "findPool", <<>>)
           /\ log' = log
  <2>1. /\ JobShapes'
        /\ JobMoves(j, [kind |-> jobs[j].kind, at |-> "findPool", ev |-> jobs[j].ev, found |-> <<>>])
    BY <1>2, VaultBase, GotoForm DEF Shapes, MoveKinds
  <2>2. /\ LogKept /\ Numbered(ix, MoveKinds)'
        /\ \A k \in Jobs : jobs'[k].kind \in MoveKinds => Vault!Moves(jobs'[k].ev)
        /\ jobs'[j].at = "findPool" /\ jobs'[j].ev = jobs[j].ev
        /\ \A k \in Jobs \ {j} : jobs'[k] = jobs[k]
        /\ \A i \in Unread(ix)' : i \in Unread(ix)
        /\ \A i \in Uncounted(ix)' : i \in Uncounted(ix)
        /\ ix[j] \notin Unread(ix)'
    BY <1>2, <2>1, MoverGoes DEF Unread, Uncounted
  <2>3. /\ db' = [t \in TableNames |-> db'[t]]
        /\ db'.balances = Vault!Put(db.balances, key, [balance |-> Vault!Moved(j)])
        /\ db'.pools = db.pools /\ db'.rewards = db.rewards /\ db'.weights = db.weights
    <3>1. db = [t \in TableNames |-> db[t]]
      BY DEF Shapes, TableShapes
    <3>2. QED
      BY ONLY <1>2, <3>1 DEF TableNames
  <2>4. Shapes'
    <3>1. TableShapes'
      BY <2>3 DEF Shapes, TableShapes
    <3>2. LogShape'
      BY <1>2 DEF Shapes, LogShape, Sound
    <3>3. QED
      BY <2>1, <3>1, <3>2 DEF Shapes
  <2>5. RewardFrame /\ WeightFrame
    <3>1. JobsKept({"onRewardDistributed"}) /\ JobsKept({"onRebalanced"})
      BY <2>1 DEF JobsKept, JobMoves, MoveKinds
    <3>2. QED
      BY <2>2, <2>3, <3>1 DEF RewardFrame, WeightFrame
  <2>6. Vault!Moved(j) \in UserSums(ix, u, p, {})'
    <3>1. /\ ix[j] \in Vault!UserEvents(u, p) /\ log[ix[j]] = jobs[j].ev
          /\ Vault!UserEvents(u, p) \subseteq Vault!PoolEvents(p)
      BY OwnEvent, DeltasInt
    <3>2. Vault!UserEvents(u, p)' = Vault!UserEvents(u, p)
      BY <1>2, <2>2 DEF Vault!UserEvents, Vault!PoolEvents
    <3> DEFINE E == Vault!UserEvents(u, p)
               B == E \intersect Unread(ix)'
               found == jobs[j].found
               base == IF found = <<>> THEN 0 ELSE found[1].balance
    <3>3. base \in SomeSums(log, E \ (B \union {ix[j]}))
      <4>1. CASE found = <<>>
        BY <4>1, SomeSumsZero
      <4>2. CASE found # <<>>
        <5>1. base \in SomeSums(log, E \ (Unread(ix) \union {ix[j]}))
          BY <4>2 DEF VaultInv, BalanceKnown, UserSums
        <5>2. E \ (Unread(ix) \union {ix[j]}) \subseteq E \ (B \union {ix[j]})
          BY <2>2
        <5>3. QED
          BY ONLY <5>1, <5>2, SomeSumsKept
      <4>3. QED
        BY <4>1, <4>2
    <3>4. B \subseteq E \ {ix[j]} /\ E \ B = E \ (Unread(ix)' \union {})
      BY <2>2
    <3>5. Vault!Moved(j) = base + Vault!Delta(log[ix[j]])
      BY <3>1 DEF Vault!Moved
    <3> HIDE DEF E, B, base
    <3>6. base + Vault!Delta(log[ix[j]]) \in SomeSums(log, E \ B)
      BY <3>1, <3>3, <3>4, OneMoreEvent DEF E
    <3>7. QED
      BY <1>2, <3>2, <3>4, <3>5, <3>6 DEF E, UserSums
  <2>7. \A k \in DOMAIN db'.balances :
          \/ k \in DOMAIN db.balances /\ db'.balances[k].balance = db.balances[k].balance
          \/ db'.balances[k].balance \in UserSums(ix, k[2], k[1], {})'
    <3> SUFFICES ASSUME NEW k \in DOMAIN db'.balances
                 PROVE  \/ k \in DOMAIN db.balances /\ db'.balances[k].balance = db.balances[k].balance
                        \/ db'.balances[k].balance \in UserSums(ix, k[2], k[1], {})'
      OBVIOUS
    <3>1. /\ DOMAIN db'.balances = DOMAIN db.balances \union {key}
          /\ db'.balances[k] = IF k = key THEN [balance |-> Vault!Moved(j)] ELSE db.balances[k]
      BY <2>3 DEF Vault!Put
    <3>2. CASE k = key
      <4>1. k[1] = p /\ k[2] = u /\ db'.balances[k].balance = Vault!Moved(j)
        BY <3>1, <3>2
      <4>2. k[1] = p' /\ k[2] = u'
        BY <2>2, <4>1
      <4>3. QED
        BY <2>6, <4>1, <4>2 DEF UserSums
    <3>3. CASE k # key
      BY <3>1, <3>3
    <3>4. QED
      BY <3>2, <3>3
  <2>8. \A k \in Jobs : jobs'[k].kind \in MoveKinds /\ jobs'[k].at \in {"saveBalance", "savePool"} =>
          jobs'[k] = jobs[k]
    BY <2>2
  <2>9. VaultInv(ix)'
    BY <2>2, <2>3, <2>7, <2>8, VaultKeeps
  <2>10. QED
    BY <2>4, <2>5, <2>9
<1>3. QED
  BY <1>1, <1>2 DEF Vault!SaveBalance

\* Either handler finds the pool: the supply it reads is a sum of other events.
LEMMA FindPoolStep ==
  ASSUME Shapes, NEW ix, VaultInv(ix), NEW j \in Jobs, jobs[j].kind \in MoveKinds,
         jobs[j].at = "findPool", jobs[j].ev.pool \in DOMAIN db.pools,
         Reads(j, "savePool", <<db.pools[jobs[j].ev.pool]>>)
  PROVE  VaultInv(ix)'
<1> DEFINE p == jobs[j].ev.pool
           found == <<db.pools[p]>>
<1>1. /\ db' = db /\ log' = log
      /\ JobMoves(j, [kind |-> jobs[j].kind, at |-> "savePool", ev |-> jobs[j].ev, found |-> found])
  BY MoverReads
<1>2. /\ LogKept /\ Numbered(ix, MoveKinds)'
      /\ \A k \in Jobs : jobs'[k].kind \in MoveKinds => Vault!Moves(jobs'[k].ev)
      /\ jobs'[j].at = "savePool" /\ jobs'[j].found = found /\ jobs'[j].ev = jobs[j].ev
      /\ \A k \in Jobs \ {j} : jobs'[k] = jobs[k]
      /\ \A i \in Unread(ix)' : i \in Unread(ix)
      /\ \A i \in Uncounted(ix)' : i \in Uncounted(ix)
      /\ ix[j] \in Uncounted(ix)
  <2> HIDE DEF found
  <2>1. QED
    BY <1>1, MoverGoes DEF Unread, Uncounted
<1>3. SupplyKnown(ix, j)'
  <2>1. db.pools[p].supply \in SomeSums(log, Vault!PoolEvents(p) \ (Uncounted(ix) \union {}))
    BY DEF VaultInv, PoolSums
  <2>2. Vault!PoolEvents(p)' = Vault!PoolEvents(p)
    BY <1>1, <1>2 DEF Vault!PoolEvents
  <2>3. Vault!PoolEvents(p) \ (Uncounted(ix) \union {})
          \subseteq Vault!PoolEvents(p)' \ (Uncounted(ix)' \union {ix[j]})
    BY <1>2, <2>2
  <2>4. db.pools[p].supply \in SomeSums(log', Vault!PoolEvents(p)' \ (Uncounted(ix)' \union {ix[j]}))
    BY <1>1, <2>1, <2>3, SomeSumsKept
  <2>5. jobs'[j].found[1].supply = db.pools[p].supply
    BY <1>2
  <2>6. QED
    BY <1>2, <2>4, <2>5 DEF SupplyKnown, PoolSums
<1>4. \A k \in Jobs : jobs'[k].kind \in MoveKinds /\ jobs'[k].at \in {"saveBalance", "savePool"} =>
        \/ jobs'[k] = jobs[k] /\ ix[k] = ix[k]
        \/ /\ jobs'[k].at = "saveBalance" /\ jobs'[k].found # <<>> => BalanceKnown(ix, k)'
           /\ jobs'[k].at = "savePool" => SupplyKnown(ix, k)'
  BY <1>2, <1>3
<1>5. QED
  BY <1>1, <1>2, <1>4, VaultKeeps

\* The supply is written, and the handler is done.
LEMMA SavePoolStep ==
  ASSUME Shapes, NEW ix, VaultInv(ix), NEW j \in Jobs, jobs[j].kind \in MoveKinds,
         jobs[j].at = "savePool",
         Writes(j, "pools", [db.pools EXCEPT ![jobs[j].ev.pool].supply =
                               jobs[j].found[1].supply + Vault!Delta(jobs[j].ev)])
  PROVE  VaultInv(ix)' /\ Shapes' /\ RewardFrame /\ WeightFrame
<1>0. PICK p, v : p = jobs[j].ev.pool /\ v = jobs[j].found[1].supply + Vault!Delta(jobs[j].ev)
  OBVIOUS
<1> DEFINE table == [db.pools EXCEPT ![p].supply = v]
<1>1. /\ PoolTable(table) /\ DOMAIN table = DOMAIN db.pools
      /\ p \in DOMAIN db.pools => table[p].supply = v
      /\ \A q \in DOMAIN db.pools \ {p} : table[q] = db.pools[q]
  <2>1. CASE p \in DOMAIN db.pools
    BY <2>1, SupplySet
  <2>2. CASE p \notin DOMAIN db.pools
    <3>1. db.pools = [q \in DOMAIN db.pools |-> db.pools[q]]
      BY DEF Shapes, TableShapes
    <3>2. table = db.pools
      BY ONLY <2>2, <3>1
    <3> HIDE DEF table
    <3>3. QED
      BY <2>2, <3>2 DEF PoolTable, Shapes, TableShapes
  <2>3. QED
    BY <2>1, <2>2
<1>2. Writes(j, "pools", table)
  BY <1>0
<1> HIDE DEF table
<1>3. /\ Shapes' /\ LogKept /\ RewardFrame /\ WeightFrame
      /\ JobsKept(MoveKinds) /\ db'.balances = db.balances /\ db'.pools = table
  BY <1>1, <1>2, PoolWrites
<1>4. log' = log /\ JobMoves(j, Idle)
  BY <1>2, FinishForm DEF Writes, Shapes
<1>5. \A k \in Jobs : jobs'[k].kind \in MoveKinds => jobs'[k] = jobs[k] /\ k # j
  BY <1>4 DEF JobMoves, Idle, MoveKinds
<1>6. Numbered(ix, MoveKinds)'
  BY <1>3, <1>5 DEF VaultInv, LogKept, Numbered
<1>7. \A k \in Jobs : jobs'[k].kind \in MoveKinds => Vault!Moves(jobs'[k].ev)
  BY <1>5 DEF VaultInv
<1>8. /\ \A ats : Pending(ix, ats)' \subseteq Pending(ix, ats)
      /\ \A ats : ix[j] \notin Pending(ix, ats)'
  BY <1>5 DEF Pending, VaultInv, Numbered
<1>9. v \in SomeSums(log', Vault!PoolEvents(p) \ Uncounted(ix)')
  <2>1. ix[j] \in Vault!PoolEvents(p) /\ log[ix[j]] = jobs[j].ev
    BY <1>0, OwnEvent
  <2> DEFINE E == Vault!PoolEvents(p)
             B == E \intersect Uncounted(ix)'
             base == jobs[j].found[1].supply
  <2>2. base \in SomeSums(log, E \ (Uncounted(ix) \union {ix[j]}))
    BY <1>0 DEF VaultInv, SupplyKnown, PoolSums
  <2>3. E \ (Uncounted(ix) \union {ix[j]}) \subseteq E \ (B \union {ix[j]})
    BY <1>8 DEF Uncounted
  <2>4. base \in SomeSums(log, E \ (B \union {ix[j]}))
    <3> HIDE DEF E, B, base
    <3>1. QED
      BY ONLY <2>2, <2>3, SomeSumsKept
  <2>5. B \subseteq E \ {ix[j]} /\ E \ B = E \ Uncounted(ix)'
    BY <1>8 DEF Uncounted
  <2>6. v = base + Vault!Delta(log[ix[j]])
    BY <1>0, <2>1
  <2> HIDE DEF E, B, base
  <2>7. base + Vault!Delta(log[ix[j]]) \in SomeSums(log, E \ B)
    BY <2>1, <2>4, <2>5, OneMoreEvent DEF E
  <2>8. QED
    BY <1>4, <2>5, <2>6, <2>7 DEF E
<1>10. p \in DOMAIN db'.pools => db'.pools[p].supply \in PoolSums(ix, p, {})'
  <2>1. Vault!PoolEvents(p)' = Vault!PoolEvents(p)
    BY <1>4 DEF Vault!PoolEvents
  <2>2. Uncounted(ix)' \union {} = Uncounted(ix)'
    OBVIOUS
  <2>3. QED
    BY <1>1, <1>3, <1>9, <2>1, <2>2 DEF PoolSums
<1>11. \A q \in DOMAIN db'.pools :
         \/ q \in DOMAIN db.pools /\ db'.pools[q].supply = db.pools[q].supply
         \/ db'.pools[q].supply \in PoolSums(ix, q, {})'
  BY <1>1, <1>3, <1>10
<1>12. VaultInv(ix)'
  BY <1>3, <1>5, <1>6, <1>7, <1>8, <1>11, VaultKeeps DEF Unread, Uncounted
<1>13. QED
  BY <1>3, <1>12

\* Every step of the two handlers keeps the vault's invariant and leaves the rest.
LEMMA MoverStep ==
  ASSUME Shapes, NEW ix, VaultInv(ix), NEW j \in Jobs, Vault!onDeposit(j) \/ Vault!onWithdrawal(j)
  PROVE  VaultInv(ix)' /\ Shapes' /\ RewardFrame /\ WeightFrame
<1> DEFINE key == <<jobs[j].ev.pool, jobs[j].ev.user>>
           row == Vault!FindOne(db.balances, key)
<1>1. jobs[j].kind \in MoveKinds
  BY DEF Vault!onDeposit, Vault!onWithdrawal, MoveKinds
<1>2. \/ /\ jobs[j].at = "findBalance"
         /\ Vault!Reads(j, "saveBalance", row) \/ Vault!Reads(j, "findPool", row)
      \/ jobs[j].at = "saveBalance" /\ Vault!SaveBalance(j, key)
      \/ Vault!MoveSupply(j)
  <2>1. CASE Vault!onDeposit(j)
    BY <2>1 DEF Vault!onDeposit
  <2>2. CASE Vault!onWithdrawal(j)
    <3> HIDE DEF row
    <3>1. \/ jobs[j].at = "findBalance"
             /\ Vault!Reads(j, IF row = <<>> THEN "findPool" ELSE "saveBalance", row)
          \/ jobs[j].at = "saveBalance" /\ Vault!SaveBalance(j, key)
          \/ Vault!MoveSupply(j)
      BY <2>2 DEF Vault!onWithdrawal, row
    <3>2. CASE row = <<>>
      BY <3>1, <3>2
    <3>3. CASE row # <<>>
      BY <3>1, <3>3
    <3>4. QED
      BY <3>2, <3>3
  <2>3. QED
    BY <2>1, <2>2
<1>3. CASE /\ jobs[j].at = "findBalance"
           /\ Vault!Reads(j, "saveBalance", row) \/ Vault!Reads(j, "findPool", row)
  BY <1>1, <1>3, VaultBase, FindBalanceStep, MoverReads
<1>4. CASE jobs[j].at = "saveBalance" /\ Vault!SaveBalance(j, key)
  BY <1>1, <1>4, SaveBalanceStep
<1>5. CASE Vault!MoveSupply(j)
  <2> DEFINE p == jobs[j].ev.pool
  <2>1. CASE Vault!Ends(j)
    <3>1. Frame
      BY <2>1, VaultBase, PassiveEnds, PassiveFrame DEF Ends
    <3>2. QED
      BY <3>1, VaultFrameStep DEF Frame
  <2>2. CASE /\ jobs[j].at = "findPool" /\ p \in DOMAIN db.pools
             /\ Vault!Reads(j, "savePool", Vault!getPool(p))
    <3>1. Vault!getPool(p) = <<db.pools[p]>>
      BY <2>2 DEF Vault!getPool, Vault!FindOne
    <3>2. Reads(j, "savePool", <<db.pools[p]>>)
      BY <2>2, <3>1, VaultBase
    <3>3. QED
      BY <1>1, <2>2, <3>2, FindPoolStep, MoverReads
  <2>3. CASE /\ jobs[j].at = "savePool"
             /\ Vault!Writes(j, "pools", [db.pools EXCEPT ![p].supply =
                                            jobs[j].found[1].supply + Vault!Delta(jobs[j].ev)])
    BY <1>1, <2>3, VaultBase, SavePoolStep
  <2>4. QED
    BY <1>5, <2>1, <2>2, <2>3 DEF Vault!MoveSupply, Vault!HasPool
<1>6. QED
  BY <1>2, <1>3, <1>4, <1>5

-----------------------------------------------------------------------------
\* What Numbered says of the state after the step.
NumberedAfter(ix, kinds) ==
  /\ \A j \in Jobs :
       jobs'[j].kind \in kinds => ix[j] \in DOMAIN log' /\ log'[ix[j]] = jobs'[j].ev
  /\ \A j, k \in Jobs :
       jobs'[j].kind \in kinds /\ jobs'[k].kind \in kinds /\ ix[j] = ix[k] => j = k

\* A number for each handler: of a new one the position of the new event, of another the
\* one it has.
StartNumbered(ix, kind, at, e) ==
  \E iy \in [Jobs -> Nat], n \in Nat :
    /\ NumberedAfter(iy, {kind})
    /\ n \notin DOMAIN log /\ n \in DOMAIN log' /\ log'[n] = e
    /\ \A k \in Jobs : jobs'[k].kind = kind =>
         \/ jobs'[k] = jobs[k] /\ iy[k] = ix[k] /\ iy[k] \in DOMAIN log
         \/ jobs'[k] = Job(kind, at, e) /\ iy[k] = n

\* A handler that starts is given the position of its event.
LEMMA NumberedEmits ==
  ASSUME Shapes, NEW ix \in [Jobs -> Nat], NEW kind, Numbered(ix, {kind}), kind \notin Endpoints,
         NEW e, NEW at, NEW f, Emits(e, kind, at, f), Sound(e)
  PROVE  StartNumbered(ix, kind, at, e)
<1>1. /\ LogKept /\ log' = Append(log, e)
      /\ \/ jobs' = jobs
         \/ \E j \in Jobs : ~Running(j) /\ JobMoves(j, Job(kind, at, e))
  BY EmitsForm
<1>2. /\ Len(log) + 1 \in Nat /\ Len(log) + 1 \notin DOMAIN log
      /\ Len(log) + 1 \in DOMAIN log' /\ log'[Len(log) + 1] = e
  BY <1>1, LogAppended DEF Shapes
<1>3. PICK n \in Nat : n = Len(log) + 1
  BY <1>2
<1>4. CASE jobs' = jobs
  <2>1. \A k \in Jobs : jobs'[k].kind = kind =>
          /\ jobs'[k] = jobs[k] /\ ix[k] \in DOMAIN log
          /\ ix[k] \in DOMAIN log' /\ log'[ix[k]] = jobs'[k].ev
    BY <1>1, <1>4 DEF Numbered, LogKept
  <2>2. NumberedAfter(ix, {kind})
    BY <1>4, <2>1 DEF Numbered, NumberedAfter
  <2>3. QED
    BY <1>2, <1>3, <2>1, <2>2 DEF StartNumbered
<1>5. CASE \E j \in Jobs : ~Running(j) /\ JobMoves(j, Job(kind, at, e))
  <2>1. PICK j \in Jobs : ~Running(j) /\ JobMoves(j, Job(kind, at, e))
    BY <1>5
  <2>2. PICK iy \in [Jobs -> Nat] : iy[j] = n /\ \A k \in Jobs \ {j} : iy[k] = ix[k]
    <3>1. [ix EXCEPT ![j] = n] \in [Jobs -> Nat]
      OBVIOUS
    <3>2. QED
      BY <3>1
  <2>3. /\ jobs'[j] = Job(kind, at, e) /\ jobs'[j].ev = e
        /\ \A k \in Jobs \ {j} : jobs'[k] = jobs[k]
    BY <2>1 DEF JobMoves, Job
  <2>4. n \notin DOMAIN log /\ n \in DOMAIN log' /\ log'[n] = e
    BY <1>2, <1>3
  <2>5. ASSUME NEW k \in Jobs, jobs'[k].kind = kind
        PROVE  /\ iy[k] \in DOMAIN log' /\ log'[iy[k]] = jobs'[k].ev
               /\ k # j => jobs'[k] = jobs[k] /\ iy[k] = ix[k] /\ iy[k] \in DOMAIN log
    <3>1. CASE k = j
      BY <2>2, <2>3, <2>4, <3>1
    <3>2. CASE k # j
      BY <1>1, <2>2, <2>3, <2>5, <3>2 DEF Numbered, LogKept
    <3>3. QED
      BY <3>1, <3>2
  <2>6. ASSUME NEW k \in Jobs, NEW m \in Jobs, jobs'[k].kind = kind, jobs'[m].kind = kind,
               iy[k] = iy[m]
        PROVE  k = m
    <3>1. CASE k = j \/ m = j
      BY <2>2, <2>4, <2>5, <2>6, <3>1
    <3>2. CASE k # j /\ m # j
      BY <2>2, <2>3, <2>6, <3>2 DEF Numbered
    <3>3. QED
      BY <3>1, <3>2
  <2>7. NumberedAfter(iy, {kind})
    BY <2>5, <2>6 DEF NumberedAfter
  <2>8. QED
    BY <2>2, <2>3, <2>4, <2>5, <2>7 DEF StartNumbered
<1>6. QED
  BY <1>1, <1>4, <1>5

\* What the rows, or the events of a log, at some positions amount to.
AmountSum(rows, I) == SumFunction([i \in I |-> rows[i].amount])

\* The rows of rewards add up to some of the rewards the contract distributed, none of
\* them one whose handler is still on its way.
Distributing(ix) == {ix[j] : j \in {k \in Jobs : jobs[k].kind = "onRewardDistributed"}}

RewardInv(ix) ==
  /\ Numbered(ix, {"onRewardDistributed"})
  /\ \A j \in Jobs : jobs[j].kind = "onRewardDistributed" => jobs[j].ev.name = "RewardDistributed"
  /\ \E some \in SUBSET (Reward!Named("RewardDistributed") \ Distributing(ix)) :
       AmountSum(log, some) = AmountSum(db.rewards, DOMAIN db.rewards)

\* A step keeps that if the rows' amounts stay and no event is again on its way.
LEMMA RewardKeeps ==
  ASSUME NEW ix, NEW iy, RewardInv(ix), LogKept, Numbered(iy, {"onRewardDistributed"})',
         \A j \in Jobs : jobs'[j].kind = "onRewardDistributed" =>
           jobs'[j].ev.name = "RewardDistributed",
         \A i \in DOMAIN log : i \in Distributing(iy)' => i \in Distributing(ix),
         DOMAIN db'.rewards = DOMAIN db.rewards,
         \A i \in DOMAIN db.rewards : db'.rewards[i].amount = db.rewards[i].amount
  PROVE  RewardInv(iy)'
<1>1. PICK some \in SUBSET (Reward!Named("RewardDistributed") \ Distributing(ix)) :
        AmountSum(log, some) = AmountSum(db.rewards, DOMAIN db.rewards)
  BY DEF RewardInv
<1>2. some \in SUBSET (Reward!Named("RewardDistributed")' \ Distributing(iy)')
  BY DEF Reward!Named, LogKept
<1>3. [i \in some |-> log'[i].amount] = [i \in some |-> log[i].amount]
  BY DEF Reward!Named, LogKept
<1>4. [i \in DOMAIN db'.rewards |-> db'.rewards[i].amount]
        = [i \in DOMAIN db.rewards |-> db.rewards[i].amount]
  OBVIOUS
<1>5. AmountSum(log', some) = AmountSum(db'.rewards, DOMAIN db'.rewards)
  BY <1>1, <1>3, <1>4, Zenon DEF AmountSum
<1>6. \E s \in SUBSET (Reward!Named("RewardDistributed") \ Distributing(iy))' :
        AmountSum(log', s) = AmountSum(db'.rewards, DOMAIN db'.rewards)
  BY <1>2, <1>5
<1>7. QED
  BY <1>6 DEF RewardInv

\* A step that distributes and stores no reward.
LEMMA RewardFrameStep ==
  ASSUME NEW ix, RewardInv(ix), RewardFrame
  PROVE  RewardInv(ix)'
<1>1. \A j \in Jobs : jobs'[j].kind = "onRewardDistributed" => jobs'[j] = jobs[j]
  BY DEF RewardFrame, JobsKept
<1>2. Numbered(ix, {"onRewardDistributed"})'
  BY <1>1 DEF RewardInv, RewardFrame, LogKept, Numbered
<1>3. Distributing(ix)' \subseteq Distributing(ix)
  BY <1>1 DEF Distributing
<1>4. QED
  BY <1>1, <1>2, <1>3, RewardKeeps DEF RewardFrame, RewardInv

\* A reward is distributed.
LEMMA DistributeStep ==
  ASSUME Shapes, NEW ix \in [Jobs -> Nat], RewardInv(ix), NEW u, NEW a \in Amounts,
         Reward!distributeEndpoint(u, a)
  PROVE  /\ \E iy \in [Jobs -> Nat] : RewardInv(iy)'
         /\ Shapes' /\ VaultFrame /\ WeightFrame
<1> DEFINE e == Reward!RewardEvent("RewardDistributed", u, a)
<1>1. Emits(e, "onRewardDistributed", "save", TRUE)
  BY RewardBase DEF Reward!distributeEndpoint, Reward!distributeReward
<1>2. e.name = "RewardDistributed" /\ Sound(e)
  BY MirrorAssumption DEF Reward!RewardEvent, Sound
<1> HIDE DEF e
<1>3. "onRewardDistributed" \notin Endpoints
  BY DEF Endpoints
<1>4. /\ Shapes' /\ LogKept /\ db' = db
      /\ \/ jobs' = jobs
         \/ \E j \in Jobs : ~Running(j) /\ JobMoves(j, Job("onRewardDistributed", "save", e))
  BY <1>1, <1>2, <1>3, EmitsForm
<1>5. JobsKept(MoveKinds) /\ JobsKept({"onRebalanced"})
  BY <1>4 DEF JobsKept, JobMoves, Job, MoveKinds
<1>6. VaultFrame /\ WeightFrame
  BY <1>4, <1>5 DEF VaultFrame, WeightFrame
<1>7. PICK iy \in [Jobs -> Nat], n \in Nat :
        /\ NumberedAfter(iy, {"onRewardDistributed"})
        /\ n \notin DOMAIN log /\ n \in DOMAIN log' /\ log'[n] = e
        /\ \A k \in Jobs : jobs'[k].kind = "onRewardDistributed" =>
             \/ jobs'[k] = jobs[k] /\ iy[k] = ix[k] /\ iy[k] \in DOMAIN log
             \/ jobs'[k] = Job("onRewardDistributed", "save", e) /\ iy[k] = n
  <2>1. Numbered(ix, {"onRewardDistributed"})
    BY DEF RewardInv
  <2>2. StartNumbered(ix, "onRewardDistributed", "save", e)
    BY <1>1, <1>2, <1>3, <2>1, NumberedEmits
  <2>3. QED
    BY <2>2 DEF StartNumbered
<1>8. \A j \in Jobs : jobs'[j].kind = "onRewardDistributed" =>
        jobs'[j].ev.name = "RewardDistributed"
  BY <1>2, <1>7 DEF RewardInv, Job
<1>9. \A i \in DOMAIN log : i \in Distributing(iy)' => i \in Distributing(ix)
  BY <1>7 DEF Distributing
<1>10. Numbered(iy, {"onRewardDistributed"})'
  BY <1>7 DEF Numbered, NumberedAfter
<1>11. RewardInv(iy)'
  BY <1>4, <1>8, <1>9, <1>10, RewardKeeps
<1>12. QED
  BY <1>4, <1>6, <1>11

\* The handler stores the reward: its event is now one of those in the rows.
LEMMA DistributedStep ==
  ASSUME Shapes, NEW ix, RewardInv(ix), NEW j \in Jobs, Reward!onRewardDistributed(j)
  PROVE  RewardInv(ix)' /\ Shapes' /\ VaultFrame /\ WeightFrame
<1> DEFINE row == [user |-> jobs[j].ev.user, amount |-> jobs[j].ev.amount, claimed |-> FALSE]
           table == Append(db.rewards, row)
           n == Len(db.rewards) + 1
<1>1. jobs[j].kind = "onRewardDistributed" /\ Writes(j, "rewards", table)
  BY RewardBase DEF Reward!onRewardDistributed, At
<1>2. "rewards" \in TableNames
  BY DEF TableNames
<1> HIDE DEF table
<1>3. /\ JobShapes' /\ LogShape' /\ LogKept
      /\ JobsKept(MoveKinds) /\ JobsKept({"onRewardDistributed"}) /\ JobsKept({"onRebalanced"})
      /\ db' = [s \in TableNames |-> IF s = "rewards" THEN table ELSE db[s]]
  BY <1>1, <1>2, WritesForm
<1>4. /\ db' = [s \in TableNames |-> db'[s]]
      /\ db'.rewards = table /\ db'.pools = db.pools /\ db'.balances = db.balances
      /\ db'.weights = db.weights
  BY <1>3 DEF TableNames
<1> USE DEF table
<1>5. /\ ix[j] \in DOMAIN log /\ log[ix[j]] = jobs[j].ev /\ jobs[j].ev.name = "RewardDistributed"
      /\ jobs[j].ev.amount \in Nat
  <2>1. ix[j] \in DOMAIN log /\ log[ix[j]] = jobs[j].ev /\ jobs[j].ev.name = "RewardDistributed"
    BY <1>1 DEF RewardInv, Numbered
  <2>2. QED
    BY <2>1 DEF Shapes, LogShape, Sound
<1>6. row = [user |-> row.user, amount |-> row.amount, claimed |-> row.claimed]
      /\ row.amount = jobs[j].ev.amount
  OBVIOUS
<1>7. PICK S : db.rewards \in Seq(S)
  BY DEF Shapes, TableShapes
<1> HIDE DEF row
<1>8. /\ \E U : table \in Seq(U)
      /\ DOMAIN db.rewards = 1..Len(db.rewards) /\ Len(db.rewards) \in Nat
      /\ n \notin DOMAIN db.rewards /\ DOMAIN table = DOMAIN db.rewards \union {n}
      /\ table[n] = row /\ \A i \in DOMAIN db.rewards : table[i] = db.rewards[i]
  <2>1. db.rewards \in Seq(S \union {row})
    <3>1. S \subseteq S \union {row}
      OBVIOUS
    <3>2. QED
      BY <1>7, <3>1
  <2>2. table \in Seq(S \union {row})
    BY <2>1
  <2>3. QED
    BY <2>1, <2>2
<1> HIDE DEF table, n
<1>9. \A i \in DOMAIN table :
        /\ table[i] = [user |-> table[i].user, amount |-> table[i].amount,
                       claimed |-> table[i].claimed]
        /\ table[i].amount \in Nat
  BY <1>5, <1>6, <1>8 DEF Shapes, TableShapes
<1>10. Shapes'
  <2>1. TableShapes'
    BY <1>4, <1>8, <1>9 DEF Shapes, TableShapes
  <2>2. QED
    BY <1>3, <2>1 DEF Shapes
<1>11. VaultFrame /\ WeightFrame
  BY <1>3, <1>4 DEF VaultFrame, WeightFrame
<1>12. PICK some \in SUBSET (Reward!Named("RewardDistributed") \ Distributing(ix)) :
         AmountSum(log, some) = AmountSum(db.rewards, DOMAIN db.rewards)
  BY DEF RewardInv
<1>13. PICK i \in DOMAIN log : i = ix[j]
  BY <1>5
<1>14. log' = log /\ \A k \in Jobs : jobs'[k].kind = "onRewardDistributed" => k # j /\ jobs'[k] = jobs[k]
  <2>1. log' = log /\ Finish(j)
    BY <1>1 DEF Writes
  <2>2. JobMoves(j, Idle)
    BY <2>1, FinishForm DEF Shapes
  <2>3. QED
    BY <2>1, <2>2 DEF JobMoves, Idle
<1>15. i \in Distributing(ix) /\ i \notin Distributing(ix)' /\ Distributing(ix)' \subseteq Distributing(ix)
  BY <1>1, <1>13, <1>14 DEF Distributing, RewardInv, Numbered
<1>16. some \union {i} \in SUBSET (Reward!Named("RewardDistributed") \ Distributing(ix))'
  BY <1>5, <1>12, <1>13, <1>14, <1>15 DEF Reward!Named
<1> DEFINE f == [x \in some |-> log[x].amount]
           g == [x \in some \union {i} |-> log[x].amount]
           r == [x \in DOMAIN db.rewards |-> db.rewards[x].amount]
           s == [x \in DOMAIN table |-> table[x].amount]
<1>17. IsFiniteSet(some) /\ i \notin some /\ some \subseteq Reward!Named("RewardDistributed")
  <2>1. IsFiniteSet(DOMAIN log)
    BY FS_Interval DEF Shapes, LogShape
  <2>2. some \subseteq DOMAIN log
    BY DEF Reward!Named
  <2>3. QED
    BY <1>15, <2>1, <2>2, FS_Subset
<1>18. SumFunction(g) = SumFunction(f) + jobs[j].ev.amount
  <2>1. \A x \in some : f[x] \in Nat /\ f[x] = g[x]
    BY <1>17 DEF Reward!Named, Shapes, LogShape, Sound
  <2>2. g[i] = jobs[j].ev.amount /\ DOMAIN f = some /\ DOMAIN g = some \union {i}
    BY <1>5, <1>13
  <2> HIDE DEF f, g
  <2>3. SumFunctionOnSet(g, some \union {i}) = SumFunctionOnSet(f, some) + g[i]
    BY <1>5, <1>17, <2>1, <2>2, SumAdd
  <2>4. QED
    BY <2>2, <2>3 DEF SumFunction
<1>19. SumFunction(s) = SumFunction(r) + jobs[j].ev.amount
  <2>1. \A x \in DOMAIN db.rewards : r[x] \in Nat /\ r[x] = s[x]
    BY <1>8 DEF Shapes, TableShapes
  <2>2. s[n] = jobs[j].ev.amount /\ DOMAIN r = DOMAIN db.rewards
        /\ DOMAIN s = DOMAIN db.rewards \union {n}
    BY <1>6, <1>8
  <2>3. IsFiniteSet(DOMAIN db.rewards)
    BY <1>8, FS_Interval
  <2> HIDE DEF r, s
  <2>4. n \notin DOMAIN db.rewards /\ s[n] \in Int /\ \A x \in DOMAIN db.rewards : r[x] \in Int /\ r[x] = s[x]
    BY <1>5, <1>8, <2>1, <2>2
  <2>5. SumFunctionOnSet(s, DOMAIN db.rewards \union {n}) = SumFunctionOnSet(r, DOMAIN db.rewards) + s[n]
    BY ONLY <2>3, <2>4, SumAdd
  <2>6. QED
    BY <2>2, <2>5 DEF SumFunction
<1>20. SumFunction(f) = SumFunction(r)
  BY <1>12 DEF AmountSum
<1>21. SumFunction([x \in some \union {i} |-> log'[x].amount])
         = SumFunction([x \in DOMAIN db'.rewards |-> db'.rewards[x].amount])
  <2>1. SumFunction(g) = SumFunction(s)
    BY <1>18, <1>19, <1>20
  <2>2. [x \in some \union {i} |-> log'[x].amount] = g
        /\ [x \in DOMAIN db'.rewards |-> db'.rewards[x].amount] = s
    BY <1>4, <1>14
  <2> HIDE DEF g, s
  <2>3. QED
    BY <2>1, <2>2
<1>22. \E t \in SUBSET (Reward!Named("RewardDistributed") \ Distributing(ix))' :
         AmountSum(log', t) = AmountSum(db'.rewards, DOMAIN db'.rewards)
  <2>1. AmountSum(log', some \union {i}) = AmountSum(db'.rewards, DOMAIN db'.rewards)
    BY <1>21 DEF AmountSum
  <2>2. QED
    BY <1>16, <2>1
<1>23. Numbered(ix, {"onRewardDistributed"})'
  BY <1>3, <1>14 DEF RewardInv, LogKept, Numbered
<1>24. \A k \in Jobs : jobs'[k].kind = "onRewardDistributed" => jobs'[k].ev.name = "RewardDistributed"
  BY <1>14 DEF RewardInv
<1>25. QED
  BY <1>10, <1>11, <1>22, <1>23, <1>24 DEF RewardInv

-----------------------------------------------------------------------------
\* The rows of weights of a pool are as many as the rebalances that got to the pool: one
\* whose handler is on its way got as far as the handler has found. A rebalance that got
\* to a pool got to the pool before it.
Weighed(found) == \E S : found \in Seq(S)
WeightFrom(row) == \E i \in Yield!Rebalances : log[i].weights[row.pool + 1] = row.weight

WeightInv(ix) ==
  /\ Numbered(ix, {"onRebalanced"})
  /\ \A j \in Jobs : jobs[j].kind = "onRebalanced" =>
       jobs[j].ev.name = "Rebalanced" /\ Weighed(jobs[j].found)
  /\ \A i \in DOMAIN db.weights : WeightFrom(db.weights[i])
  /\ \E got \in [Nat -> SUBSET Yield!Rebalances] :
       /\ \A p \in Nat : Cardinality(got[p]) = Cardinality(Yield!RowsOf(p)) /\ got[p+1] \subseteq got[p]
       /\ \A j \in Jobs, p \in Nat : jobs[j].kind = "onRebalanced" =>
            (ix[j] \in got[p] <=> p < Len(jobs[j].found))

\* A step keeps that if the rows stay and only new handlers, that have found nothing, have
\* new numbers.
LEMMA WeightKeeps ==
  ASSUME NEW ix, NEW iy, WeightInv(ix), LogKept, Numbered(iy, {"onRebalanced"})',
         db'.weights = db.weights,
         \A j \in Jobs : jobs'[j].kind = "onRebalanced" =>
           \/ jobs'[j] = jobs[j] /\ iy[j] = ix[j]
           \/ /\ jobs'[j].ev.name = "Rebalanced" /\ jobs'[j].found = <<>>
              /\ iy[j] \notin DOMAIN log
  PROVE  WeightInv(iy)'
<1>1. Yield!Rebalances \subseteq Yield!Rebalances' /\ Yield!Rebalances \subseteq DOMAIN log
  BY DEF Yield!Rebalances, LogKept
<1>2. PICK got \in [Nat -> SUBSET Yield!Rebalances] :
        /\ \A p \in Nat : Cardinality(got[p]) = Cardinality(Yield!RowsOf(p)) /\ got[p+1] \subseteq got[p]
        /\ \A j \in Jobs, p \in Nat : jobs[j].kind = "onRebalanced" =>
             (ix[j] \in got[p] <=> p < Len(jobs[j].found))
  BY DEF WeightInv
<1>3. got \in [Nat -> SUBSET Yield!Rebalances']
  BY <1>1
<1>4. \A p : Yield!RowsOf(p)' = Yield!RowsOf(p)
  BY DEF Yield!RowsOf
<1>5. \A j \in Jobs : jobs'[j].kind = "onRebalanced" =>
        jobs'[j].ev.name = "Rebalanced" /\ Weighed(jobs'[j].found)
  <2>1. Weighed(<<>>)
    BY DEF Weighed
  <2>2. QED
    BY <2>1 DEF WeightInv
<1>6. ASSUME NEW j \in Jobs, NEW p \in Nat, jobs'[j].kind = "onRebalanced"
      PROVE  iy[j] \in got[p] <=> p < Len(jobs'[j].found)
  <2>1. CASE jobs'[j] = jobs[j] /\ iy[j] = ix[j]
    BY <1>2, <1>6, <2>1
  <2>2. CASE jobs'[j].found = <<>> /\ iy[j] \notin DOMAIN log
    <3>1. iy[j] \notin got[p]
      BY <1>1, <2>2
    <3>2. Len(jobs'[j].found) = 0
      BY <2>2
    <3>3. QED
      BY <3>1, <3>2
  <2>3. QED
    BY <1>6, <2>1, <2>2
<1>7. ASSUME NEW i \in DOMAIN db'.weights
      PROVE  WeightFrom(db.weights[i])'
  <2>1. PICK k \in Yield!Rebalances : log[k].weights[db.weights[i].pool + 1] = db.weights[i].weight
    BY DEF WeightInv, WeightFrom
  <2>2. log'[k].weights[db'.weights[i].pool + 1] = db'.weights[i].weight
    BY <1>1, <2>1 DEF LogKept
  <2>3. QED
    BY <1>1, <2>1, <2>2 DEF WeightFrom
<1>8. \A p \in Nat : Cardinality(got[p]) = Cardinality(Yield!RowsOf(p)') /\ got[p+1] \subseteq got[p]
  BY <1>2, <1>4
<1>9. \E g \in [Nat -> SUBSET Yield!Rebalances'] :
        /\ \A p \in Nat : Cardinality(g[p]) = Cardinality(Yield!RowsOf(p)') /\ g[p+1] \subseteq g[p]
        /\ \A j \in Jobs, p \in Nat : jobs'[j].kind = "onRebalanced" =>
             (iy[j] \in g[p] <=> p < Len(jobs'[j].found))
  BY <1>3, <1>6, <1>8
<1>10. QED
  BY <1>5, <1>7, <1>9 DEF WeightInv, Weighed

\* A step of no rebalance.
LEMMA WeightFrameStep ==
  ASSUME NEW ix, WeightInv(ix), WeightFrame
  PROVE  WeightInv(ix)'
<1>1. \A j \in Jobs : jobs'[j].kind = "onRebalanced" => jobs'[j] = jobs[j]
  BY DEF WeightFrame, JobsKept
<1>2. Numbered(ix, {"onRebalanced"})'
  BY <1>1 DEF WeightInv, WeightFrame, LogKept, Numbered
<1>3. QED
  BY <1>1, <1>2, WeightKeeps DEF WeightFrame

\* A rebalance is requested.
LEMMA RebalanceStep ==
  ASSUME Shapes, NEW ix \in [Jobs -> Nat], WeightInv(ix), NEW weights,
         Yield!rebalanceEndpoint(weights)
  PROVE  /\ \E iy \in [Jobs -> Nat] : WeightInv(iy)'
         /\ Shapes' /\ VaultFrame /\ RewardFrame
<1> DEFINE e == Yield!Rebalanced(weights)
<1>1. PICK f : Emits(e, "onRebalanced", "save", f)
  BY YieldBase DEF Yield!rebalanceEndpoint, Yield!rebalance
<1>2. e.name = "Rebalanced" /\ Sound(e)
  BY DEF Yield!Rebalanced, Sound
<1> HIDE DEF e
<1>3. "onRebalanced" \notin Endpoints
  BY DEF Endpoints
<1>4. /\ Shapes' /\ LogKept /\ db' = db
      /\ \/ jobs' = jobs
         \/ \E j \in Jobs : ~Running(j) /\ JobMoves(j, Job("onRebalanced", "save", e))
  BY <1>1, <1>2, <1>3, EmitsForm
<1>5. JobsKept(MoveKinds) /\ JobsKept({"onRewardDistributed"})
  BY <1>4 DEF JobsKept, JobMoves, Job, MoveKinds
<1>6. VaultFrame /\ RewardFrame
  BY <1>4, <1>5 DEF VaultFrame, RewardFrame
<1>7. PICK iy \in [Jobs -> Nat], n \in Nat :
        /\ NumberedAfter(iy, {"onRebalanced"})
        /\ n \notin DOMAIN log /\ n \in DOMAIN log' /\ log'[n] = e
        /\ \A k \in Jobs : jobs'[k].kind = "onRebalanced" =>
             \/ jobs'[k] = jobs[k] /\ iy[k] = ix[k] /\ iy[k] \in DOMAIN log
             \/ jobs'[k] = Job("onRebalanced", "save", e) /\ iy[k] = n
  <2>1. Numbered(ix, {"onRebalanced"})
    BY DEF WeightInv
  <2>2. StartNumbered(ix, "onRebalanced", "save", e)
    BY <1>1, <1>2, <1>3, <2>1, NumberedEmits
  <2>3. QED
    BY <2>2 DEF StartNumbered
<1>8. \A j \in Jobs : jobs'[j].kind = "onRebalanced" =>
        \/ jobs'[j] = jobs[j] /\ iy[j] = ix[j]
        \/ /\ jobs'[j].ev.name = "Rebalanced" /\ jobs'[j].found = <<>>
           /\ iy[j] \notin DOMAIN log
  BY <1>2, <1>7 DEF Job
<1>9. Numbered(iy, {"onRebalanced"})'
  BY <1>7 DEF Numbered, NumberedAfter
<1>10. WeightInv(iy)'
  BY <1>4, <1>8, <1>9, WeightKeeps
<1>11. QED
  BY <1>4, <1>6, <1>10

\* The log is finite.
LEMMA LogFinite == ASSUME Shapes PROVE IsFiniteSet(DOMAIN log)
<1>1. PICK S : log \in Seq(S)
  BY DEF Shapes, LogShape
<1>2. DOMAIN log = 1..Len(log) /\ Len(log) \in Nat
  BY <1>1
<1>3. IsFiniteSet(1..Len(log))
  BY ONLY <1>2, FS_Interval
<1>4. QED
  BY <1>2, <1>3

\* The handler saves the weight of the next pool: its rebalance now got to that pool too.
LEMMA SaveWeightStep ==
  ASSUME Shapes, NEW ix, WeightInv(ix), NEW j \in Jobs, jobs[j].kind = "onRebalanced",
         NEW i, i = Len(jobs[j].found), NEW w, w = jobs[j].ev.weights[i+1],
         db' = [db EXCEPT !.weights = Append(@, [pool |-> i, weight |-> w])],
         Goto(j, "save", Append(jobs[j].found, w)), log' = log
  PROVE  WeightInv(ix)' /\ Shapes' /\ VaultFrame /\ RewardFrame
<1>0. PICK table : table = Append(db.weights, [pool |-> i, weight |-> w])
  OBVIOUS
<1>1. /\ JobShapes'
      /\ JobMoves(j, [kind |-> "onRebalanced", at |-> "save", ev |-> jobs[j].ev,
                      found |-> Append(jobs[j].found, w)])
  BY GotoForm DEF Shapes
<1>2. /\ jobs'[j].kind = "onRebalanced" /\ jobs'[j].ev = jobs[j].ev
      /\ jobs'[j].found = Append(jobs[j].found, w)
      /\ \A k \in Jobs \ {j} : jobs'[k] = jobs[k]
  BY <1>1 DEF JobMoves
<1>3. PICK F : jobs[j].found \in Seq(F)
  BY DEF WeightInv, Weighed
<1>4. i \in Nat /\ Len(jobs'[j].found) = i + 1 /\ Weighed(jobs'[j].found)
  <2>1. jobs[j].found \in Seq(F \union {w})
    <3>1. F \subseteq F \union {w}
      OBVIOUS
    <3>2. QED
      BY <1>3, <3>1
  <2>2. Append(jobs[j].found, w) \in Seq(F \union {w}) /\ Len(Append(jobs[j].found, w)) = i + 1
    BY <2>1
  <2>3. QED
    BY <1>2, <2>1, <2>2 DEF Weighed
<1>5. /\ db' = [t \in TableNames |-> db'[t]]
      /\ db'.weights = table
      /\ db'.pools = db.pools /\ db'.balances = db.balances /\ db'.rewards = db.rewards
  <2>1. db = [t \in TableNames |-> db[t]]
    BY DEF Shapes, TableShapes
  <2>2. db' = [db EXCEPT !.weights = table]
    BY <1>0, <2>1 DEF TableNames
  <2>3. QED
    BY ONLY <2>1, <2>2 DEF TableNames
<1>6. PICK S : db.weights \in Seq(S)
  BY DEF Shapes, TableShapes
<1>7. PICK n \in Nat : n = Len(db.weights) + 1
  BY <1>6
<1>8. /\ \E U : table \in Seq(U)
      /\ n \notin DOMAIN db.weights /\ DOMAIN table = DOMAIN db.weights \union {n}
      /\ table[n].pool = i /\ table[n].weight = w
      /\ \A k \in DOMAIN db.weights : table[k] = db.weights[k]
      /\ IsFiniteSet(DOMAIN db.weights)
  <2> DEFINE row == [pool |-> i, weight |-> w]
  <2>0. row.pool = i /\ row.weight = w /\ table = Append(db.weights, row)
    BY <1>0
  <2> HIDE DEF row
  <2>1. db.weights \in Seq(S \union {row})
    <3>1. S \subseteq S \union {row}
      OBVIOUS
    <3>2. QED
      BY <1>6, <3>1
  <2>2. table \in Seq(S \union {row})
    BY <2>0, <2>1
  <2>3. /\ DOMAIN db.weights = 1..Len(db.weights) /\ DOMAIN table = 1..Len(db.weights)+1
        /\ Len(db.weights) \in Nat
        /\ table[n] = row /\ \A k \in DOMAIN db.weights : table[k] = db.weights[k]
    BY <1>7, <2>0, <2>1
  <2>4. IsFiniteSet(DOMAIN db.weights)
    <3>1. Len(db.weights) \in Nat
      BY <2>3
    <3>2. IsFiniteSet(1..Len(db.weights))
      BY ONLY <3>1, FS_Interval
    <3>3. QED
      BY <2>3, <3>2
  <2>5. n \notin DOMAIN db.weights /\ DOMAIN table = DOMAIN db.weights \union {n}
    BY <1>6, <1>7, <2>3
  <2>6. QED
    BY <2>0, <2>2, <2>3, <2>4, <2>5
<1>9. Shapes'
  <2>1. TableShapes
    BY DEF Shapes
  <2>2. TableShapes'
    BY ONLY <1>5, <1>8, <2>1 DEF TableShapes
  <2>3. LogShape'
    BY DEF Shapes, LogShape, Sound
  <2>4. QED
    BY <1>1, <2>2, <2>3 DEF Shapes
<1>10. LogKept /\ Yield!Rebalances' = Yield!Rebalances
  BY DEF LogKept, Yield!Rebalances
<1>11. VaultFrame /\ RewardFrame
  <2>1. JobsKept(MoveKinds) /\ JobsKept({"onRewardDistributed"})
    BY <1>2 DEF JobsKept, MoveKinds
  <2>2. QED
    BY <1>5, <1>10, <2>1 DEF VaultFrame, RewardFrame
<1>12. ix[j] \in Yield!Rebalances /\ log[ix[j]] = jobs[j].ev
  <2>1. jobs[j].ev.name = "Rebalanced" /\ Numbered(ix, {"onRebalanced"})
    BY DEF WeightInv
  <2>2. ix[j] \in DOMAIN log /\ log[ix[j]] = jobs[j].ev
    BY <2>1 DEF Numbered
  <2>3. QED
    BY <2>1, <2>2 DEF Yield!Rebalances
<1>13. Numbered(ix, {"onRebalanced"})'
  <2>1. Numbered(ix, {"onRebalanced"})
    BY DEF WeightInv
  <2>2. \A k \in Jobs : jobs'[k].kind = "onRebalanced" =>
          jobs[k].kind = "onRebalanced" /\ jobs'[k].ev = jobs[k].ev
    BY <1>2
  <2>3. QED
    BY <2>1, <2>2 DEF Numbered
<1>14. \A k \in Jobs : jobs'[k].kind = "onRebalanced" =>
         jobs'[k].ev.name = "Rebalanced" /\ Weighed(jobs'[k].found)
  <2>1. \A k \in Jobs : jobs[k].kind = "onRebalanced" =>
          jobs[k].ev.name = "Rebalanced" /\ Weighed(jobs[k].found)
    BY DEF WeightInv
  <2>2. QED
    BY <1>2, <1>4, <2>1
<1>15. ASSUME NEW k \in DOMAIN db'.weights
       PROVE  \E m \in Yield!Rebalances' : log'[m].weights[db'.weights[k].pool + 1] = db'.weights[k].weight
  <2>1. CASE k = n
    <3>1. db'.weights[k].pool = i /\ db'.weights[k].weight = w
      BY <1>5, <1>8, <2>1
    <3>2. log'[ix[j]].weights[i + 1] = w
      BY <1>12
    <3>3. QED
      BY <1>10, <1>12, <3>1, <3>2
  <2>2. CASE k # n
    <3>1. k \in DOMAIN db.weights /\ db'.weights[k] = db.weights[k]
      BY <1>5, <1>8, <2>2
    <3>2. QED
      BY <1>10, <3>1 DEF WeightInv, WeightFrom
  <2>3. QED
    BY <2>1, <2>2, Zenon
<1>16. PICK got \in [Nat -> SUBSET Yield!Rebalances] :
         /\ \A p \in Nat : Cardinality(got[p]) = Cardinality(Yield!RowsOf(p)) /\ got[p+1] \subseteq got[p]
         /\ \A k \in Jobs, p \in Nat : jobs[k].kind = "onRebalanced" =>
              (ix[k] \in got[p] <=> p < Len(jobs[k].found))
  BY DEF WeightInv
<1>17. PICK new \in [Nat -> SUBSET Yield!Rebalances] :
         new[i] = got[i] \union {ix[j]} /\ \A p \in Nat \ {i} : new[p] = got[p]
  <2>1. [got EXCEPT ![i] = got[i] \union {ix[j]}] \in [Nat -> SUBSET Yield!Rebalances]
    BY <1>4, <1>12
  <2>2. QED
    BY <1>4, <2>1
<1>18. ASSUME NEW p \in Nat
       PROVE  Cardinality(new[p]) = Cardinality(Yield!RowsOf(p)')
  <2>1. IsFiniteSet(Yield!RowsOf(p)) /\ n \notin Yield!RowsOf(p)
    <3>1. Yield!RowsOf(p) \subseteq DOMAIN db.weights
      BY DEF Yield!RowsOf
    <3>2. QED
      BY <1>8, <3>1, FS_Subset
  <2>2. CASE p = i
    <3>1. Yield!RowsOf(p)' = Yield!RowsOf(p) \union {n}
      BY <1>5, <1>8, <2>2 DEF Yield!RowsOf
    <3>2. Cardinality(Yield!RowsOf(p)') = Cardinality(Yield!RowsOf(p)) + 1
      BY <2>1, <3>1, FS_AddElement
    <3>3. IsFiniteSet(got[p]) /\ ix[j] \notin got[p]
      <4>1. IsFiniteSet(DOMAIN log)
        BY LogFinite
      <4>2. got[p] \subseteq DOMAIN log
        BY <1>16 DEF Yield!Rebalances
      <4>3. ix[j] \notin got[p]
        BY <1>4, <1>16, <2>2
      <4>4. QED
        BY <4>1, <4>2, <4>3, FS_Subset
    <3>4. Cardinality(got[p] \union {ix[j]}) = Cardinality(got[p]) + 1
      BY <3>3, FS_AddElement
    <3>5. QED
      BY <1>16, <1>17, <2>2, <3>2, <3>4
  <2>3. CASE p # i
    <3>1. Yield!RowsOf(p)' = Yield!RowsOf(p)
      BY <1>5, <1>8, <2>3 DEF Yield!RowsOf
    <3>2. QED
      BY <1>16, <1>17, <2>3, <3>1
  <2>4. QED
    BY <2>2, <2>3
<1>19. ASSUME NEW p \in Nat PROVE new[p+1] \subseteq new[p]
  <2>1. CASE p + 1 = i
    <3>1. ix[j] \in got[p] /\ new[p] = got[p] /\ new[p+1] = got[p+1] \union {ix[j]}
      BY <1>4, <1>16, <1>17, <2>1
    <3>2. QED
      BY <1>16, <3>1
  <2>2. CASE p + 1 # i
    <3>1. got[p+1] \subseteq got[p] /\ new[p+1] = got[p+1] /\ got[p] \subseteq new[p]
      BY <1>16, <1>17, <2>2
    <3>2. QED
      BY <3>1
  <2>3. QED
    BY <2>1, <2>2
<1>20. ASSUME NEW k \in Jobs, NEW p \in Nat, jobs'[k].kind = "onRebalanced"
       PROVE  ix[k] \in new[p] <=> p < Len(jobs'[k].found)
  <2>1. CASE k = j
    <3>1. ix[j] \in new[p] <=> p < i \/ p = i
      BY <1>16, <1>17
    <3>2. i \in Nat /\ Len(jobs'[j].found) = i + 1
      BY <1>4
    <3>3. p < i + 1 <=> p < i \/ p = i
      BY ONLY <3>2, p \in Nat
    <3>4. QED
      BY <2>1, <3>1, <3>2, <3>3, Zenon
  <2>2. CASE k # j
    <3>1. jobs'[k] = jobs[k] /\ ix[k] # ix[j]
      BY <1>2, <1>20, <2>2 DEF WeightInv, Numbered
    <3>2. ix[k] \in new[p] <=> ix[k] \in got[p]
      BY <1>17, <3>1
    <3>3. QED
      BY <1>16, <1>20, <3>1, <3>2
  <2>3. QED
    BY <2>1, <2>2
<1>21. \E g \in [Nat -> SUBSET Yield!Rebalances'] :
         /\ \A p \in Nat : Cardinality(g[p]) = Cardinality(Yield!RowsOf(p)') /\ g[p+1] \subseteq g[p]
         /\ \A k \in Jobs, p \in Nat : jobs'[k].kind = "onRebalanced" =>
              (ix[k] \in g[p] <=> p < Len(jobs'[k].found))
  <2>1. new \in [Nat -> SUBSET Yield!Rebalances']
    BY <1>10, Zenon
  <2>2. QED
    BY <1>18, <1>19, <1>20, <2>1, Zenon
<1>22. WeightInv(ix)'
  BY <1>13, <1>14, <1>15, <1>21, Zenon DEF WeightInv, WeightFrom, Weighed
<1>23. QED
  BY <1>9, <1>11, <1>22

\* Every step of the handler: it ends, saves, or takes the process with it.
LEMMA RebalancedStep ==
  ASSUME Shapes, NEW ix, WeightInv(ix), NEW j \in Jobs, Yield!onRebalanced(j)
  PROVE  WeightInv(ix)' /\ Shapes' /\ VaultFrame /\ RewardFrame
<1>1. jobs[j].kind = "onRebalanced"
  BY DEF Yield!onRebalanced, Yield!At
<1>2. ASSUME Frame PROVE WeightInv(ix)' /\ Shapes' /\ VaultFrame /\ RewardFrame
  BY <1>2, WeightFrameStep DEF Frame
<1>3. CASE Yield!Ends(j)
  BY <1>2, <1>3, YieldBase, PassiveEnds, PassiveFrame DEF Ends
<1>4. CASE Yield!Crash
  BY <1>2, <1>4, YieldBase, PassiveCrash, PassiveFrame
<1>5. PICK i, w : i = Len(jobs[j].found) /\ w = jobs[j].ev.weights[i+1]
  OBVIOUS
<1>6. CASE /\ db' = [db EXCEPT !.weights = Append(@, [pool |-> i, weight |-> w])]
           /\ Yield!Goto(j, "save", Append(jobs[j].found, w))
           /\ log' = log
  BY <1>1, <1>5, <1>6, YieldBase, SaveWeightStep
<1>7. QED
  BY <1>3, <1>4, <1>5, <1>6 DEF Yield!onRebalanced

-----------------------------------------------------------------------------
\* The invariant: each family of events has a numbering of its own.
VaultCounted == \E ix \in [Jobs -> Nat] : VaultInv(ix)
RewardsCounted == \E ix \in [Jobs -> Nat] : RewardInv(ix)
WeightsCounted == \E ix \in [Jobs -> Nat] : WeightInv(ix)
MirrorInv == Shapes /\ VaultCounted /\ RewardsCounted /\ WeightsCounted

\* What a step of one family leaves of the others.
LEMMA FrameKeeps ==
  /\ VaultCounted /\ VaultFrame => VaultCounted'
  /\ RewardsCounted /\ RewardFrame => RewardsCounted'
  /\ WeightsCounted /\ WeightFrame => WeightsCounted'
BY VaultFrameStep, RewardFrameStep, WeightFrameStep
   DEF VaultCounted, RewardsCounted, WeightsCounted

\* A step that leaves everything to all three keeps the whole invariant.
LEMMA FrameStep == ASSUME MirrorInv, Frame PROVE MirrorInv'
BY FrameKeeps DEF MirrorInv, Frame

\* Empty tables, an empty log and no handler on its way.
LEMMA ShapesInit == ASSUME Init PROVE Shapes
<1>1. PICK known \in SUBSET Pools : db = EmptyTables(known)
  BY DEF Init, MirrorInit
<1>2. \A j \in Jobs : jobs[j] = Idle
  BY DEF Init, MirrorInit
<1>3. jobs = [j \in Jobs |-> jobs[j]]
  BY DEF Init, MirrorInit
<1>4. JobShapes
  BY <1>2, <1>3 DEF JobShapes, Endpoints, Idle
<1>5. LogShape
  <2>1. log \in Seq({})
    BY DEF Init, MirrorInit
  <2>2. DOMAIN log = {}
    BY DEF Init, MirrorInit
  <2>3. QED
    BY <2>1, <2>2 DEF LogShape
<1>6. /\ db = [t \in TableNames |-> db[t]]
      /\ db.pools = [p \in known |-> [supply |-> 0, active |-> TRUE, min |-> 0, max |-> 0]]
      /\ db.rewards = <<>> /\ db.weights = <<>>
  BY <1>1 DEF EmptyTables, TableNames
<1>7. TableShapes
  <2>1. \E S : db.rewards \in Seq(S)
    <3>1. <<>> \in Seq({})
      OBVIOUS
    <3>2. QED
      BY <1>6, <3>1
  <2>2. \E S : db.weights \in Seq(S)
    <3>1. <<>> \in Seq({})
      OBVIOUS
    <3>2. QED
      BY <1>6, <3>1
  <2>3. DOMAIN db.rewards = {}
    BY <1>6
  <2>4. /\ db.pools = [p \in DOMAIN db.pools |-> db.pools[p]]
        /\ \A p \in DOMAIN db.pools :
             db.pools[p] = [supply |-> db.pools[p].supply, active |-> db.pools[p].active,
                            min |-> db.pools[p].min, max |-> db.pools[p].max]
    BY <1>6
  <2>5. QED
    BY <1>6, <2>1, <2>2, <2>3, <2>4 DEF TableShapes
<1>8. QED
  BY <1>4, <1>5, <1>7 DEF Shapes

\* With empty tables nothing is counted.
LEMMA MirrorInitInv == ASSUME Init PROVE MirrorInv
<1>1. PICK known \in SUBSET Pools : db = EmptyTables(known)
  BY DEF Init, MirrorInit
<1>2. \A j \in Jobs : jobs[j].kind = "idle"
  BY DEF Init, MirrorInit, Idle
<1>3. /\ \A p \in DOMAIN db.pools : db.pools[p].supply = 0
      /\ DOMAIN db.balances = {} /\ DOMAIN db.rewards = {} /\ DOMAIN db.weights = {}
  BY <1>1 DEF EmptyTables
<1>4. PICK ix : ix = [j \in Jobs |-> 0]
  OBVIOUS
<1>5. ix \in [Jobs -> Nat]
  BY <1>4
<1>6. VaultInv(ix)
  <2>1. \A p \in DOMAIN db.pools : db.pools[p].supply \in PoolSums(ix, p, {})
    BY <1>3, SomeSumsZero DEF PoolSums
  <2>2. QED
    BY <1>2, <1>3, <2>1 DEF VaultInv, Numbered, MoveKinds
<1>7. RewardInv(ix)
  <2>1. {} \in SUBSET (Reward!Named("RewardDistributed") \ Distributing(ix))
    OBVIOUS
  <2>2. [i \in {} |-> log[i].amount] = [i \in {} |-> db.rewards[i].amount]
    OBVIOUS
  <2>3. AmountSum(log, {}) = AmountSum(db.rewards, DOMAIN db.rewards)
    BY <1>3, <2>2, Zenon DEF AmountSum
  <2>4. QED
    BY <1>2, <2>1, <2>3 DEF RewardInv, Numbered
<1>8. WeightInv(ix)
  <2>1. \A p : Yield!RowsOf(p) = {}
    BY <1>3 DEF Yield!RowsOf
  <2>2. PICK got \in [Nat -> SUBSET Yield!Rebalances] : \A p \in Nat : got[p] = {}
    <3>1. [p \in Nat |-> {}] \in [Nat -> SUBSET Yield!Rebalances]
      OBVIOUS
    <3>2. QED
      BY <3>1
  <2>3. \A p \in Nat : Cardinality(got[p]) = Cardinality(Yield!RowsOf(p)) /\ got[p+1] \subseteq got[p]
    BY <2>1, <2>2
  <2>4. QED
    BY <1>2, <1>3, <2>3 DEF WeightInv, Numbered
<1>9. QED
  BY <1>5, <1>6, <1>7, <1>8, ShapesInit DEF MirrorInv, VaultCounted, RewardsCounted, WeightsCounted

-----------------------------------------------------------------------------
\* The steps of each family.
LEMMA VaultFamily ==
  ASSUME MirrorInv, VaultCalls \/ VaultSteps
  PROVE  MirrorInv'
<1>0. Shapes
  BY DEF MirrorInv
<1>1. CASE \E u \in Users, p \in Pools, a \in Amounts : Calling(u, p, a)
  <2>1. PICK u \in Users, p \in Pools, a \in Amounts : Calling(u, p, a)
    BY <1>1
  <2>2. PICK ix \in [Jobs -> Nat] : VaultInv(ix)
    BY DEF MirrorInv, VaultCounted
  <2>3. VaultCounted' /\ Shapes' /\ RewardFrame /\ WeightFrame
    BY <1>0, <2>1, <2>2, VaultCallStep DEF VaultCounted
  <2>4. QED
    BY <2>3, FrameKeeps DEF MirrorInv
<1>2. CASE \E p \in Pools : Vault!addPoolEndpoint(p)
  BY <1>0, <1>2, VaultPoolFrame, FrameStep
<1>3. ASSUME NEW j \in Jobs, Vault!onDeposit(j) \/ Vault!onWithdrawal(j) PROVE MirrorInv'
  <2>1. PICK ix \in [Jobs -> Nat] : VaultInv(ix)
    BY DEF MirrorInv, VaultCounted
  <2>2. VaultInv(ix)' /\ Shapes' /\ RewardFrame /\ WeightFrame
    BY <1>0, <1>3, <2>1, MoverStep
  <2>3. VaultCounted'
    BY <2>2 DEF VaultCounted
  <2>4. QED
    BY <2>2, <2>3, FrameKeeps DEF MirrorInv
<1>4. ASSUME NEW j \in Jobs, Vault!onPoolAdded(j) \/ Vault!addPool(j) PROVE MirrorInv'
  BY <1>0, <1>4, VaultPoolFrame, FrameStep
<1>5. ASSUME NEW j \in Jobs, QueryFails(j) PROVE MirrorInv'
  BY <1>0, <1>5, PassiveFails, PassiveFrame, FrameStep
<1>6. QED
  BY <1>1, <1>2, <1>3, <1>4, <1>5 DEF VaultCalls, VaultSteps

\* Registry calls and handlers leave everything the invariant speaks of.
LEMMA RegistryFamily ==
  ASSUME MirrorInv,
         \/ RegistryCalls \/ RegistrySteps
         \/ \E p \in Pools : Strategy!addPoolEndpoint(p, 0, 0)
         \/ \E j \in Jobs : Strategy!onPoolAdded(j)
  PROVE  MirrorInv'
<1>0. Shapes
  BY DEF MirrorInv
<1>1. ASSUME NEW p, NEW active, NEW min, NEW max,
             \/ Strategy!addPoolEndpoint(p, min, max)
             \/ Strategy!updatePoolEndpoint(p, active, min, max)
             \/ Strategy!executeRebalance(p)
      PROVE  MirrorInv'
  BY <1>0, <1>1, RegistryCallFrame, FrameStep
<1>2. CASE RegistryCalls \/ \E p \in Pools : Strategy!addPoolEndpoint(p, 0, 0)
  BY <1>1, <1>2 DEF RegistryCalls
<1>3. ASSUME NEW j \in Jobs, Strategy!subscribeToEvents(j) PROVE MirrorInv'
  BY <1>0, <1>3, RegistryStepFrame, FrameStep
<1>4. ASSUME NEW j \in Jobs, Strategy!onPoolAdded(j) PROVE MirrorInv'
  BY <1>3, <1>4 DEF Strategy!subscribeToEvents
<1>5. ASSUME NEW j \in Jobs, QueryFails(j) PROVE MirrorInv'
  BY <1>0, <1>5, PassiveFails, PassiveFrame, FrameStep
<1>6. QED
  BY <1>2, <1>3, <1>4, <1>5 DEF RegistrySteps

\* Distributing and storing a reward move the numbering of the rewards only.
LEMMA RewardFamily ==
  ASSUME MirrorInv, RewardCalls \/ RewardSteps
  PROVE  MirrorInv'
<1>0. Shapes
  BY DEF MirrorInv
<1>1. PICK ix \in [Jobs -> Nat] : RewardInv(ix)
  BY DEF MirrorInv, RewardsCounted
<1>2. ASSUME NEW u, NEW a \in Amounts, Reward!distributeEndpoint(u, a) PROVE MirrorInv'
  <2>1. RewardsCounted' /\ Shapes' /\ VaultFrame /\ WeightFrame
    BY <1>0, <1>1, <1>2, DistributeStep DEF RewardsCounted
  <2>2. QED
    BY <2>1, FrameKeeps DEF MirrorInv
<1>3. ASSUME NEW j \in Jobs, Reward!onRewardDistributed(j) PROVE MirrorInv'
  <2>1. RewardInv(ix)' /\ Shapes' /\ VaultFrame /\ WeightFrame
    BY <1>0, <1>1, <1>3, DistributedStep
  <2>2. RewardsCounted'
    BY <2>1 DEF RewardsCounted
  <2>3. QED
    BY <2>1, <2>2, FrameKeeps DEF MirrorInv
<1>4. ASSUME NEW u,
             \/ Reward!claimEndpoint(u)
             \/ Reward!authorizeDistributorEndpoint(u)
             \/ Reward!revokeDistributorEndpoint(u)
      PROVE  MirrorInv'
  BY <1>0, <1>4, RewardCallFrame, FrameStep
<1>5. ASSUME NEW j \in Jobs,
             \/ Reward!onRewardClaimed(j)
             \/ Reward!onDistributorAuthorized(j)
             \/ Reward!onDistributorRevoked(j)
             \/ Reward!authorizeDistributor(j)
             \/ Reward!revokeDistributor(j)
      PROVE  MirrorInv'
  BY <1>0, <1>5, RewardStepFrame, FrameStep
<1>6. ASSUME NEW j \in Jobs, QueryFails(j) PROVE MirrorInv'
  BY <1>0, <1>6, PassiveFails, PassiveFrame, FrameStep
<1>7. QED
  BY <1>2, <1>3, <1>4, <1>5, <1>6 DEF RewardCalls, RewardSteps

\* Oracle calls and handlers leave everything the invariant speaks of.
LEMMA OracleFamily ==
  ASSUME MirrorInv, OracleCalls \/ OracleSteps
  PROVE  MirrorInv'
<1>0. Shapes
  BY DEF MirrorInv
<1>1. ASSUME NEW p, NEW q, NEW a, NEW isDeposit, NEW r, NEW c,
             \/ Oracle!updateMetricsEndpoint(p, a, isDeposit)
             \/ Oracle!updateVolatilityEndpoint(p, r)
             \/ Oracle!updateYieldRateEndpoint(p, r)
             \/ Oracle!updateCorrelationEndpoint(p, q, c)
      PROVE  MirrorInv'
  BY <1>0, <1>1, OracleCallFrame, FrameStep
<1>2. CASE OracleCalls
  BY <1>1, <1>2 DEF OracleCalls
<1>3. ASSUME NEW j \in Jobs, Oracle!onMetricsUpdated(j) \/ Oracle!onCorrelationUpdated(j)
      PROVE  MirrorInv'
  BY <1>0, <1>3, OracleStepFrame, FrameStep
<1>4. ASSUME NEW j \in Jobs, QueryFails(j) PROVE MirrorInv'
  BY <1>0, <1>4, PassiveFails, PassiveFrame, FrameStep
<1>5. QED
  BY <1>2, <1>3, <1>4 DEF OracleSteps

\* A rebalance and its handler move the numbering of the rebalances only.
LEMMA YieldFamily ==
  ASSUME MirrorInv, YieldCalls \/ YieldSteps
  PROVE  MirrorInv'
<1>0. Shapes
  BY DEF MirrorInv
<1>1. PICK ix \in [Jobs -> Nat] : WeightInv(ix)
  BY DEF MirrorInv, WeightsCounted
<1>2. ASSUME NEW weights, Yield!rebalanceEndpoint(weights) PROVE MirrorInv'
  <2>1. WeightsCounted' /\ Shapes' /\ VaultFrame /\ RewardFrame
    BY <1>0, <1>1, <1>2, RebalanceStep DEF WeightsCounted
  <2>2. QED
    BY <2>1, FrameKeeps DEF MirrorInv
<1>3. ASSUME NEW j \in Jobs, Yield!onRebalanced(j) PROVE MirrorInv'
  <2>1. WeightInv(ix)' /\ Shapes' /\ VaultFrame /\ RewardFrame
    BY <1>0, <1>1, <1>3, RebalancedStep
  <2>2. WeightsCounted'
    BY <2>1 DEF WeightsCounted
  <2>3. QED
    BY <2>1, <2>2, FrameKeeps DEF MirrorInv
<1>4. ASSUME NEW p, NEW a, Yield!harvestEndpoint(p, a) PROVE MirrorInv'
  BY <1>0, <1>4, HarvestFrame, FrameStep
<1>5. ASSUME NEW j \in Jobs, Yield!onYieldHarvested(j) \/ Yield!HandlerRejects(j) PROVE MirrorInv'
  BY <1>0, <1>5, HarvestFrame, FrameStep
<1>6. QED
  BY <1>2, <1>3, <1>4, <1>5 DEF YieldCalls, YieldSteps

\* Every step of the five services, of the process and of its clients.
LEMMA MirrorNextInv == ASSUME MirrorInv, [Next]_vars PROVE MirrorInv'
<1>0. Shapes
  BY DEF MirrorInv
<1>1. CASE onModuleInit \/ Crash
  BY <1>0, <1>1, PassiveInit, PassiveCrash, PassiveFrame, FrameStep
<1>2. CASE UNCHANGED vars
  <2>1. Passive
    BY <1>0, <1>2, LogStays DEF Passive, vars, mirrorVars, Shapes, JobShapes, JobsKept, Idle, IsJob
  <2>2. QED
    BY <2>1, PassiveFrame, FrameStep
<1>3. CASE VaultCalls \/ VaultSteps
  BY <1>3, VaultFamily
<1>4. CASE \/ RegistryCalls \/ RegistrySteps
           \/ \E p \in Pools : Strategy!addPoolEndpoint(p, 0, 0)
           \/ \E j \in Jobs : Strategy!onPoolAdded(j)
  BY <1>4, RegistryFamily
<1>5. CASE RewardCalls \/ RewardSteps
  BY <1>5, RewardFamily
<1>6. CASE OracleCalls \/ OracleSteps
  BY <1>6, OracleFamily
<1>7. CASE YieldCalls \/ YieldSteps
  BY <1>7, YieldFamily
<1>8. QED
  BY <1>1, <1>2, <1>3, <1>4, <1>5, <1>6, <1>7 DEF Next

-----------------------------------------------------------------------------
\* Fewer amounts sum to less, and the parts to the whole.
LEMMA AmountParts ==
  ASSUME NEW rows, NEW S, IsFiniteSet(S), \A i \in S : rows[i].amount \in Nat, NEW P \in SUBSET S
  PROVE  /\ AmountSum(rows, P) <= AmountSum(rows, S)
         /\ AmountSum(rows, P) + AmountSum(rows, S \ P) = AmountSum(rows, S)
         /\ AmountSum(rows, S) \in Nat
<1> DEFINE f == [i \in S |-> rows[i].amount]
<1>1. \A i \in S : f[i] \in Nat /\ f[i] \in Int
  OBVIOUS
<1>2. ASSUME NEW T \in SUBSET S
      PROVE  AmountSum(rows, T) = SumFunctionOnSet(f, T)
  <2> DEFINE g == [i \in T |-> rows[i].amount]
  <2>1. DOMAIN g = T /\ \A i \in T : g[i] \in Int /\ g[i] = f[i]
    OBVIOUS
  <2>2. IsFiniteSet(T)
    BY FS_Subset
  <2> HIDE DEF f
  <2>3. SumFunctionOnSet(g, T) = SumFunctionOnSet(f, T)
    <3> HIDE DEF g
    <3>1. QED
      BY <2>1, <2>2, SumAgree
  <2>4. AmountSum(rows, T) = SumFunctionOnSet(g, T)
    BY <2>1 DEF AmountSum, SumFunction
  <2>5. QED
    BY <2>3, <2>4
<1> HIDE DEF f
<1>3. SumFunctionOnSet(f, P) <= SumFunctionOnSet(f, S)
  BY <1>1, SumPart
<1>4. SumFunctionOnSet(f, S) = SumFunctionOnSet(f, P) + SumFunctionOnSet(f, S \ P)
  BY <1>1, SumSplit
<1>5. SumFunctionOnSet(f, S) \in Nat
  BY <1>1, SumNat
<1>6. S \ P \in SUBSET S /\ S \in SUBSET S
  OBVIOUS
<1>7. QED
  BY <1>2, <1>3, <1>4, <1>5, <1>6

\* The service's own instance of a sum is the sum.
LEMMA RewardSums ==
  /\ \A some : Reward!Amounted(some) = AmountSum(log, some)
  /\ \A rows : Reward!Stored(rows) = AmountSum(db.rewards, rows)
BY Zenon DEF Reward!Amounted, Reward!Stored, AmountSum, SumFunction, SumFunctionOnSet,
   FoldFunctionOnSet, MapThenFoldSet, Reward!SumFunction, Reward!SumFunctionOnSet,
   Reward!FoldFunctionOnSet, Reward!MapThenFoldSet

\* The sums the property speaks of are those of the invariant.
LEMMA VaultSums ==
  \A events : SumsOfSome(events) = SomeSums(log, events)
BY Zenon DEF SumsOfSome, SomeSums, DeltaSum, Vault!Deltas

\* No event is counted twice or to another row.
LEMMA VaultRows == ASSUME MirrorInv PROVE VaultRowsFromEvents
<1>1. PICK ix \in [Jobs -> Nat] : VaultInv(ix)
  BY DEF MirrorInv, VaultCounted
<1>2. ASSUME NEW A, NEW B, NEW v \in SomeSums(log, A \ B) PROVE v \in SumsOfSome(A)
  <2>1. v \in SomeSums(log, A)
    BY <1>2, SomeSumsKept
  <2>2. QED
    BY <2>1, VaultSums
<1>3. ASSUME NEW k \in DOMAIN db.balances
      PROVE  db.balances[k].balance \in SumsOfSome(Vault!UserEvents(k[2], k[1]))
  <2>1. db.balances[k].balance
          \in SomeSums(log, Vault!UserEvents(k[2], k[1]) \ (Unread(ix) \union {}))
    BY <1>1 DEF VaultInv, UserSums
  <2>2. QED
    BY <1>2, <2>1
<1>4. ASSUME NEW p \in DOMAIN db.pools
      PROVE  db.pools[p].supply \in SumsOfSome(Vault!PoolEvents(p))
  <2>1. db.pools[p].supply \in SomeSums(log, Vault!PoolEvents(p) \ (Uncounted(ix) \union {}))
    BY <1>1 DEF VaultInv, PoolSums
  <2>2. QED
    BY <1>2, <2>1
<1>5. QED
  BY <1>3, <1>4 DEF VaultRowsFromEvents

\* The rows are some of the rewards, so they sum to no more than all of them.
LEMMA RewardTotals == ASSUME MirrorInv PROVE StatsWithinTotal
<1> DEFINE rows == DOMAIN db.rewards
           claimed == {i \in rows : db.rewards[i].claimed}
           unclaimed == {i \in rows : ~db.rewards[i].claimed}
           named == Reward!Named("RewardDistributed")
<1>0. Shapes
  BY DEF MirrorInv
<1>1. PICK ix \in [Jobs -> Nat] : RewardInv(ix)
  BY DEF MirrorInv, RewardsCounted
<1>2. PICK some \in SUBSET named : AmountSum(log, some) = AmountSum(db.rewards, rows)
  BY <1>1 DEF RewardInv
<1>3. IsFiniteSet(named) /\ \A i \in named : log[i].amount \in Nat
  <2>1. named \subseteq DOMAIN log
    BY DEF Reward!Named
  <2>2. IsFiniteSet(named)
    BY <1>0, <2>1, LogFinite, FS_Subset
  <2>3. QED
    BY <1>0, <2>2 DEF Reward!Named, Shapes, LogShape, Sound
<1>4. IsFiniteSet(rows) /\ \A i \in rows : db.rewards[i].amount \in Nat
  <2>1. PICK S : db.rewards \in Seq(S)
    BY <1>0 DEF Shapes, TableShapes
  <2>2. Len(db.rewards) \in Nat /\ rows = 1..Len(db.rewards)
    BY <2>1
  <2>3. Len(db.rewards) \in Nat
    BY <2>2
  <2>4. IsFiniteSet(1..Len(db.rewards))
    BY ONLY <2>3, FS_Interval
  <2>5. QED
    BY <1>0, <2>2, <2>4 DEF Shapes, TableShapes
<1>5. AmountSum(log, some) <= AmountSum(log, named) /\ AmountSum(log, named) \in Nat
  <2> HIDE DEF named
  <2>1. QED
    BY <1>3, AmountParts
<1>6. unclaimed = rows \ claimed /\ claimed \in SUBSET rows
  OBVIOUS
<1>7. AmountSum(db.rewards, claimed) + AmountSum(db.rewards, unclaimed) = AmountSum(db.rewards, rows)
  <2> HIDE DEF rows, claimed, unclaimed
  <2>1. QED
    BY <1>4, <1>6, AmountParts
<1>8. /\ Reward!getRewardStats.totalClaimed = AmountSum(db.rewards, claimed)
      /\ Reward!getRewardStats.totalUnclaimed = AmountSum(db.rewards, unclaimed)
      /\ Reward!totalDistributedEndpoint = AmountSum(log, named)
  BY RewardSums DEF Reward!getRewardStats, Reward!totalDistributedEndpoint, Reward!getTotalDistributed
<1> HIDE DEF rows, claimed, unclaimed, named
<1>9. AmountSum(db.rewards, claimed) + AmountSum(db.rewards, unclaimed) <= AmountSum(log, named)
  BY <1>2, <1>5, <1>7
<1>10. QED
  BY <1>8, <1>9 DEF StatsWithinTotal

\* The rows of a pool are as many as the rebalances that got there.
LEMMA WeightRows == ASSUME MirrorInv PROVE WeightRowsFollowEvents
<1>0. Shapes
  BY DEF MirrorInv
<1>1. PICK ix \in [Jobs -> Nat] : WeightInv(ix)
  BY DEF MirrorInv, WeightsCounted
<1>2. PICK got \in [Nat -> SUBSET Yield!Rebalances] :
        \A p \in Nat : Cardinality(got[p]) = Cardinality(Yield!RowsOf(p)) /\ got[p+1] \subseteq got[p]
  BY <1>1 DEF WeightInv
<1>3. IsFiniteSet(Yield!Rebalances) /\ \A p \in Nat : IsFiniteSet(got[p])
  <2>1. Yield!Rebalances \subseteq DOMAIN log
    BY DEF Yield!Rebalances
  <2>2. IsFiniteSet(Yield!Rebalances)
    BY <1>0, <2>1, LogFinite, FS_Subset
  <2>3. QED
    BY <2>2, FS_Subset
<1>4. \A p \in Pools : p \in Nat
  BY MirrorAssumption DEF Pools
<1>5. ASSUME NEW p \in Nat
      PROVE  Cardinality(Yield!RowsOf(p)) <= Cardinality(Yield!Rebalances)
  <2>1. got[p] \in SUBSET Yield!Rebalances
    OBVIOUS
  <2>2. Cardinality(got[p]) <= Cardinality(Yield!Rebalances)
    BY <1>3, <2>1, FS_Subset
  <2>3. QED
    BY <1>2, <2>2
<1>6. ASSUME NEW p \in Nat
      PROVE  Cardinality(Yield!RowsOf(p)) >= Cardinality(Yield!RowsOf(p + 1))
  <2>1. got[p+1] \in SUBSET got[p] /\ p + 1 \in Nat
    BY <1>2
  <2>2. /\ Cardinality(got[p+1]) <= Cardinality(got[p])
        /\ Cardinality(got[p+1]) \in Nat /\ Cardinality(got[p]) \in Nat
    BY <1>3, <2>1, FS_Subset, FS_CardinalityType
  <2>3. QED
    BY <1>2, <2>1, <2>2
<1>7. ASSUME NEW p \in Nat, NEW w \in Yield!weightEndpoint(p)
      PROVE  \E i \in Yield!Rebalances : log[i].weights[p+1] = w
  <2>1. PICK k \in Yield!RowsOf(p) : w = db.weights[k].weight
    BY <1>7 DEF Yield!weightEndpoint, Yield!getPoolWeight
  <2>2. k \in DOMAIN db.weights /\ db.weights[k].pool = p
    BY DEF Yield!RowsOf
  <2>3. QED
    BY <1>1, <2>1, <2>2 DEF WeightInv, WeightFrom
<1>8. QED
  BY <1>4, <1>5, <1>6, <1>7 DEF WeightRowsFollowEvents

\* However handlers and endpoints overlap, fail or die with the process between two
\* awaits, no event is counted twice or to another row, the statistics stay within what
\* was distributed, and the weights were sent for their pool, in their order.
THEOREM MirrorSurvivesRaces == Spec => []RacedMirror
<1>1. Init => MirrorInv
  BY MirrorInitInv
<1>2. MirrorInv /\ [Next]_vars => MirrorInv'
  BY MirrorNextInv
<1>3. MirrorInv => RacedMirror
  BY VaultRows, RewardTotals, WeightRows DEF RacedMirror
<1>4. QED
  BY <1>1, <1>2, <1>3, PTL DEF Spec

-----------------------------------------------------------------------------
\* What the tables owe the contract when every event so far was handled alone and to its
\* end: only the event of the one handler that is still on its way.  An endpoint and the
\* handler of its own event do run beside each other, and nothing else does.
Beside == {"addVaultPool", "onVaultPoolAdded", "authorizeDistributor", "onDistributorAuthorized",
           "revokeDistributor", "onDistributorRevoked"}
Alone ==
  \A j \in Jobs : Running(j) /\ (jobs[j].kind \notin Beside \/ jobs[j].at = "tx") =>
    \A k \in Jobs \ {j} : ~Running(k)

\* The services of the other families move nothing.
NothingMoves ==
  /\ \A i \in DOMAIN log : ~Vault!Moves(log[i])
  /\ DOMAIN db.balances = {}
  /\ \A p \in DOMAIN db.pools : db.pools[p].supply = 0

\* What the contract holds of a pool, and of it for a user.
Total(p) == DeltaSum(log, Vault!PoolEvents(p))
Held(u, p) == DeltaSum(log, Vault!UserEvents(u, p))

\* Vault: what is stored, 0 where there is no row, and whose event is still owed to it.
BalanceOf(p, u) == IF <<p, u>> \in DOMAIN db.balances THEN db.balances[<<p, u>>].balance ELSE 0
SupplyOf(p) == IF p \in DOMAIN db.pools THEN db.pools[p].supply ELSE 0
OwesSupply(j, p) == jobs[j].kind \in MoveKinds /\ jobs[j].ev.pool = p
OwesBalance(j, p, u) ==
  OwesSupply(j, p) /\ jobs[j].ev.user = u /\ jobs[j].at \in {"findBalance", "saveBalance"}

BalancesOwed ==
  /\ \A p, u : (\A j \in Jobs : ~OwesBalance(j, p, u)) => BalanceOf(p, u) = Held(u, p)
  /\ \A j \in Jobs : \A p, u : OwesBalance(j, p, u) =>
       BalanceOf(p, u) = Held(u, p) - Vault!Delta(jobs[j].ev)
SuppliesOwed ==
  /\ \A p : (\A j \in Jobs : ~OwesSupply(j, p)) => SupplyOf(p) = Total(p)
  /\ \A j \in Jobs : \A p : OwesSupply(j, p) =>
       SupplyOf(p) = Total(p) - Vault!Delta(jobs[j].ev)
\* A row of a balance has its pool, nothing moved in a pool that has no row, and the
\* contract pays out no more than it holds for a user.
RowsHavePools ==
  /\ \A k \in DOMAIN db.balances : k = <<k[1], k[2]>> /\ k[1] \in DOMAIN db.pools
  /\ \A p : p \notin DOMAIN db.pools =>
       Total(p) = 0 /\ \A u : Held(u, p) = 0
NoDebts == \A u, p : Held(u, p) >= 0
\* A handler's copy is the row, and a pool that is being added has seen no movement.
CopiesFresh ==
  \A j \in Jobs :
    /\ jobs[j].kind \in MoveKinds /\ jobs[j].at = "saveBalance" =>
         jobs[j].found = FindOne(db.balances, <<jobs[j].ev.pool, jobs[j].ev.user>>)
    /\ jobs[j].kind \in MoveKinds /\ jobs[j].at = "savePool" =>
         HasPool(jobs[j].ev.pool) /\ jobs[j].found = FindOne(db.pools, jobs[j].ev.pool)
    /\ jobs[j].kind \in {"addVaultPool", "onVaultPoolAdded"} =>
         \A i \in DOMAIN log : Vault!Moves(log[i]) => log[i].pool # jobs[j].ev.pool
    /\ jobs[j].kind = "onWithdrawal" => jobs[j].ev.name = "Withdrawal"
VaultSerial == BalancesOwed /\ SuppliesOwed /\ RowsHavePools /\ NoDebts /\ CopiesFresh

\* Registry: the row of a pool is what the contract was last told, unless its handler is
\* on its way, and row 0 is the last execution.
Agrees(row, e) == row.active = e.active /\ row.min = e.min /\ row.max = e.max
ChangeKinds == {"onRegistryPoolAdded", "onPoolUpdated"}
SettingsOwed ==
  /\ \A p : Strategy!Known(p) =>
       \/ HasPool(p) /\ Agrees(db.pools[p], Strategy!Settings(p))
       \/ \E j \in Jobs : jobs[j].kind \in ChangeKinds /\ jobs[j].ev.pool = p
  /\ \A j \in Jobs : LET e == jobs[j].ev IN
       /\ jobs[j].kind \in ChangeKinds => e = Strategy!Settings(e.pool)
       /\ jobs[j].kind = "onRegistryPoolAdded" => e.active = TRUE /\ e.min = 0 /\ e.max = 0
       /\ jobs[j].kind = "onPoolUpdated" => HasPool(e.pool)
ExecutionsOwed ==
  /\ DOMAIN db.executions \subseteq {0}
  /\ Strategy!Executions # {} =>
       \/ 0 \in DOMAIN db.executions /\ db.executions[0].pool = Latest(Strategy!Executions).pool
       \/ \E j \in Jobs : jobs[j].kind = "onStrategyExecuted"
  /\ \A j \in Jobs : jobs[j].kind = "onStrategyExecuted" => jobs[j].ev = Latest(Strategy!Executions)
RegistrySerial == SettingsOwed /\ ExecutionsOwed

\* Rewards: what a user's rows still promise, and the distributors whose row is owed to
\* an authorization or a revocation on its way.
OpenRows(u) == {i \in DOMAIN db.rewards : db.rewards[i].user = u /\ ~db.rewards[i].claimed}
Promised(u) == AmountSum(db.rewards, OpenRows(u))
Due(u) == AmountSum(log, Reward!Unclaimed(u))
RewardsOwed ==
  /\ \A u :
       \/ Promised(u) = Due(u)
       \/ \E j \in Jobs : jobs[j].kind = "onRewardClaimed" /\ jobs[j].ev.user = u
       \/ \E j \in Jobs : jobs[j].kind = "onRewardDistributed" /\ jobs[j].ev.user = u
  /\ \A j \in Jobs : LET e == jobs[j].ev IN
       /\ jobs[j].kind = "onRewardClaimed" => Due(e.user) = 0
       /\ jobs[j].kind = "onRewardDistributed" =>
            e.amount \in Nat /\ Promised(e.user) + e.amount = Due(e.user)

Authorizing(j, d) ==
  /\ jobs[j].kind \in {"authorizeDistributor", "onDistributorAuthorized"}
  /\ jobs[j].at # "tx" /\ jobs[j].ev.user = d
Revoking(j, d) ==
  /\ jobs[j].kind \in {"revokeDistributor", "onDistributorRevoked"}
  /\ jobs[j].at # "tx" /\ jobs[j].ev.user = d
DistributorsOwed ==
  /\ \E S : db.distributors \in Seq(S)
  /\ \A i \in DOMAIN db.distributors :
       db.distributors[i] = [user |-> db.distributors[i].user,
                             authorized |-> db.distributors[i].authorized]
  /\ \A d :
       \/ d \in Reward!distributorsEndpoint <=> Reward!isAuthorizedDistributor(d)
       \/ \E j \in Jobs : Authorizing(j, d) \/ Revoking(j, d)
  /\ \A j \in Jobs : \A d :
       /\ Authorizing(j, d) => Reward!isAuthorizedDistributor(d)
       /\ Revoking(j, d) => ~Reward!isAuthorizedDistributor(d)
  /\ \A j \in Jobs :
       jobs[j].kind \in {"authorizeDistributor", "onDistributorAuthorized"}
       /\ jobs[j].at = "saveDistributor" /\ jobs[j].found # <<>> =>
         jobs[j].found[1] \in Reward!RowsOf(jobs[j].ev.user)
\* An endpoint's event says what the endpoint does.
EndpointEvents ==
  \A j \in Jobs :
    /\ jobs[j].kind = "authorizeDistributor" => jobs[j].ev.name = "DistributorAuthorized"
    /\ jobs[j].kind = "revokeDistributor" => jobs[j].ev.name = "DistributorRevoked"
RewardSerial == RewardsOwed /\ DistributorsOwed /\ EndpointEvents

\* Oracle: the row of a pool and of the direction a pair was last sent in.
MetricsOwed ==
  /\ \A i \in DOMAIN log : log[i].name = "MetricsUpdated" =>
       log[i].metrics = [c \in Oracle!Columns |-> log[i].metrics[c]]
  /\ \A p :
       \/ IF Oracle!MetricsEvents(p) = {} THEN p \notin DOMAIN db.metrics
          ELSE p \in DOMAIN db.metrics /\ db.metrics[p] = Oracle!getPoolMetrics(p)
       \/ \E j \in Jobs : jobs[j].kind = "onMetricsUpdated" /\ jobs[j].ev.pool = p
  /\ \A j \in Jobs : LET e == jobs[j].ev IN
       jobs[j].kind = "onMetricsUpdated" =>
         /\ HasPool(e.pool) /\ Oracle!MetricsEvents(e.pool) # {}
         /\ e.metrics = Oracle!getPoolMetrics(e.pool)
         /\ jobs[j].at = "write" => jobs[j].found = FindOne(db.metrics, e.pool)
PairOf(p, q) == Oracle!PairEvents({<<p, q>>, <<q, p>>})
CorrelationsOwed ==
  /\ \A p, q : PairOf(p, q) # {} =>
       LET e == Latest(PairOf(p, q)) IN
       \/ e.pair \in DOMAIN db.correlations /\ db.correlations[e.pair] = e.correlation
       \/ \E j \in Jobs : jobs[j].kind = "onCorrelationUpdated" /\ jobs[j].ev = e
  /\ \A j \in Jobs : LET e == jobs[j].ev IN
       jobs[j].kind = "onCorrelationUpdated" =>
         \A p, q : e.pair \in {<<p, q>>, <<q, p>>} => PairOf(p, q) # {} /\ e = Latest(PairOf(p, q))
OracleSerial == MetricsOwed /\ CorrelationsOwed

SerialInv ==
  tidy =>
    /\ Alone
    /\ family # "vault" => NothingMoves
    /\ family = "vault" => VaultSerial
    /\ family = "registry" => RegistrySerial
    /\ family = "reward" => RewardSerial
    /\ family = "oracle" => OracleSerial
-----------------------------------------------------------------------------
\* The steps that keep tidy.  One job and no other: OneJob is what an event leaves that
\* comes to a service at rest.
OneJob(q) == \E j \in Jobs : jobs'[j] = q /\ \A k \in Jobs \ {j} : jobs'[k].kind = "idle"
Unmoved ==
  /\ db' = db /\ log' = log
  /\ \A j \in Jobs : jobs[j].kind # "idle" \/ jobs'[j].kind # "idle" => jobs'[j] = jobs[j]

\* An event that is handled alone.
LEMMA TidyEmits ==
  ASSUME Shapes, NEW e, NEW kind, NEW at, NEW f, Emits(e, kind, at, f), kind \notin Endpoints, tidy'
  PROVE  /\ tidy /\ f /\ Quiet /\ db' = db /\ log' = Append(log, e)
         /\ OneJob(Job(kind, at, e))
<1>1. tidy /\ subscribed /\ Quiet /\ f /\ db' = db /\ log' = Append(log, e)
  BY DEF Emits
<1>2. PICK j \in Jobs : jobs' = [jobs EXCEPT ![j] = Job(kind, at, e)]
  BY <1>1 DEF Emits
<1>3. JobMoves(j, Job(kind, at, e))
  BY <1>2, StartForm DEF Shapes
<1>4. OneJob(Job(kind, at, e))
  BY <1>1, <1>3 DEF OneJob, JobMoves, Quiet, Running
<1>5. QED
  BY <1>1, <1>4

\* An endpoint that starts alone.
LEMMA TidyCalls ==
  ASSUME Shapes, NEW e, NEW kind, NEW at, Calls(e, kind, at), e.name \notin TrackedEvents, tidy'
  PROVE  /\ tidy /\ Quiet /\ db' = db /\ log' = log
         /\ OneJob(Job(kind, at, e))
<1>1. tidy /\ Quiet /\ db' = db /\ log' = log
  BY DEF Calls
<1>2. PICK j \in Jobs : jobs' = [jobs EXCEPT ![j] = Job(kind, at, e)]
  BY DEF Calls
<1>3. JobMoves(j, Job(kind, at, e))
  BY <1>2, StartForm DEF Shapes
<1>4. OneJob(Job(kind, at, e))
  BY <1>1, <1>3 DEF OneJob, JobMoves, Quiet, Running
<1>5. QED
  BY <1>1, <1>4

\* The process starts or stops with no job on its way, or nothing happens.
LEMMA TidyUnmoved ==
  ASSUME Shapes, onModuleInit \/ Crash \/ UNCHANGED mirrorVars, tidy'
  PROVE  tidy /\ Unmoved
<1>1. CASE onModuleInit \/ UNCHANGED mirrorVars
  BY <1>1 DEF onModuleInit, mirrorVars, Unmoved
<1>2. CASE Crash
  <2>1. tidy /\ Quiet /\ db' = db /\ log' = log
    BY <1>2 DEF Crash
  <2>2. \A j \in Jobs : jobs[j].kind = "idle" /\ jobs'[j].kind = "idle"
    BY <1>2, <2>1 DEF Crash, Quiet, Running, Idle
  <2>3. QED
    BY <2>1, <2>2 DEF Unmoved
<1>3. QED
  BY <1>1, <1>2

\* A job that goes on to its next await, and one that ends with or without a write.
LEMMA TidyReads ==
  ASSUME Shapes, NEW j \in Jobs, jobs[j].kind # "idle", NEW at, NEW found, Reads(j, at, found)
  PROVE  /\ db' = db /\ log' = log /\ tidy' = tidy
         /\ JobMoves(j, [kind |-> jobs[j].kind, at |-> at, ev |-> jobs[j].ev, found |-> found])
BY GotoForm DEF Shapes, Reads

\* A job that ends without a write.
LEMMA TidyEnds ==
  ASSUME Shapes, NEW j \in Jobs, Ends(j)
  PROVE  db' = db /\ log' = log /\ tidy' = tidy /\ JobMoves(j, Idle)
BY FinishForm DEF Shapes, Ends

\* A job whose last step writes a table.
LEMMA TidyWrites ==
  ASSUME Shapes, NEW j \in Jobs, NEW t \in TableNames, NEW table, Writes(j, t, table)
  PROVE  /\ log' = log /\ tidy' = tidy /\ JobMoves(j, Idle)
         /\ db' = [s \in TableNames |-> IF s = t THEN table ELSE db[s]]
BY FinishForm, WritesForm DEF Shapes, Writes

\* The transaction of an endpoint that is alone: it has no effect, or the endpoint goes on
\* beside at most one handler of its event.
TransactionDone(c, h, at, next) ==
  /\ log' = Append(log, jobs[c].ev)
  /\ jobs'[c] = [kind |-> jobs[c].kind, at |-> next, ev |-> jobs[c].ev, found |-> jobs[c].found]
  /\ \A k \in Jobs \ {c} : jobs'[k].kind = "idle" \/ jobs'[k] = Job(h, at, jobs[c].ev)

\* What a tidy transaction does.
LEMMA TidyTransacts ==
  ASSUME Shapes, Alone, NEW c \in Jobs, NEW h, NEW at, NEW next, Transacts(c, h, at, next),
         jobs[c].kind # "idle", jobs[c].at = "tx", tidy'
  PROVE  /\ tidy /\ db' = db
         /\ \/ log' = log /\ JobMoves(c, Idle)
            \/ TransactionDone(c, h, at, next)
<1>1. CASE Ends(c)
  BY <1>1, TidyEnds
<1>2. ASSUME log' = Append(log, jobs[c].ev), db' = db, NEW threw \in BOOLEAN, NEW rest,
             rest = IF threw THEN [jobs EXCEPT ![c] = Idle] ELSE [jobs EXCEPT ![c].at = next],
             \/ jobs' = rest
             \/ \E j \in Jobs : ~Running(j) /\ jobs' = [rest EXCEPT ![j] = Job(h, at, jobs[c].ev)],
             tidy' = (tidy /\ ~threw)
      PROVE  tidy /\ db' = db /\ TransactionDone(c, h, at, next)
  <2> DEFINE q == [kind |-> jobs[c].kind, at |-> next, ev |-> jobs[c].ev, found |-> jobs[c].found]
             r == Job(h, at, jobs[c].ev)
  <2>1. tidy /\ ~threw /\ rest = [jobs EXCEPT ![c].at = next]
    BY <1>2
  <2>2. IsJob(jobs[c]) /\ jobs = [k \in Jobs |-> jobs[k]]
    BY DEF Shapes, JobShapes, Idle
  <2>3. [jobs[c] EXCEPT !.at = next] = q
    BY <2>2 DEF IsJob
  <2>4. rest = [k \in Jobs |-> IF k = c THEN q ELSE jobs[k]]
    <3>1. rest = [jobs EXCEPT ![c] = [jobs[c] EXCEPT !.at = next]]
      BY <2>1, <2>2
    <3>2. rest = [jobs EXCEPT ![c] = q]
      BY <2>3, <3>1
    <3> HIDE DEF q
    <3>3. QED
      BY <2>2, <3>2
  <2>5. \A k \in Jobs \ {c} : jobs[k].kind = "idle"
    BY DEF Alone, Running
  <2> HIDE DEF q, r
  <2>6. jobs'[c] = q /\ \A k \in Jobs \ {c} : jobs'[k] = jobs[k] \/ jobs'[k] = r
    <3>1. CASE jobs' = rest
      BY <2>4, <3>1
    <3>2. CASE \E j \in Jobs : ~Running(j) /\ jobs' = [rest EXCEPT ![j] = r]
      BY <2>4, <3>2 DEF Running
    <3>3. QED
      BY <1>2, <3>1, <3>2 DEF r
  <2>7. QED
    BY <1>2, <2>1, <2>5, <2>6 DEF TransactionDone, q, r
<1>3. QED
  BY <1>1, <1>2 DEF Transacts

\* A query that is rejected is never tidy.
LEMMA TidyFails == ASSUME NEW j \in Jobs, QueryFails(j), tidy' PROVE FALSE
BY DEF QueryFails

-----------------------------------------------------------------------------
\* After each of these steps, who is alone.
LEMMA AloneOne == ASSUME NEW q, OneJob(q) PROVE Alone'
BY DEF OneJob, Alone, Running

\* Nothing moves.
LEMMA AloneUnmoved == ASSUME Alone, Unmoved PROVE Alone'
BY DEF Alone, Unmoved, Running

\* A job ends.
LEMMA AloneEnds == ASSUME Alone, NEW j \in Jobs, JobMoves(j, Idle) PROVE Alone'
BY DEF Alone, JobMoves, Running, Idle

\* A job goes on; no job goes on to its transaction.
LEMMA AloneGoes ==
  ASSUME Alone, NEW j \in Jobs, jobs[j].kind # "idle", NEW at, at # "tx", NEW found,
         JobMoves(j, [kind |-> jobs[j].kind, at |-> at, ev |-> jobs[j].ev, found |-> found])
  PROVE  Alone'
BY DEF Alone, JobMoves, Running

\* An endpoint and the handler of its event are beside each other.
LEMMA AloneTransacts ==
  ASSUME Alone, NEW c \in Jobs, jobs[c].kind \in Beside, NEW h \in Beside, NEW at, at # "tx",
         NEW next, next # "tx", TransactionDone(c, h, at, next)
  PROVE  Alone'
BY DEF Alone, TransactionDone, Running, Job

-----------------------------------------------------------------------------
\* What the contract holds after an event.
LEMMA DeltaSumSame ==
  ASSUME NEW lg, NEW lh, NEW S, \A x \in S : lh[x] = lg[x]
  PROVE  DeltaSum(lh, S) = DeltaSum(lg, S)
<1>1. [x \in S |-> Vault!Delta(lh[x])] = [x \in S |-> Vault!Delta(lg[x])]
  OBVIOUS
<1>2. QED
  BY <1>1 DEF DeltaSum

\* One position more is one summand more.
LEMMA DeltaSumAdd ==
  ASSUME NEW lg, NEW lh, NEW S, IsFiniteSet(S), NEW n, n \notin S,
         \A x \in S : Vault!Delta(lg[x]) \in Int /\ lh[x] = lg[x],
         Vault!Delta(lh[n]) \in Int
  PROVE  DeltaSum(lh, S \union {n}) = DeltaSum(lg, S) + Vault!Delta(lh[n])
<1> DEFINE f == [x \in S |-> Vault!Delta(lg[x])]
           g == [x \in S \union {n} |-> Vault!Delta(lh[x])]
<1>1. DOMAIN f = S /\ DOMAIN g = S \union {n}
  OBVIOUS
<1>2. /\ \A x \in S : f[x] \in Int /\ f[x] = g[x]
      /\ g[n] \in Int /\ g[n] = Vault!Delta(lh[n])
  OBVIOUS
<1>3. DeltaSum(lg, S) = SumFunction(f) /\ DeltaSum(lh, S \union {n}) = SumFunction(g)
  BY DEF DeltaSum
<1> HIDE DEF f, g
<1>4. SumFunctionOnSet(g, S \union {n}) = SumFunctionOnSet(f, S) + g[n]
  BY ONLY <1>2, IsFiniteSet(S), n \notin S, SumAdd
<1>5. QED
  BY <1>1, <1>2, <1>3, <1>4 DEF SumFunction

\* A sum of moves is an integer, and of none it is 0.
LEMMA DeltaSumInt ==
  ASSUME NEW lg, NEW S, IsFiniteSet(S), \A x \in S : Vault!Delta(lg[x]) \in Int
  PROVE  DeltaSum(lg, S) \in Int /\ (S = {} => DeltaSum(lg, S) = 0)
<1> DEFINE f == [x \in S |-> Vault!Delta(lg[x])]
<1>1. DOMAIN f = S /\ \A x \in S : f[x] \in Int
  OBVIOUS
<1>2. DeltaSum(lg, S) = SumFunction(f)
  BY DEF DeltaSum
<1> HIDE DEF f
<1>3. SumFunctionOnSet(f, S) \in Int
  BY <1>1, SumInt
<1>4. S = {} => SumFunctionOnSet(f, S) = 0
  BY SumEmpty
<1>5. QED
  BY <1>1, <1>2, <1>3, <1>4 DEF SumFunction

\* Balances and supplies are integers, and without a movement they are 0.
LEMMA HeldInt ==
  ASSUME Shapes
  PROVE  /\ \A u, p : Held(u, p) \in Int
         /\ \A p : Total(p) \in Int
         /\ \A p : Vault!PoolEvents(p) = {} => Total(p) = 0 /\ \A u : Held(u, p) = 0
<1>1. /\ \A u, p : Vault!UserEvents(u, p) \in SUBSET Vault!PoolEvents(p)
      /\ \A p : IsFiniteSet(Vault!PoolEvents(p))
      /\ \A p : \A i \in Vault!PoolEvents(p) : Vault!Delta(log[i]) \in Int
  BY DeltasInt
<1>2. \A u, p : IsFiniteSet(Vault!UserEvents(u, p))
  BY <1>1, FS_Subset
<1>3. \A u, p : Held(u, p) \in Int /\ (Vault!UserEvents(u, p) = {} => Held(u, p) = 0)
  BY <1>1, <1>2, DeltaSumInt DEF Held
<1>4. \A p : Total(p) \in Int /\ (Vault!PoolEvents(p) = {} => Total(p) = 0)
  BY <1>1, DeltaSumInt DEF Total
<1>5. QED
  BY <1>1, <1>3, <1>4

\* The log stays.
LEMMA HeldSame ==
  ASSUME log' = log
  PROVE  (\A u, p : Held(u, p)' = Held(u, p)) /\ (\A p : Total(p)' = Total(p))
<1>1. /\ \A p : Vault!PoolEvents(p)' = Vault!PoolEvents(p)
      /\ \A u, p : Vault!UserEvents(u, p)' = Vault!UserEvents(u, p)
  BY DEF Vault!PoolEvents, Vault!UserEvents
<1>2. QED
  BY <1>1 DEF Held, Total

\* An event that moves nothing.
LEMMA HeldQuiet ==
  ASSUME Shapes, NEW e, ~Vault!Moves(e), log' = Append(log, e)
  PROVE  (\A u, p : Held(u, p)' = Held(u, p)) /\ (\A p : Total(p)' = Total(p))
<1>3. PICK S : log \in Seq(S)
  BY DEF Shapes, LogShape
<1>4. /\ DOMAIN log = 1..Len(log) /\ Len(log) \in Nat
      /\ DOMAIN log' = DOMAIN log \union {Len(log) + 1}
      /\ log'[Len(log) + 1] = e /\ \A i \in DOMAIN log : log'[i] = log[i]
  <2>1. log \in Seq(S \union {e})
    <3>1. S \subseteq S \union {e}
      OBVIOUS
    <3>2. QED
      BY <1>3, <3>1
  <2>2. QED
    BY <2>1
<1>5. /\ \A p : Vault!PoolEvents(p)' = Vault!PoolEvents(p)
      /\ \A u, p : Vault!UserEvents(u, p)' = Vault!UserEvents(u, p)
  BY <1>4 DEF Vault!PoolEvents, Vault!UserEvents
<1>6. \A p : \A i \in Vault!PoolEvents(p) : log'[i] = log[i]
  BY <1>4 DEF Vault!PoolEvents
<1>7. ASSUME NEW p, NEW E, E \subseteq Vault!PoolEvents(p)
      PROVE  DeltaSum(log', E) = DeltaSum(log, E)
  <2>1. \A i \in E : log'[i] = log[i]
    BY <1>6, <1>7
  <2>2. QED
    BY <2>1, DeltaSumSame
<1>8. \A u, p : Vault!UserEvents(u, p) \subseteq Vault!PoolEvents(p)
  BY DEF Vault!UserEvents
<1>9. QED
  BY <1>5, <1>7, <1>8 DEF Held, Total

\* A deposit or a withdrawal adds its move to its user and its pool, and to no other.
LEMMA HeldMoves ==
  ASSUME Shapes, NEW e, Vault!Moves(e), e.amount \in Nat, log' = Append(log, e)
  PROVE  /\ \A u, p : Held(u, p)' =
              IF p = e.pool /\ u = e.user THEN Held(u, p) + Vault!Delta(e) ELSE Held(u, p)
         /\ \A p : Total(p)' = IF p = e.pool THEN Total(p) + Vault!Delta(e) ELSE Total(p)
<1>1. Sound(e) /\ Vault!Delta(e) \in Int
  BY DEF Sound, Vault!Delta
<1>2. PICK n \in Nat :
        /\ n \notin DOMAIN log /\ DOMAIN log' = DOMAIN log \union {n} /\ log'[n] = e
        /\ \A i \in DOMAIN log : log'[i] = log[i]
  <2>1. Len(log) + 1 \in Nat
    BY <1>1, LogAppended DEF Shapes
  <2>2. QED
    BY <1>1, <2>1, LogAppended DEF Shapes, LogKept
<1>3. /\ \A u, p : Vault!UserEvents(u, p) \in SUBSET Vault!PoolEvents(p)
      /\ \A p : IsFiniteSet(Vault!PoolEvents(p))
      /\ \A p : \A i \in Vault!PoolEvents(p) : Vault!Delta(log[i]) \in Int
      /\ \A u, p : IsFiniteSet(Vault!UserEvents(u, p))
  BY DeltasInt, FS_Subset
<1>4. \A p : Vault!PoolEvents(p) \subseteq DOMAIN log
  BY DEF Vault!PoolEvents
<1>5. /\ \A p : Vault!PoolEvents(p)' =
           IF p = e.pool THEN Vault!PoolEvents(p) \union {n} ELSE Vault!PoolEvents(p)
      /\ \A u, p : Vault!UserEvents(u, p)' =
           IF p = e.pool /\ u = e.user THEN Vault!UserEvents(u, p) \union {n} ELSE Vault!UserEvents(u, p)
  BY <1>2 DEF Vault!PoolEvents, Vault!UserEvents
<1>6. ASSUME NEW E, NEW p, E \in SUBSET Vault!PoolEvents(p), IsFiniteSet(E)
      PROVE  /\ DeltaSum(log', E) = DeltaSum(log, E)
             /\ DeltaSum(log', E \union {n}) = DeltaSum(log, E) + Vault!Delta(e)
  <2>1. n \notin E /\ \A x \in E : Vault!Delta(log[x]) \in Int /\ log'[x] = log[x]
    BY <1>2, <1>3, <1>4, <1>6
  <2>2. DeltaSum(log', E) = DeltaSum(log, E)
    BY <2>1, DeltaSumSame
  <2>3. DeltaSum(log', E \union {n}) = DeltaSum(log, E) + Vault!Delta(log'[n])
    <3>1. Vault!Delta(log'[n]) \in Int /\ IsFiniteSet(E)
      BY <1>1, <1>2, <1>6
    <3>2. QED
      BY ONLY <2>1, <3>1, DeltaSumAdd
  <2>4. QED
    BY <1>2, <2>2, <2>3
<1>7. \A p : Total(p)' = IF p = e.pool THEN Total(p) + Vault!Delta(e) ELSE Total(p)
  BY <1>3, <1>5, <1>6 DEF Total
<1>8. ASSUME NEW u, NEW p
      PROVE  Held(u, p)' = IF p = e.pool /\ u = e.user THEN Held(u, p) + Vault!Delta(e) ELSE Held(u, p)
  <2>1. Vault!UserEvents(u, p) \in SUBSET Vault!PoolEvents(p) /\ IsFiniteSet(Vault!UserEvents(u, p))
    BY <1>3
  <2>2. QED
    BY <1>5, <1>6, <2>1 DEF Held
<1>9. QED
  BY <1>7, <1>8

\* The service reads these sums from the contract.
LEMMA HeldIsRead ==
  /\ \A u, p : Vault!getBalance(u, p) = Held(u, p)
  /\ \A p : Vault!getTotalSupply(p) = Total(p)
BY Zenon DEF Vault!getBalance, Vault!getTotalSupply, Vault!Deltas, Held, Total, DeltaSum,
   SumFunction, SumFunctionOnSet, FoldFunctionOnSet, MapThenFoldSet, Vault!SumFunction,
   Vault!SumFunctionOnSet, Vault!FoldFunctionOnSet, Vault!MapThenFoldSet

-----------------------------------------------------------------------------
\* The vault's tables when every event is handled alone.  A handler that is on its way
\* is the only one, and owes its event to one balance and one supply.
MoverOwes(j) ==
  LET e == jobs[j].ev IN
  /\ \A p, u : BalanceOf(p, u) =
       IF p = e.pool /\ u = e.user /\ jobs[j].at \in {"findBalance", "saveBalance"}
         THEN Held(u, p) - Vault!Delta(e) ELSE Held(u, p)
  /\ \A p : SupplyOf(p) = IF p = e.pool THEN Total(p) - Vault!Delta(e) ELSE Total(p)
Settled == (\A p, u : BalanceOf(p, u) = Held(u, p)) /\ (\A p : SupplyOf(p) = Total(p))

\* What a handler's event is.
LEMMA MoverEvent ==
  ASSUME MirrorInv, NEW j \in Jobs, jobs[j].kind \in MoveKinds
  PROVE  /\ Vault!Moves(jobs[j].ev) /\ jobs[j].ev.amount \in Nat
         /\ Vault!Delta(jobs[j].ev) \in Int
<1>1. PICK ix \in [Jobs -> Nat] : VaultInv(ix)
  BY DEF MirrorInv, VaultCounted
<1>2. Vault!Moves(jobs[j].ev) /\ ix[j] \in DOMAIN log /\ log[ix[j]] = jobs[j].ev
  BY <1>1 DEF VaultInv, Numbered
<1>3. jobs[j].ev.amount \in Nat
  BY <1>2 DEF MirrorInv, Shapes, LogShape, Sound, Vault!Moves
<1>4. QED
  BY <1>2, <1>3 DEF Vault!Delta

\* Nobody moves: all is settled.
LEMMA SettledNow ==
  ASSUME VaultSerial, \A j \in Jobs : jobs[j].kind \notin MoveKinds
  PROVE  Settled
BY DEF VaultSerial, BalancesOwed, SuppliesOwed, OwesBalance, OwesSupply, Settled

\* One handler moves: what it owes is all that is owed.
LEMMA OwedNow ==
  ASSUME VaultSerial, Alone, NEW j \in Jobs, jobs[j].kind \in MoveKinds
  PROVE  MoverOwes(j) /\ \A k \in Jobs \ {j} : jobs[k].kind = "idle"
<1>1. \A k \in Jobs \ {j} : jobs[k].kind = "idle"
  BY DEF Alone, Running, MoveKinds, Beside
<1>2. \A k \in Jobs \ {j} : jobs[k].kind \notin MoveKinds
  BY <1>1 DEF MoveKinds
<1>3. \A p, u : BalanceOf(p, u) =
        IF p = jobs[j].ev.pool /\ u = jobs[j].ev.user /\ jobs[j].at \in {"findBalance", "saveBalance"}
          THEN Held(u, p) - Vault!Delta(jobs[j].ev) ELSE Held(u, p)
  <2> SUFFICES ASSUME NEW p, NEW u
               PROVE  BalanceOf(p, u) =
                        IF OwesBalance(j, p, u) THEN Held(u, p) - Vault!Delta(jobs[j].ev)
                                                ELSE Held(u, p)
    BY DEF OwesBalance, OwesSupply
  <2>1. \A k \in Jobs \ {j} : ~OwesBalance(k, p, u)
    BY <1>2 DEF OwesBalance, OwesSupply
  <2>2. QED
    BY <2>1 DEF VaultSerial, BalancesOwed
<1>4. ASSUME NEW p
      PROVE  SupplyOf(p) = IF p = jobs[j].ev.pool THEN Total(p) - Vault!Delta(jobs[j].ev) ELSE Total(p)
  <2>1. \A k \in Jobs \ {j} : ~OwesSupply(k, p)
    BY <1>2 DEF OwesSupply
  <2>2. OwesSupply(j, p) <=> p = jobs[j].ev.pool
    BY DEF OwesSupply
  <2>3. QED
    BY <2>1, <2>2 DEF VaultSerial, SuppliesOwed
<1>5. QED
  BY <1>1, <1>3, <1>4 DEF MoverOwes

\* After a step nobody moves, and all is settled.
LEMMA SettledNext ==
  ASSUME \A j \in Jobs : jobs'[j].kind \notin MoveKinds, Settled', RowsHavePools', NoDebts',
         \A j \in Jobs : jobs'[j].kind \in {"addVaultPool", "onVaultPoolAdded"} =>
           \A i \in DOMAIN log' : Vault!Moves(log'[i]) => log'[i].pool # jobs'[j].ev.pool
  PROVE  VaultSerial'
<1>1. CopiesFresh'
  BY DEF CopiesFresh, MoveKinds
<1>2. BalancesOwed' /\ SuppliesOwed'
  BY DEF Settled, BalancesOwed, SuppliesOwed, OwesBalance, OwesSupply
<1>3. QED
  BY <1>1, <1>2 DEF VaultSerial

\* After a step one handler moves, and owes what it did.
LEMMA OwedNext ==
  ASSUME NEW j \in Jobs, jobs'[j].kind \in MoveKinds, \A k \in Jobs \ {j} : jobs'[k].kind = "idle",
         MoverOwes(j)', RowsHavePools', NoDebts',
         jobs'[j].kind = "onWithdrawal" => jobs'[j].ev.name = "Withdrawal",
         jobs'[j].at = "saveBalance" =>
           jobs'[j].found = FindOne(db.balances, <<jobs[j].ev.pool, jobs[j].ev.user>>)',
         jobs'[j].at = "savePool" =>
           HasPool(jobs[j].ev.pool)' /\ jobs'[j].found = FindOne(db.pools, jobs[j].ev.pool)'
  PROVE  VaultSerial'
<1>1. \A k \in Jobs \ {j} : jobs'[k].kind \notin MoveKinds \union {"addVaultPool", "onVaultPoolAdded"}
  BY DEF MoveKinds
<1>2. jobs'[j].kind \notin {"addVaultPool", "onVaultPoolAdded"}
  BY DEF MoveKinds
<1>3. CopiesFresh'
  BY <1>1, <1>2 DEF CopiesFresh, MoveKinds
<1>4. BalancesOwed'
  <2>1. ASSUME NEW k \in Jobs, NEW p, NEW u, OwesBalance(k, p, u)'
        PROVE  k = j /\ BalanceOf(p, u)' = Held(u, p)' - Vault!Delta(jobs'[k].ev)
    BY <1>1, <2>1 DEF OwesBalance, OwesSupply, MoverOwes
  <2>2. ASSUME NEW p, NEW u, ~OwesBalance(j, p, u)' PROVE BalanceOf(p, u)' = Held(u, p)'
    BY <2>2 DEF OwesBalance, OwesSupply, MoverOwes
  <2>3. QED
    BY <2>1, <2>2 DEF BalancesOwed
<1>5. SuppliesOwed'
  <2>1. ASSUME NEW k \in Jobs, NEW p, OwesSupply(k, p)'
        PROVE  k = j /\ SupplyOf(p)' = Total(p)' - Vault!Delta(jobs'[k].ev)
    BY <1>1, <2>1 DEF OwesSupply, MoverOwes
  <2>2. ASSUME NEW p, ~OwesSupply(j, p)' PROVE SupplyOf(p)' = Total(p)'
    BY <2>2 DEF OwesSupply, MoverOwes
  <2>3. QED
    BY <2>1, <2>2 DEF SuppliesOwed
<1>6. QED
  BY <1>3, <1>4, <1>5 DEF VaultSerial

\* What a step leaves that writes neither table and moves nothing.
LEMMA RowsStay ==
  ASSUME RowsHavePools, NoDebts, db'.balances = db.balances, db'.pools = db.pools,
         \A u, p : Held(u, p)' = Held(u, p), \A p : Total(p)' = Total(p)
  PROVE  /\ RowsHavePools' /\ NoDebts'
         /\ \A p, u : BalanceOf(p, u)' = BalanceOf(p, u)
         /\ \A p : SupplyOf(p)' = SupplyOf(p)
BY DEF RowsHavePools, NoDebts, BalanceOf, SupplyOf

\* No job of the vault starts, ends or goes on.
LEMMA VaultUnmoved == ASSUME VaultSerial, Unmoved PROVE VaultSerial'
<1>1. db' = db /\ log' = log
  BY DEF Unmoved
<1>2. /\ RowsHavePools' /\ NoDebts'
      /\ \A p, u : BalanceOf(p, u)' = BalanceOf(p, u) /\ Held(u, p)' = Held(u, p)
      /\ \A p : SupplyOf(p)' = SupplyOf(p) /\ Total(p)' = Total(p)
  BY <1>1, HeldSame, RowsStay DEF VaultSerial
<1>3. \A j \in Jobs : jobs[j].kind # "idle" \/ jobs'[j].kind # "idle" => jobs'[j] = jobs[j]
  BY DEF Unmoved
<1>4. /\ \A j \in Jobs : \A p, u : OwesBalance(j, p, u)' <=> OwesBalance(j, p, u)
      /\ \A j \in Jobs : \A p : OwesSupply(j, p)' <=> OwesSupply(j, p)
      /\ \A j \in Jobs : \A p : OwesSupply(j, p) => jobs'[j].ev = jobs[j].ev
  BY <1>3 DEF OwesBalance, OwesSupply, MoveKinds
<1>5. \A j \in Jobs : \A p, u : OwesBalance(j, p, u) => OwesSupply(j, p)
  BY DEF OwesBalance
<1>6. BalancesOwed' /\ SuppliesOwed'
  BY <1>2, <1>4, <1>5 DEF VaultSerial, BalancesOwed, SuppliesOwed
<1>7. CopiesFresh'
  BY <1>1, <1>3 DEF VaultSerial, CopiesFresh, MoveKinds, FindOne, HasPool
<1>8. QED
  BY <1>2, <1>6, <1>7 DEF VaultSerial

\* A deposit, of a pool that has a row, or a withdrawal, of no more than is held, comes
\* to a service at rest.
LEMMA MoverStarts ==
  ASSUME MirrorInv, VaultSerial, NEW kind \in MoveKinds, NEW f, NEW e,
         Emits(e, kind, "findBalance", f), tidy', kind = "onWithdrawal" => e.name = "Withdrawal",
         Vault!Moves(e), e.amount \in Nat,
         e.name = "Deposit" => HasPool(e.pool),
         e.name = "Withdrawal" => Held(e.user, e.pool) >= e.amount
  PROVE  tidy /\ Alone' /\ VaultSerial'
<1>1. Shapes /\ kind \notin Endpoints
  BY DEF MirrorInv, MoveKinds, Endpoints
<1>2. tidy /\ Quiet /\ db' = db /\ log' = Append(log, e) /\ OneJob(Job(kind, "findBalance", e))
  BY <1>1, TidyEmits
<1>3. PICK j \in Jobs : /\ jobs'[j] = Job(kind, "findBalance", e)
                        /\ \A k \in Jobs \ {j} : jobs'[k].kind = "idle"
  BY <1>2 DEF OneJob
<1>4. jobs'[j].kind = kind /\ jobs'[j].at = "findBalance" /\ jobs'[j].ev = e
  BY <1>3 DEF Job
<1>5. Settled /\ RowsHavePools /\ NoDebts
  BY <1>2, SettledNow DEF VaultSerial, Quiet, Running, MoveKinds
<1>6. /\ \A u, p : Held(u, p)' =
           IF p = e.pool /\ u = e.user THEN Held(u, p) + Vault!Delta(e) ELSE Held(u, p)
      /\ \A p : Total(p)' = IF p = e.pool THEN Total(p) + Vault!Delta(e) ELSE Total(p)
  BY <1>1, <1>2, HeldMoves
<1>7. /\ \A u, p : Held(u, p) \in Int
      /\ \A p : Total(p) \in Int
  BY <1>1, HeldInt
<1>8. /\ e.name = "Deposit" \/ e.name = "Withdrawal"
      /\ e.name = "Deposit" => Vault!Delta(e) = e.amount
      /\ e.name = "Withdrawal" => Vault!Delta(e) = -e.amount
      /\ Vault!Delta(e) \in Int
  BY DEF Vault!Moves, Vault!Delta
<1>9. \A u, p : Held(u, p)' >= 0
  <2>1. \A u, p : Held(u, p) >= 0
    BY <1>5 DEF NoDebts
  <2>2. Held(e.user, e.pool) + Vault!Delta(e) >= 0
    BY <1>7, <1>8, <2>1
  <2>3. QED
    BY <1>6, <2>1, <2>2
<1>10. e.pool \notin DOMAIN db.pools => Vault!Delta(e) = 0
  <2> SUFFICES ASSUME e.pool \notin DOMAIN db.pools PROVE Vault!Delta(e) = 0
    OBVIOUS
  <2>1. e.name = "Withdrawal"
    BY <1>8 DEF HasPool
  <2>2. Held(e.user, e.pool) = 0
    BY <1>5 DEF RowsHavePools
  <2>3. QED
    BY <1>8, <2>1, <2>2
<1>11. RowsHavePools' /\ NoDebts'
  BY <1>2, <1>5, <1>6, <1>9, <1>10 DEF RowsHavePools, NoDebts
<1>12. /\ \A p, u : BalanceOf(p, u)' = Held(u, p)
       /\ \A p : SupplyOf(p)' = Total(p)
  BY <1>2, <1>5 DEF Settled, BalanceOf, SupplyOf
<1>13. MoverOwes(j)'
  <2>1. ASSUME NEW p, NEW u
        PROVE  BalanceOf(p, u)' = IF p = e.pool /\ u = e.user
                 THEN Held(u, p)' - Vault!Delta(e) ELSE Held(u, p)'
    <3>1. Held(u, p) \in Int
      BY <1>7
    <3>2. QED
      BY <1>6, <1>8, <1>12, <3>1
  <2>2. ASSUME NEW p
        PROVE  SupplyOf(p)' = IF p = e.pool THEN Total(p)' - Vault!Delta(e) ELSE Total(p)'
    <3>1. Total(p) \in Int
      BY <1>7
    <3>2. QED
      BY <1>6, <1>8, <1>12, <3>1
  <2>3. QED
    BY <1>4, <2>1, <2>2 DEF MoverOwes
<1>14. VaultSerial'
  BY <1>3, <1>4, <1>11, <1>13, OwedNext
<1>15. QED
  BY <1>2, <1>14, AloneOne

\* The calls of the vault's clients.
LEMMA VaultCallSerial ==
  ASSUME MirrorInv, VaultSerial, NEW u, NEW p, NEW a \in Amounts, Calling(u, p, a), tidy'
  PROVE  tidy /\ Alone' /\ VaultSerial'
<1>1. a \in Nat
  BY MirrorAssumption
<1>2. ASSUME NEW f, Vault!deposit(u, p, a, f), f => HasPool(p)
      PROVE  tidy /\ Alone' /\ VaultSerial'
  <2> DEFINE e == Vault!Deposit(u, p, a)
  <2>1. Emits(e, "onDeposit", "findBalance", f)
    BY <1>2, VaultBase DEF Vault!deposit
  <2>2. /\ Vault!Moves(e) /\ e.amount = a /\ e.name = "Deposit"
        /\ e.pool = p
    BY DEF Vault!Moves, Vault!Deposit, Vault!VaultEvent
  <2> HIDE DEF e
  <2>3. f
    BY <2>1 DEF Emits
  <2>4. QED
    BY <1>1, <1>2, <2>1, <2>2, <2>3, MoverStarts DEF MoveKinds
<1>3. ASSUME NEW f, Vault!withdraw(u, p, a, f)
      PROVE  tidy /\ Alone' /\ VaultSerial'
  <2> DEFINE e == Vault!Withdrawal(u, p, a)
  <2>1. Emits(e, "onWithdrawal", "findBalance", f) /\ Held(u, p) >= a
    BY <1>3, VaultBase, HeldIsRead DEF Vault!withdraw
  <2>2. /\ Vault!Moves(e) /\ e.amount = a /\ e.name = "Withdrawal"
        /\ e.pool = p /\ e.user = u
    BY DEF Vault!Moves, Vault!Withdrawal, Vault!VaultEvent
  <2> HIDE DEF e
  <2>3. QED
    BY <1>1, <2>1, <2>2, MoverStarts DEF MoveKinds
<1>4. Vault!getPool(p) # <<>> => HasPool(p)
  BY DEF Vault!getPool, Vault!FindOne, HasPool
<1>5. Vault!HasPool(p) => HasPool(p)
  BY DEF Vault!HasPool, HasPool
<1>6. QED
  BY <1>2, <1>3, <1>4, <1>5
  DEF Calling, Vault!depositEndpoint, Vault!withdrawEndpoint, Vault!MovedElsewhere


\* The jobs that add a pool, which move nothing, and a pool that saw no movement.
AddKinds == {"addVaultPool", "onVaultPoolAdded"}
Untouched(p) == \A i \in DOMAIN log : Vault!Moves(log[i]) => log[i].pool # p

\* A step that moves nothing, with nobody who does before or after it.
LEMMA OthersSerial ==
  ASSUME Shapes, VaultSerial, \A j \in Jobs : jobs[j].kind \notin MoveKinds /\ jobs'[j].kind \notin MoveKinds,
         log' = log \/ \E e : ~Vault!Moves(e) /\ log' = Append(log, e),
         db'.balances = db.balances, DOMAIN db.pools \subseteq DOMAIN db'.pools,
         \A p : SupplyOf(p)' = SupplyOf(p),
         \A j \in Jobs : jobs'[j].kind \in AddKinds => Untouched(jobs'[j].ev.pool)
  PROVE  VaultSerial'
<1>1. Settled /\ RowsHavePools /\ NoDebts
  BY SettledNow DEF VaultSerial
<1>2. (\A u, p : Held(u, p)' = Held(u, p)) /\ (\A p : Total(p)' = Total(p))
  BY HeldSame, HeldQuiet
<1>3. \A p, u : BalanceOf(p, u)' = BalanceOf(p, u)
  BY DEF BalanceOf
<1>4. Settled'
  BY <1>1, <1>2, <1>3 DEF Settled
<1>5. RowsHavePools' /\ NoDebts'
  BY <1>1, <1>2 DEF RowsHavePools, NoDebts
<1>6. ASSUME NEW j \in Jobs, jobs'[j].kind \in AddKinds, NEW i \in DOMAIN log', Vault!Moves(log'[i])
      PROVE  log'[i].pool # jobs'[j].ev.pool
  <2>1. CASE log' = log
    BY <1>6, <2>1 DEF Untouched
  <2>2. ASSUME NEW e, ~Vault!Moves(e), log' = Append(log, e) PROVE log'[i].pool # jobs'[j].ev.pool
    <3>1. i \in DOMAIN log /\ log'[i] = log[i]
      <4>1. PICK S : log \in Seq(S)
        BY DEF Shapes, LogShape
      <4>2. log \in Seq(S \union {e})
        <5>1. S \subseteq S \union {e}
          OBVIOUS
        <5>2. QED
          BY <4>1, <5>1
      <4>3. i # Len(log) + 1
        BY <1>6, <2>2, <4>2
      <4>4. QED
        BY <1>6, <2>2, <4>2, <4>3
    <3>2. QED
      BY <1>6, <3>1 DEF Untouched
  <2>3. QED
    BY <2>1, <2>2
<1>7. QED
  BY <1>4, <1>5, <1>6, SettledNext DEF AddKinds

\* Beside a job that moves nothing nobody moves.
LEMMA NobodyMoves ==
  ASSUME Alone, NEW j \in Jobs, jobs[j].kind \notin MoveKinds \union {"idle"}
  PROVE  \A k \in Jobs : jobs[k].kind \notin MoveKinds
BY DEF Alone, Running, MoveKinds, Beside

\* A pool that saw no movement has no supply.
LEMMA UntouchedSupply ==
  ASSUME Shapes, Settled, NEW p, Untouched(p)
  PROVE  SupplyOf(p) = 0
<1>1. Vault!PoolEvents(p) = {}
  BY DEF Untouched, Vault!PoolEvents
<1>2. QED
  BY <1>1, HeldInt DEF Settled

\* A job that reads, or ends, and moves nothing.
LEMMA OtherGoes ==
  ASSUME Shapes, VaultSerial, Alone, NEW j \in Jobs, jobs[j].kind \notin MoveKinds \union {"idle"},
         db' = db, log' = log,
         \/ JobMoves(j, Idle)
         \/ \E at, found : JobMoves(j, [kind |-> jobs[j].kind, at |-> at, ev |-> jobs[j].ev, found |-> found])
  PROVE  VaultSerial'
<1>1. \A k \in Jobs : jobs[k].kind \notin MoveKinds
  BY NobodyMoves
<1>2. /\ jobs'[j].kind = "idle" \/ (jobs'[j].kind = jobs[j].kind /\ jobs'[j].ev = jobs[j].ev)
      /\ \A k \in Jobs \ {j} : jobs'[k] = jobs[k]
  <2>1. CASE JobMoves(j, Idle)
    BY <2>1 DEF JobMoves, Idle
  <2>2. ASSUME NEW at, NEW found,
               JobMoves(j, [kind |-> jobs[j].kind, at |-> at, ev |-> jobs[j].ev, found |-> found])
        PROVE  /\ jobs'[j].kind = jobs[j].kind /\ jobs'[j].ev = jobs[j].ev
               /\ \A k \in Jobs \ {j} : jobs'[k] = jobs[k]
    BY <2>2 DEF JobMoves
  <2>3. QED
    BY <2>1, <2>2
<1>3. \A k \in Jobs : jobs'[k].kind \notin MoveKinds
  <2>1. "idle" \notin MoveKinds
    BY DEF MoveKinds
  <2>2. QED
    BY ONLY <1>1, <1>2, <2>1, j \in Jobs
<1>4. \A k \in Jobs : jobs'[k].kind \in AddKinds => Untouched(jobs'[k].ev.pool)
  <2>1. \A k \in Jobs : jobs[k].kind \in AddKinds => Untouched(jobs[k].ev.pool)
    BY Zenon DEF VaultSerial, CopiesFresh, Untouched, AddKinds
  <2>2. "idle" \notin AddKinds
    BY DEF AddKinds
  <2>3. QED
    BY ONLY <1>2, <2>1, <2>2, j \in Jobs
<1>5. \A p : SupplyOf(p)' = SupplyOf(p)
  BY DEF SupplyOf
<1>6. QED
  BY <1>1, <1>3, <1>4, <1>5, OthersSerial

\* A job that writes the pools, keeps the supplies, and ends.
LEMMA OtherWritesPools ==
  ASSUME Shapes, VaultSerial, Alone, NEW j \in Jobs, jobs[j].kind \notin MoveKinds \union {"idle"},
         db'.balances = db.balances, DOMAIN db.pools \subseteq DOMAIN db'.pools,
         \A p : SupplyOf(p)' = SupplyOf(p), log' = log, JobMoves(j, Idle)
  PROVE  VaultSerial'
<1>1. \A k \in Jobs : jobs[k].kind \notin MoveKinds
  BY NobodyMoves
<1>2. jobs'[j].kind = "idle" /\ \A k \in Jobs \ {j} : jobs'[k] = jobs[k]
  BY DEF JobMoves, Idle
<1>3. \A k \in Jobs : jobs'[k].kind \notin MoveKinds
  BY <1>1, <1>2 DEF MoveKinds
<1>4. \A k \in Jobs : jobs'[k].kind \in AddKinds => Untouched(jobs'[k].ev.pool)
  BY <1>2 DEF VaultSerial, CopiesFresh, Untouched, AddKinds
<1>5. QED
  BY <1>1, <1>3, <1>4, OthersSerial

\* An event that moves nothing, or an endpoint, comes to a service at rest.
LEMMA OtherStarts ==
  ASSUME Shapes, VaultSerial, Quiet, db' = db,
         log' = log \/ \E e : ~Vault!Moves(e) /\ log' = Append(log, e),
         NEW kind, NEW at, NEW ev, kind \notin MoveKinds, kind \in AddKinds => Untouched(ev.pool),
         OneJob(Job(kind, at, ev))
  PROVE  VaultSerial'
<1>1. \A k \in Jobs : jobs[k].kind \notin MoveKinds
  BY DEF Quiet, Running, MoveKinds
<1>2. PICK j \in Jobs : jobs'[j] = Job(kind, at, ev) /\ \A k \in Jobs \ {j} : jobs'[k].kind = "idle"
  BY DEF OneJob
<1>3. jobs'[j].kind = kind /\ jobs'[j].ev = ev
  BY <1>2 DEF Job
<1>4. \A k \in Jobs : jobs'[k].kind \notin MoveKinds
  BY <1>2, <1>3 DEF MoveKinds
<1>5. \A k \in Jobs : jobs'[k].kind \in AddKinds => Untouched(jobs'[k].ev.pool)
  BY <1>2, <1>3 DEF AddKinds
<1>6. \A p : SupplyOf(p)' = SupplyOf(p)
  BY DEF SupplyOf
<1>7. QED
  BY <1>1, <1>4, <1>5, <1>6, OthersSerial

-----------------------------------------------------------------------------
\* PoolAdded, for the vault: the endpoint starts only for a pool no event speaks of.
LEMMA AddPoolCallSerial ==
  ASSUME Shapes, VaultSerial, NEW p, Vault!addPoolEndpoint(p), tidy'
  PROVE  tidy /\ Alone' /\ VaultSerial'
<1> DEFINE e == Vault!VaultEvent("PoolAdded", "admin", p, 0)
<1>1. Calls(e, "addVaultPool", "tx")
  BY VaultBase DEF Vault!addPoolEndpoint
<1>2. e.name \notin TrackedEvents /\ e.pool = p
  BY DEF Vault!VaultEvent, TrackedEvents
<1> HIDE DEF e
<1>3. tidy /\ Quiet /\ db' = db /\ log' = log /\ OneJob(Job("addVaultPool", "tx", e))
  BY <1>1, <1>2, TidyCalls
<1>4. Untouched(p)
  <2>1. DOMAIN log = 1..Len(log)
    <3>1. PICK S : log \in Seq(S)
      BY DEF Shapes, LogShape
    <3>2. QED
      BY <3>1
  <2>2. QED
    BY <2>1 DEF Untouched, Vault!addPoolEndpoint
<1>5. QED
  BY <1>2, <1>3, <1>4, OtherStarts, AloneOne DEF MoveKinds

\* Its second half, in the handler and in the endpoint.
LEMMA FindPoolSerial ==
  ASSUME Shapes, VaultSerial, Alone, NEW j \in Jobs, jobs[j].kind \in AddKinds, NEW p,
         Vault!FindPool(j, p)
  PROVE  tidy' = tidy /\ Alone' /\ VaultSerial'
<1>0. jobs[j].kind \notin MoveKinds \union {"idle"}
  BY DEF AddKinds, MoveKinds
<1>1. CASE Ends(j)
  BY <1>0, <1>1, TidyEnds, AloneEnds, OtherGoes
<1>2. CASE Reads(j, "savePool", <<>>)
  BY <1>0, <1>2, TidyReads, AloneGoes, OtherGoes
<1>3. QED
  BY <1>1, <1>2, VaultBase DEF Vault!FindPool

\* The save that comes too late sets a supply to 0 that is 0.
LEMMA SaveNewPoolSerial ==
  ASSUME Shapes, VaultSerial, Alone, NEW j \in Jobs, jobs[j].kind \in AddKinds,
         Vault!SaveNewPool(j, jobs[j].ev.pool)
  PROVE  tidy' = tidy /\ Alone' /\ VaultSerial'
<1>0. jobs[j].kind \notin MoveKinds \union {"idle"}
  BY DEF AddKinds, MoveKinds
<1>1. CASE Ends(j)
  BY <1>0, <1>1, TidyEnds, AloneEnds, OtherGoes
<1>2. PICK p : p = jobs[j].ev.pool
  OBVIOUS
<1>3. CASE p \in DOMAIN db.pools /\ Writes(j, "pools", [db.pools EXCEPT ![p].supply = 0])
  <2> DEFINE table == [db.pools EXCEPT ![p].supply = 0]
  <2>1. /\ PoolTable(table) /\ DOMAIN table = DOMAIN db.pools
        /\ table[p].supply = 0
        /\ \A q \in DOMAIN db.pools \ {p} : table[q] = db.pools[q]
    BY <1>3, SupplySet
  <2>2. Writes(j, "pools", table)
    BY <1>3
  <2> HIDE DEF table
  <2>3. db'.balances = db.balances /\ db'.pools = table
    BY <2>1, <2>2, PoolWrites
  <2>4. log' = log /\ tidy' = tidy /\ JobMoves(j, Idle)
    BY <2>2, TidyWrites DEF TableNames
  <2>5. Settled
    BY <1>0, NobodyMoves, SettledNow
  <2>6. SupplyOf(p) = 0
    BY <1>2, <2>5, UntouchedSupply DEF VaultSerial, CopiesFresh, Untouched, AddKinds
  <2>7. \A q : SupplyOf(q)' = SupplyOf(q)
    BY <1>3, <2>1, <2>3, <2>6 DEF SupplyOf
  <2>8. QED
    BY <1>0, <2>1, <2>3, <2>4, <2>7, AloneEnds, OtherWritesPools
<1>4. QED
  BY <1>1, <1>2, <1>3, VaultBase DEF Vault!SaveNewPool, Vault!HasPool

\* The transaction of the endpoint: the handler of its event starts beside it.
LEMMA AddPoolTransacts ==
  ASSUME Shapes, VaultSerial, Alone, NEW c \in Jobs, jobs[c].kind = "addVaultPool", jobs[c].at = "tx",
         Transacts(c, "onVaultPoolAdded", "findPool", "findPool"), tidy'
  PROVE  tidy /\ Alone' /\ VaultSerial'
<1>0. jobs[c].kind \notin MoveKinds \union {"idle"}
  BY DEF MoveKinds
<1>1. /\ tidy /\ db' = db
      /\ \/ log' = log /\ JobMoves(c, Idle)
         \/ TransactionDone(c, "onVaultPoolAdded", "findPool", "findPool")
  BY <1>0, TidyTransacts
<1>2. CASE log' = log /\ JobMoves(c, Idle)
  BY <1>0, <1>1, <1>2, AloneEnds, OtherGoes
<1>3. CASE TransactionDone(c, "onVaultPoolAdded", "findPool", "findPool")
  <2>1. Alone'
    BY <1>3, AloneTransacts DEF Beside
  <2>2. ~Vault!Moves(jobs[c].ev)
    BY DEF Shapes, JobShapes, Endpoints, TrackedEvents, Vault!Moves
  <2>3. \A k \in Jobs : \/ jobs'[k].kind = "idle"
                        \/ jobs'[k].kind \in AddKinds /\ jobs'[k].ev = jobs[c].ev
    BY <1>3 DEF TransactionDone, AddKinds, Job
  <2>4. Untouched(jobs[c].ev.pool)
    BY DEF VaultSerial, CopiesFresh, Untouched
  <2>5. \A k \in Jobs : jobs[k].kind \notin MoveKinds
    BY <1>0, NobodyMoves
  <2>6. \A p : SupplyOf(p)' = SupplyOf(p)
    BY <1>1 DEF SupplyOf
  <2>7. \A k \in Jobs : /\ jobs'[k].kind \notin MoveKinds
                        /\ jobs'[k].kind \in AddKinds => Untouched(jobs'[k].ev.pool)
    BY <2>3, <2>4 DEF AddKinds, MoveKinds
  <2>8. log' = Append(log, jobs[c].ev)
    BY <1>3 DEF TransactionDone
  <2>9. VaultSerial'
    BY <1>1, <2>2, <2>5, <2>6, <2>7, <2>8, OthersSerial
  <2>10. QED
    BY <1>1, <2>1, <2>9
<1>4. QED
  BY <1>1, <1>2, <1>3

-----------------------------------------------------------------------------
\* PoolAdded, for the registry, whose handler may add the vault's row: it keeps a supply
\* that is there.
LEMMA RegistryPoolSerial ==
  ASSUME Shapes, VaultSerial, Alone, NEW j \in Jobs, Strategy!onPoolAdded(j)
  PROVE  tidy' = tidy /\ Alone' /\ VaultSerial'
<1>1. PICK p : p = jobs[j].ev.pool
  OBVIOUS
<1>2. PICK row : row = [supply |-> SupplyOf(p), active |-> TRUE, min |-> 0, max |-> 0]
  OBVIOUS
<1>3. jobs[j].kind \notin MoveKinds \union {"idle"}
  BY DEF Strategy!onPoolAdded, Strategy!At, MoveKinds
<1>4. Writes(j, "pools", Strategy!Put(db.pools, p, row))
  <2>1. Strategy!Writes(j, "pools", Strategy!Put(db.pools, p, row))
    BY <1>1, <1>2, Zenon DEF Strategy!onPoolAdded, Strategy!HasPool, SupplyOf
  <2>2. QED
    BY <2>1, StrategyBase
<1>5. PICK table : table = Strategy!Put(db.pools, p, row)
  OBVIOUS
<1>6. /\ DOMAIN table = DOMAIN db.pools \union {p}
      /\ \A q \in DOMAIN table : table[q] = IF q = p THEN row ELSE db.pools[q]
  BY <1>5 DEF Strategy!Put
<1>7. log' = log /\ tidy' = tidy /\ JobMoves(j, Idle) /\ db'.pools = table /\ db'.balances = db.balances
  BY <1>4, <1>5, TidyWrites DEF TableNames
<1>8. \A q : SupplyOf(q)' = SupplyOf(q)
  <2> SUFFICES ASSUME NEW q PROVE SupplyOf(q)' = SupplyOf(q)
    OBVIOUS
  <2>1. CASE q = p
    <3>1. row.supply = SupplyOf(p)
      BY <1>2
    <3>2. q \in DOMAIN db'.pools /\ db'.pools[q] = row
      BY <1>6, <1>7, <2>1
    <3>3. QED
      BY <2>1, <3>1, <3>2 DEF SupplyOf
  <2>2. CASE q # p
    BY <1>6, <1>7, <2>2 DEF SupplyOf
  <2>3. QED
    BY <2>1, <2>2
<1>9. QED
  BY <1>3, <1>6, <1>7, <1>8, AloneEnds, OtherWritesPools

\* The registry's pool is added for the vault, without limits.
LEMMA RegistryPoolCallSerial ==
  ASSUME Shapes, VaultSerial, NEW p, Strategy!addPoolEndpoint(p, 0, 0), tidy'
  PROVE  tidy /\ Alone' /\ VaultSerial'
<1> DEFINE e == Strategy!RegistryEvent("RegistryPoolAdded", p, TRUE, 0, 0)
<1>1. Emits(e, "onRegistryPoolAdded", "save", 0 = 0 /\ 0 = 0)
  BY StrategyBase DEF Strategy!addPoolEndpoint, Strategy!addPool
<1>2. ~Vault!Moves(e)
  BY DEF Vault!Moves, Strategy!RegistryEvent
<1> HIDE DEF e
<1>3. /\ tidy /\ Quiet /\ db' = db /\ log' = Append(log, e)
      /\ OneJob(Job("onRegistryPoolAdded", "save", e))
  BY <1>1, TidyEmits DEF Endpoints
<1>4. QED
  BY <1>2, <1>3, OtherStarts, AloneOne DEF MoveKinds, AddKinds

-----------------------------------------------------------------------------
\* The handler of a deposit or a withdrawal.  It reads its own row, which is up to date,
\* since nobody writes beside it.
LEMMA MoverGoesSerial ==
  ASSUME MirrorInv, VaultSerial, Alone, NEW j \in Jobs, jobs[j].kind \in MoveKinds,
         jobs[j].at = "findBalance", NEW at, NEW found, Reads(j, at, found),
         \/ at = "saveBalance" /\ found = FindOne(db.balances, <<jobs[j].ev.pool, jobs[j].ev.user>>)
         \/ at = "findPool" /\ <<jobs[j].ev.pool, jobs[j].ev.user>> \notin DOMAIN db.balances
            /\ jobs[j].ev.name = "Withdrawal"
  PROVE  tidy' = tidy /\ Alone' /\ VaultSerial'
<1> DEFINE e == jobs[j].ev
           key == <<e.pool, e.user>>
<1>1. Shapes /\ jobs[j].kind # "idle" /\ at # "tx"
  BY DEF MirrorInv, MoveKinds
<1>2. /\ db' = db /\ log' = log /\ tidy' = tidy
      /\ JobMoves(j, [kind |-> jobs[j].kind, at |-> at, ev |-> jobs[j].ev, found |-> found])
  BY <1>1, TidyReads
<1>3. /\ jobs'[j].kind = jobs[j].kind /\ jobs'[j].at = at /\ jobs'[j].ev = e
      /\ jobs'[j].found = found /\ \A k \in Jobs \ {j} : jobs'[k] = jobs[k]
  BY <1>2 DEF JobMoves
<1>4. Alone'
  BY <1>1, <1>2, AloneGoes
<1>5. MoverOwes(j) /\ \A k \in Jobs \ {j} : jobs[k].kind = "idle"
  BY OwedNow
<1>6. /\ RowsHavePools' /\ NoDebts'
      /\ \A p, u : BalanceOf(p, u)' = BalanceOf(p, u) /\ Held(u, p)' = Held(u, p)
      /\ \A p : SupplyOf(p)' = SupplyOf(p) /\ Total(p)' = Total(p)
  BY <1>2, HeldSame, RowsStay DEF VaultSerial
<1>7. MoverOwes(j)'
  <2>1. CASE at = "saveBalance"
    BY <1>3, <1>5, <1>6, <2>1 DEF MoverOwes
  <2>2. CASE at = "findPool" /\ key \notin DOMAIN db.balances /\ e.name = "Withdrawal"
    <3>1. BalanceOf(e.pool, e.user) = 0
      BY <2>2 DEF BalanceOf
    <3>2. 0 = Held(e.user, e.pool) - Vault!Delta(e)
      BY <1>5, <3>1 DEF MoverOwes
    <3>3. Held(e.user, e.pool) \in Int /\ Held(e.user, e.pool) >= 0 /\ e.amount \in Nat
      BY <1>1, HeldInt, MoverEvent DEF VaultSerial, NoDebts
    <3>4. Vault!Delta(e) = -e.amount
      BY <2>2 DEF Vault!Delta
    <3>5. Held(e.user, e.pool) = 0
      BY <3>2, <3>3, <3>4
    <3>6. \A p, u : BalanceOf(p, u) = Held(u, p)
      BY <1>5, <3>1, <3>5 DEF MoverOwes
    <3>7. QED
      BY <1>3, <1>5, <1>6, <2>2, <3>6 DEF MoverOwes
  <2>3. QED
    BY <2>1, <2>2
<1>8. jobs'[j].at = "saveBalance" =>
        jobs'[j].found = FindOne(db.balances, <<jobs[j].ev.pool, jobs[j].ev.user>>)'
  BY <1>2, <1>3 DEF FindOne
<1>9. jobs'[j].at # "savePool" /\ jobs'[j].kind \in MoveKinds
  BY <1>3
<1>10. jobs'[j].kind = "onWithdrawal" => jobs'[j].ev.name = "Withdrawal"
  BY <1>3 DEF VaultSerial, CopiesFresh
<1>11. VaultSerial'
  BY <1>3, <1>5, <1>6, <1>7, <1>8, <1>9, <1>10, OwedNext
<1>12. QED
  BY <1>2, <1>4, <1>11

\* A handler that is done, with nothing owed.
LEMMA MoverDone ==
  ASSUME NEW j \in Jobs, JobMoves(j, Idle), \A k \in Jobs \ {j} : jobs[k].kind = "idle",
         Settled', RowsHavePools', NoDebts'
  PROVE  VaultSerial'
<1>1. \A k \in Jobs : jobs'[k].kind = "idle"
  BY DEF JobMoves, Idle
<1>2. \A k \in Jobs : jobs'[k].kind \notin MoveKinds \union {"addVaultPool", "onVaultPoolAdded"}
  BY <1>1 DEF MoveKinds
<1>3. QED
  BY <1>2, SettledNext

\* Without a row of the pool nothing of it was held, and the handler gives up.
LEMMA MoverGivesUp ==
  ASSUME MirrorInv, VaultSerial, Alone, NEW j \in Jobs, jobs[j].kind \in MoveKinds,
         jobs[j].ev.pool \notin DOMAIN db.pools, Ends(j)
  PROVE  tidy' = tidy /\ Alone' /\ VaultSerial'
<1> DEFINE e == jobs[j].ev
<1>1. db' = db /\ log' = log /\ tidy' = tidy /\ JobMoves(j, Idle)
  BY TidyEnds DEF MirrorInv
<1>2. MoverOwes(j) /\ \A k \in Jobs \ {j} : jobs[k].kind = "idle"
  BY OwedNow
<1>3. SupplyOf(e.pool) = 0 /\ Total(e.pool) = 0 /\ \A u : Held(u, e.pool) = 0
  BY DEF SupplyOf, VaultSerial, RowsHavePools
<1>4. \A u : BalanceOf(e.pool, u) = 0
  <2> SUFFICES ASSUME NEW u, <<e.pool, u>> \in DOMAIN db.balances PROVE FALSE
    BY DEF BalanceOf
  <2>1. <<e.pool, u>>[1] \in DOMAIN db.pools
    BY DEF VaultSerial, RowsHavePools
  <2>2. QED
    BY <2>1
<1>5. Settled
  BY <1>2, <1>3, <1>4 DEF MoverOwes, Settled
<1>6. /\ RowsHavePools' /\ NoDebts'
      /\ \A p, u : BalanceOf(p, u)' = BalanceOf(p, u) /\ Held(u, p)' = Held(u, p)
      /\ \A p : SupplyOf(p)' = SupplyOf(p) /\ Total(p)' = Total(p)
  BY <1>1, HeldSame, RowsStay DEF VaultSerial
<1>7. Settled'
  BY <1>5, <1>6 DEF Settled
<1>8. QED
  BY <1>1, <1>2, <1>6, <1>7, AloneEnds, MoverDone

\* The balance that the handler writes is the row's and its event's.
LEMMA MovedBalance ==
  ASSUME VaultSerial, NEW j \in Jobs, jobs[j].kind \in MoveKinds, jobs[j].at = "saveBalance"
  PROVE  Vault!Moved(j) = BalanceOf(jobs[j].ev.pool, jobs[j].ev.user) + Vault!Delta(jobs[j].ev)
<1> DEFINE key == <<jobs[j].ev.pool, jobs[j].ev.user>>
<1>1. jobs[j].found = FindOne(db.balances, key)
  BY DEF VaultSerial, CopiesFresh
<1>2. CASE key \in DOMAIN db.balances
  <2>1. jobs[j].found # <<>> /\ jobs[j].found[1] = db.balances[key]
    BY <1>1, <1>2 DEF FindOne
  <2>2. QED
    BY <1>2, <2>1 DEF Vault!Moved, BalanceOf
<1>3. CASE key \notin DOMAIN db.balances
  BY <1>1, <1>3 DEF FindOne, Vault!Moved, BalanceOf
<1>4. QED
  BY <1>2, <1>3

\* The balance is written; the supply is still owed.
LEMMA SaveBalanceSerial ==
  ASSUME MirrorInv, VaultSerial, Alone, NEW j \in Jobs, jobs[j].kind \in MoveKinds,
         jobs[j].at = "saveBalance", Vault!SaveBalance(j, <<jobs[j].ev.pool, jobs[j].ev.user>>)
  PROVE  tidy' = tidy /\ Alone' /\ VaultSerial'
<1> DEFINE e == jobs[j].ev
           key == <<e.pool, e.user>>
<1>1. CASE Vault!Ends(j) /\ e.pool \notin DOMAIN db.pools
  BY <1>1, VaultBase, MoverGivesUp
<1>2. CASE /\ e.pool \in DOMAIN db.pools
           /\ db' = [db EXCEPT !.balances = Vault!Put(@, key, [balance |-> Vault!Moved(j)])]
           /\ Vault!Goto(j, "findPool", <<>>)
           /\ log' = log /\ tidy' = tidy
  <2>0. Shapes /\ jobs[j].kind # "idle" /\ "findPool" # "tx"
    BY DEF MirrorInv, MoveKinds
  <2>1. JobMoves(j, [kind |-> jobs[j].kind, at |-> "findPool", ev |-> jobs[j].ev, found |-> <<>>])
    BY <1>2, <2>0, VaultBase, GotoForm DEF Shapes
  <2>2. /\ jobs'[j].kind = jobs[j].kind /\ jobs'[j].at = "findPool" /\ jobs'[j].ev = e
        /\ \A k \in Jobs \ {j} : jobs'[k] = jobs[k]
    BY <2>1 DEF JobMoves
  <2>3. /\ db'.balances = Vault!Put(db.balances, key, [balance |-> Vault!Moved(j)])
        /\ db'.pools = db.pools
    <3>1. db = [t \in TableNames |-> db[t]]
      BY <2>0 DEF Shapes, TableShapes
    <3>2. QED
      BY ONLY <1>2, <3>1 DEF TableNames
  <2>4. PICK row : row = [balance |-> Vault!Moved(j)]
    OBVIOUS
  <2>5. /\ DOMAIN db'.balances = DOMAIN db.balances \union {key}
        /\ \A k \in DOMAIN db'.balances : db'.balances[k] = IF k = key THEN row ELSE db.balances[k]
    BY <2>3, <2>4 DEF Vault!Put
  <2>6. MoverOwes(j) /\ \A k \in Jobs \ {j} : jobs[k].kind = "idle"
    BY OwedNow
  <2>7. row.balance = Held(e.user, e.pool)
    <3>1. row.balance = BalanceOf(e.pool, e.user) + Vault!Delta(e)
      BY <2>4, MovedBalance
    <3>2. BalanceOf(e.pool, e.user) = Held(e.user, e.pool) - Vault!Delta(e)
      BY <2>6 DEF MoverOwes
    <3>3. Held(e.user, e.pool) \in Int /\ Vault!Delta(e) \in Int
      BY <2>0, HeldInt, MoverEvent
    <3>4. QED
      BY <3>1, <3>2, <3>3
  <2>8. /\ \A p, u : Held(u, p)' = Held(u, p)
        /\ \A p : SupplyOf(p)' = SupplyOf(p) /\ Total(p)' = Total(p)
    BY <1>2, <2>3, HeldSame DEF SupplyOf
  <2>9. \A p, u : BalanceOf(p, u)' = Held(u, p)
    <3> SUFFICES ASSUME NEW p, NEW u PROVE BalanceOf(p, u)' = Held(u, p)
      OBVIOUS
    <3>1. CASE <<p, u>> = key
      <4>1. p = e.pool /\ u = e.user
        BY <3>1
      <4>2. BalanceOf(p, u)' = row.balance
        BY <2>5, <3>1 DEF BalanceOf
      <4>3. QED
        BY <2>7, <4>1, <4>2
    <3>2. CASE <<p, u>> # key
      <4>1. p # e.pool \/ u # e.user
        BY <3>2
      <4>2. BalanceOf(p, u)' = BalanceOf(p, u)
        BY <2>5, <3>2 DEF BalanceOf
      <4>3. QED
        BY <2>6, <4>1, <4>2 DEF MoverOwes
    <3>3. QED
      BY <3>1, <3>2
  <2>10. MoverOwes(j)'
    BY <2>2, <2>6, <2>8, <2>9 DEF MoverOwes
  <2>11. RowsHavePools' /\ NoDebts'
    <3>1. ASSUME NEW k \in DOMAIN db'.balances
          PROVE  k = <<k[1], k[2]>> /\ k[1] \in DOMAIN db'.pools
      <4>1. CASE k = key
        BY <1>2, <2>3, <4>1
      <4>2. CASE k # key
        BY <2>3, <2>5, <4>2 DEF VaultSerial, RowsHavePools
      <4>3. QED
        BY <4>1, <4>2
    <3>2. QED
      BY <2>3, <2>8, <3>1 DEF VaultSerial, RowsHavePools, NoDebts
  <2>12. jobs'[j].kind \in MoveKinds /\ \A k \in Jobs \ {j} : jobs'[k].kind = "idle"
    BY <2>2, <2>6
  <2>13. jobs'[j].at # "saveBalance" /\ jobs'[j].at # "savePool"
    BY <2>2
  <2>14. jobs'[j].kind = "onWithdrawal" => jobs'[j].ev.name = "Withdrawal"
    BY <2>2 DEF VaultSerial, CopiesFresh
  <2>15. VaultSerial'
    BY <2>10, <2>11, <2>12, <2>13, <2>14, OwedNext
  <2>16. QED
    BY <1>2, <2>0, <2>1, <2>15, AloneGoes
<1>3. QED
  BY <1>1, <1>2, VaultBase DEF Vault!SaveBalance, Vault!HasPool

\* The pool is found: its row is the one the supply is owed to.
LEMMA FindPoolMoverSerial ==
  ASSUME MirrorInv, VaultSerial, Alone, NEW j \in Jobs, jobs[j].kind \in MoveKinds,
         jobs[j].at = "findPool", jobs[j].ev.pool \in DOMAIN db.pools,
         Reads(j, "savePool", <<db.pools[jobs[j].ev.pool]>>)
  PROVE  tidy' = tidy /\ Alone' /\ VaultSerial'
<1> DEFINE e == jobs[j].ev
<1>0. PICK found : found = <<db.pools[jobs[j].ev.pool]>>
  OBVIOUS
<1>1. Shapes /\ jobs[j].kind # "idle" /\ "savePool" # "tx"
  BY DEF MirrorInv, MoveKinds
<1>2. /\ db' = db /\ log' = log /\ tidy' = tidy
      /\ JobMoves(j, [kind |-> jobs[j].kind, at |-> "savePool", ev |-> jobs[j].ev, found |-> found])
  BY <1>0, <1>1, TidyReads
<1>3. /\ jobs'[j].kind = jobs[j].kind /\ jobs'[j].at = "savePool" /\ jobs'[j].ev = e
      /\ jobs'[j].found = found /\ \A k \in Jobs \ {j} : jobs'[k] = jobs[k]
  BY <1>2 DEF JobMoves
<1>4. Alone'
  BY <1>1, <1>2, AloneGoes
<1>5. MoverOwes(j) /\ \A k \in Jobs \ {j} : jobs[k].kind = "idle"
  BY OwedNow
<1>6. /\ RowsHavePools' /\ NoDebts'
      /\ \A p, u : BalanceOf(p, u)' = BalanceOf(p, u) /\ Held(u, p)' = Held(u, p)
      /\ \A p : SupplyOf(p)' = SupplyOf(p) /\ Total(p)' = Total(p)
  BY <1>2, HeldSame, RowsStay DEF VaultSerial
<1>7. MoverOwes(j)'
  BY <1>3, <1>5, <1>6 DEF MoverOwes
<1>8. HasPool(jobs[j].ev.pool)' /\ jobs'[j].found = FindOne(db.pools, jobs[j].ev.pool)'
  BY <1>0, <1>2, <1>3 DEF FindOne, HasPool
<1>9. jobs'[j].at # "saveBalance" /\ jobs'[j].kind \in MoveKinds
  BY <1>3
<1>10. jobs'[j].kind = "onWithdrawal" => jobs'[j].ev.name = "Withdrawal"
  BY <1>3 DEF VaultSerial, CopiesFresh
<1>11. VaultSerial'
  BY <1>3, <1>5, <1>6, <1>7, <1>8, <1>9, <1>10, OwedNext
<1>12. QED
  BY <1>2, <1>4, <1>11

\* The supply is written, and nothing is owed any more.
LEMMA SavePoolMoverSerial ==
  ASSUME MirrorInv, VaultSerial, Alone, NEW j \in Jobs, jobs[j].kind \in MoveKinds,
         jobs[j].at = "savePool",
         Writes(j, "pools", [db.pools EXCEPT ![jobs[j].ev.pool].supply =
                               jobs[j].found[1].supply + Vault!Delta(jobs[j].ev)])
  PROVE  tidy' = tidy /\ Alone' /\ VaultSerial'
<1>0. PICK p, v : p = jobs[j].ev.pool /\ v = jobs[j].found[1].supply + Vault!Delta(jobs[j].ev)
  OBVIOUS
<1>1. Shapes /\ p \in DOMAIN db.pools /\ jobs[j].found = <<db.pools[p]>>
  BY <1>0 DEF MirrorInv, VaultSerial, CopiesFresh, HasPool, FindOne
<1> DEFINE table == [db.pools EXCEPT ![p].supply = v]
<1>2. /\ PoolTable(table) /\ DOMAIN table = DOMAIN db.pools
      /\ table[p].supply = v
      /\ \A q \in DOMAIN db.pools \ {p} : table[q] = db.pools[q]
  BY <1>1, SupplySet
<1>3. Writes(j, "pools", table)
  BY <1>0
<1> HIDE DEF table
<1>4. db'.balances = db.balances /\ db'.pools = table
  BY <1>1, <1>2, <1>3, PoolWrites
<1>5. log' = log /\ tidy' = tidy /\ JobMoves(j, Idle)
  BY <1>1, <1>3, TidyWrites DEF TableNames
<1>6. MoverOwes(j) /\ \A k \in Jobs \ {j} : jobs[k].kind = "idle"
  BY OwedNow
<1>7. /\ \A q, u : Held(u, q)' = Held(u, q) /\ BalanceOf(q, u)' = BalanceOf(q, u)
      /\ \A q : Total(q)' = Total(q)
  BY <1>4, <1>5, HeldSame DEF BalanceOf
<1>8. v = Total(p)
  <2>1. v = SupplyOf(p) + Vault!Delta(jobs[j].ev)
    BY <1>0, <1>1 DEF SupplyOf
  <2>2. SupplyOf(p) = Total(p) - Vault!Delta(jobs[j].ev)
    BY <1>0, <1>6 DEF MoverOwes
  <2>3. Total(p) \in Int /\ Vault!Delta(jobs[j].ev) \in Int
    BY <1>1, HeldInt, MoverEvent
  <2>4. QED
    BY <2>1, <2>2, <2>3
<1>9. \A q : SupplyOf(q)' = Total(q)
  <2> SUFFICES ASSUME NEW q PROVE SupplyOf(q)' = Total(q)
    OBVIOUS
  <2>1. CASE q = p
    BY <1>1, <1>2, <1>4, <1>8, <2>1 DEF SupplyOf
  <2>2. CASE q # p
    <3>1. SupplyOf(q)' = SupplyOf(q)
      BY <1>2, <1>4, <2>2 DEF SupplyOf
    <3>2. QED
      BY <1>0, <1>6, <2>2, <3>1 DEF MoverOwes
  <2>3. QED
    BY <2>1, <2>2
<1>10. \A q, u : BalanceOf(q, u)' = Held(u, q)
  BY <1>6, <1>7 DEF MoverOwes
<1>11. Settled' /\ RowsHavePools' /\ NoDebts'
  BY <1>2, <1>4, <1>7, <1>9, <1>10 DEF Settled, VaultSerial, RowsHavePools, NoDebts
<1>12. VaultSerial'
  BY <1>5, <1>6, <1>11, MoverDone
<1>13. QED
  BY <1>5, <1>12, AloneEnds

\* Every step of the two handlers.
LEMMA MoverSerial ==
  ASSUME MirrorInv, VaultSerial, Alone, NEW j \in Jobs, Vault!onDeposit(j) \/ Vault!onWithdrawal(j)
  PROVE  tidy' = tidy /\ Alone' /\ VaultSerial'
<1> DEFINE key == <<jobs[j].ev.pool, jobs[j].ev.user>>
           row == Vault!FindOne(db.balances, key)
<1>1. jobs[j].kind \in MoveKinds
  BY DEF Vault!onDeposit, Vault!onWithdrawal, MoveKinds
<1>2. \/ jobs[j].at = "findBalance" /\ Vault!Reads(j, "saveBalance", row)
      \/ jobs[j].at = "findBalance" /\ Vault!Reads(j, "findPool", row) /\ row = <<>>
         /\ jobs[j].kind = "onWithdrawal"
      \/ jobs[j].at = "saveBalance" /\ Vault!SaveBalance(j, key)
      \/ Vault!MoveSupply(j)
  <2>1. CASE Vault!onDeposit(j)
    BY <2>1 DEF Vault!onDeposit
  <2>2. CASE Vault!onWithdrawal(j)
    <3> HIDE DEF row
    <3>1. \/ jobs[j].at = "findBalance"
             /\ Vault!Reads(j, IF row = <<>> THEN "findPool" ELSE "saveBalance", row)
          \/ jobs[j].at = "saveBalance" /\ Vault!SaveBalance(j, key)
          \/ Vault!MoveSupply(j)
      BY <2>2 DEF Vault!onWithdrawal, row
    <3>2. jobs[j].kind = "onWithdrawal"
      BY <2>2 DEF Vault!onWithdrawal
    <3>3. CASE row = <<>>
      BY <3>1, <3>2, <3>3
    <3>4. CASE row # <<>>
      BY <3>1, <3>4
    <3>5. QED
      BY <3>3, <3>4
  <2>3. QED
    BY <2>1, <2>2
<1>3. row = FindOne(db.balances, key)
  BY DEF Vault!FindOne, FindOne
<1>4. CASE jobs[j].at = "findBalance" /\ Vault!Reads(j, "saveBalance", row)
  BY <1>1, <1>3, <1>4, VaultBase, MoverGoesSerial
<1>5. CASE /\ jobs[j].at = "findBalance" /\ Vault!Reads(j, "findPool", row) /\ row = <<>>
           /\ jobs[j].kind = "onWithdrawal"
  <2>1. key \notin DOMAIN db.balances
    BY <1>5 DEF Vault!FindOne
  <2>2. jobs[j].ev.name = "Withdrawal"
    BY <1>5 DEF VaultSerial, CopiesFresh
  <2>3. QED
    BY <1>1, <1>5, <2>1, <2>2, VaultBase, MoverGoesSerial
<1>6. CASE jobs[j].at = "saveBalance" /\ Vault!SaveBalance(j, key)
  BY <1>1, <1>6, SaveBalanceSerial
<1>7. CASE Vault!MoveSupply(j)
  <2>1. CASE Vault!Ends(j) /\ jobs[j].ev.pool \notin DOMAIN db.pools
    BY <1>1, <2>1, VaultBase, MoverGivesUp
  <2>2. CASE /\ jobs[j].at = "findPool" /\ jobs[j].ev.pool \in DOMAIN db.pools
             /\ Vault!Reads(j, "savePool", Vault!getPool(jobs[j].ev.pool))
    <3>1. Vault!getPool(jobs[j].ev.pool) = <<db.pools[jobs[j].ev.pool]>>
      BY <2>2 DEF Vault!getPool, Vault!FindOne
    <3>2. Reads(j, "savePool", <<db.pools[jobs[j].ev.pool]>>)
      BY <2>2, <3>1, VaultBase
    <3>3. QED
      BY <1>1, <2>2, <3>2, FindPoolMoverSerial
  <2>3. CASE /\ jobs[j].at = "savePool"
             /\ Vault!Writes(j, "pools", [db.pools EXCEPT ![jobs[j].ev.pool].supply =
                                            jobs[j].found[1].supply + Vault!Delta(jobs[j].ev)])
    BY <1>1, <2>3, VaultBase, SavePoolMoverSerial
  <2>4. QED
    BY <1>7, <2>1, <2>2, <2>3 DEF Vault!MoveSupply, Vault!HasPool
<1>8. QED
  BY <1>2, <1>4, <1>5, <1>6, <1>7

-----------------------------------------------------------------------------
\* Every step of the vault's family that leaves tidy.
LEMMA VaultFamilySerial ==
  ASSUME MirrorInv, VaultSerial, Alone, tidy',
         \/ VaultCalls \/ VaultSteps
         \/ \E p \in Pools : Strategy!addPoolEndpoint(p, 0, 0)
         \/ \E j \in Jobs : Strategy!onPoolAdded(j)
  PROVE  Alone' /\ VaultSerial'
<1>0. Shapes
  BY DEF MirrorInv
<1>2. CASE VaultCalls
  BY <1>0, <1>2, VaultCallSerial, AddPoolCallSerial DEF VaultCalls
<1>3. ASSUME NEW p \in Pools, Strategy!addPoolEndpoint(p, 0, 0) PROVE Alone' /\ VaultSerial'
  BY <1>0, <1>3, RegistryPoolCallSerial
<1>4. ASSUME NEW j \in Jobs, Strategy!onPoolAdded(j) PROVE Alone' /\ VaultSerial'
  BY <1>0, <1>4, RegistryPoolSerial
<1>5. CASE VaultSteps
  <2>1. PICK j \in Jobs : \/ Vault!onDeposit(j) \/ Vault!onWithdrawal(j)
                          \/ Vault!onPoolAdded(j) \/ Vault!addPool(j) \/ QueryFails(j)
    BY <1>5 DEF VaultSteps
  <2>2. CASE Vault!onDeposit(j) \/ Vault!onWithdrawal(j)
    BY <2>2, MoverSerial
  <2>3. CASE Vault!onPoolAdded(j)
    <3>1. jobs[j].kind \in AddKinds
      BY <2>3 DEF Vault!onPoolAdded, Vault!At, AddKinds
    <3>2. QED
      BY <1>0, <2>3, <3>1, FindPoolSerial, SaveNewPoolSerial DEF Vault!onPoolAdded
  <2>4. CASE Vault!addPool(j)
    <3>1. jobs[j].kind = "addVaultPool" /\ jobs[j].kind \in AddKinds
      BY <2>4 DEF Vault!addPool, Vault!At, AddKinds
    <3>2. CASE jobs[j].at = "tx" /\ Vault!Transacts(j, "onVaultPoolAdded", "findPool", "findPool")
      BY <1>0, <3>1, <3>2, VaultBase, AddPoolTransacts
    <3>3. QED
      BY <1>0, <2>4, <3>1, <3>2, FindPoolSerial, SaveNewPoolSerial DEF Vault!addPool, Vault!At
  <2>5. QED
    BY <2>1, <2>2, <2>3, <2>4, TidyFails
<1>6. QED
  BY <1>2, <1>3, <1>4, <1>5

-----------------------------------------------------------------------------
\* No step makes tidy again what was not.
LEMMA TidyBefore ==
  ASSUME Next, tidy'
  PROVE  tidy
<1>1. /\ \A e, kind, at, f : Emits(e, kind, at, f) => tidy
      /\ \A e, kind, at : Calls(e, kind, at) => tidy
      /\ \A c, h, at, next : Transacts(c, h, at, next) => tidy
  BY DEF Emits, Calls, Transacts, Ends
<1>2. /\ \A j, at, found : Reads(j, at, found) => tidy
      /\ \A j, t, table : Writes(j, t, table) => tidy
      /\ \A j : Ends(j) => tidy
      /\ \A j : QueryFails(j) => tidy
      /\ onModuleInit => tidy
      /\ Crash => tidy
  BY DEF Reads, Writes, Ends, QueryFails, onModuleInit, Crash
<1>3. CASE VaultCalls \/ \E p \in Pools : Strategy!addPoolEndpoint(p, 0, 0)
  <2>1. ASSUME NEW u, NEW p, NEW a, Calling(u, p, a) PROVE tidy
    <3>1. \E e, kind, at, f : Vault!Emits(e, kind, at, f)
      BY <2>1, Zenon DEF Calling, Vault!depositEndpoint, Vault!withdrawEndpoint, Vault!MovedElsewhere,
         Vault!deposit, Vault!withdraw
    <3>2. QED
      BY <1>1, <3>1, VaultBase
  <2>2. ASSUME NEW p, Vault!addPoolEndpoint(p) PROVE tidy
    BY <1>1, <2>2, VaultBase, Zenon DEF Vault!addPoolEndpoint
  <2>3. ASSUME NEW p, Strategy!addPoolEndpoint(p, 0, 0) PROVE tidy
    BY <1>1, <2>3, StrategyBase, Zenon DEF Strategy!addPoolEndpoint, Strategy!addPool
  <2>4. QED
    BY <1>3, <2>1, <2>2, <2>3, Zenon DEF VaultCalls
<1>4. ASSUME NEW j, \/ Vault!onDeposit(j) \/ Vault!onWithdrawal(j)
                    \/ Vault!onPoolAdded(j) \/ Vault!addPool(j)
      PROVE  tidy
  <2>1. Vault!MoveSupply(j) => tidy
    BY <1>2, VaultBase DEF Vault!MoveSupply
  <2>2. ASSUME NEW key, Vault!SaveBalance(j, key) PROVE tidy
    BY <1>2, <2>2, VaultBase DEF Vault!SaveBalance
  <2>3. CASE Vault!onDeposit(j)
    BY <1>2, <2>1, <2>2, <2>3, VaultBase DEF Vault!onDeposit
  <2>4. CASE Vault!onWithdrawal(j)
    BY <1>2, <2>1, <2>2, <2>4, VaultBase DEF Vault!onWithdrawal
  <2>5. CASE Vault!onPoolAdded(j) \/ Vault!addPool(j)
    BY <1>1, <1>2, <2>5, VaultBase
    DEF Vault!onPoolAdded, Vault!addPool, Vault!FindPool, Vault!SaveNewPool
  <2>6. QED
    BY <1>4, <2>3, <2>4, <2>5
<1>5. ASSUME NEW j, Strategy!subscribeToEvents(j) PROVE tidy
  <2>1. CASE Strategy!onPoolAdded(j)
    BY <1>2, <2>1, StrategyBase, Zenon DEF Strategy!onPoolAdded
  <2>2. CASE Strategy!onPoolUpdated(j)
    BY <1>2, <2>2, StrategyBase, Zenon DEF Strategy!onPoolUpdated
  <2>3. CASE Strategy!onStrategyExecuted(j)
    BY <1>2, <2>3, StrategyBase, Zenon DEF Strategy!onStrategyExecuted
  <2>4. QED
    BY <1>5, <2>1, <2>2, <2>3 DEF Strategy!subscribeToEvents
<1>6. CASE RegistryCalls
  BY <1>1, <1>6, StrategyBase
  DEF RegistryCalls, Strategy!addPoolEndpoint, Strategy!addPool, Strategy!updatePoolEndpoint,
      Strategy!updatePool, Strategy!executeRebalance
<1>7. CASE RewardCalls
  BY <1>1, <1>7, RewardBase
  DEF RewardCalls, Reward!distributeEndpoint, Reward!distributeReward, Reward!claimEndpoint,
      Reward!claimRewards, Reward!authorizeDistributorEndpoint, Reward!revokeDistributorEndpoint
<1>8. CASE RewardSteps
  <2>1. ASSUME NEW j, Reward!SaveDistributor(j) \/ Reward!RevokeRows(j) \/ Reward!FindDistributor(j)
        PROVE  tidy
    BY <1>2, <2>1, RewardBase DEF Reward!SaveDistributor, Reward!RevokeRows, Reward!FindDistributor
  <2>2. ASSUME NEW j, Reward!onRewardDistributed(j) \/ Reward!onRewardClaimed(j) PROVE tidy
    BY <1>2, <2>2, RewardBase DEF Reward!onRewardDistributed, Reward!onRewardClaimed
  <2>3. QED
    BY <1>1, <1>2, <1>8, <2>1, <2>2, RewardBase
    DEF RewardSteps, Reward!onDistributorAuthorized, Reward!onDistributorRevoked,
        Reward!authorizeDistributor, Reward!revokeDistributor
<1>9. CASE OracleCalls
  BY <1>1, <1>9, OracleBase
  DEF OracleCalls, Oracle!updateMetricsEndpoint, Oracle!updatePoolMetrics, Oracle!ChangesColumn,
      Oracle!updateVolatilityEndpoint, Oracle!updateVolatility, Oracle!updateYieldRateEndpoint,
      Oracle!updateYieldRate, Oracle!updateCorrelationEndpoint, Oracle!updateCorrelation
<1>10. CASE OracleSteps
  <2>1. ASSUME NEW j, Oracle!onMetricsUpdated(j) PROVE tidy
    BY <1>2, <2>1, OracleBase DEF Oracle!onMetricsUpdated
  <2>2. ASSUME NEW j, Oracle!onCorrelationUpdated(j) PROVE tidy
    BY <1>2, <2>2, OracleBase DEF Oracle!onCorrelationUpdated
  <2>3. QED
    BY <1>2, <1>10, <2>1, <2>2 DEF OracleSteps
<1>11. CASE YieldCalls
  BY <1>1, <1>11, YieldBase
  DEF YieldCalls, Yield!rebalanceEndpoint, Yield!rebalance, Yield!harvestEndpoint, Yield!harvestYield
<1>12. CASE YieldSteps
  <2>1. ASSUME NEW j, Yield!onRebalanced(j) PROVE tidy
    BY <1>2, <2>1, YieldBase DEF Yield!onRebalanced
  <2>2. ASSUME NEW j, Yield!onYieldHarvested(j) PROVE tidy
    BY <1>2, <2>2, YieldBase DEF Yield!onYieldHarvested
  <2>3. QED
    BY <1>2, <1>12, <2>1, <2>2, YieldBase DEF YieldSteps, Yield!HandlerRejects
<1>13. CASE VaultSteps \/ RegistrySteps \/ \E j \in Jobs : Strategy!onPoolAdded(j)
  BY <1>2, <1>4, <1>5, <1>13 DEF VaultSteps, RegistrySteps, Strategy!subscribeToEvents
<1>14. QED
  BY <1>2, <1>3, <1>6, <1>7, <1>8, <1>9, <1>10, <1>11, <1>12, <1>13 DEF Next

-----------------------------------------------------------------------------
\* The other families move nothing: their steps leave the balances, and a supply that is 0.
LEMMA NothingNext ==
  ASSUME Shapes, NothingMoves, log' = log \/ \E e : ~Vault!Moves(e) /\ log' = Append(log, e),
         db'.balances = db.balances,
         \A p \in DOMAIN db'.pools :
           db'.pools[p].supply = 0 \/ (p \in DOMAIN db.pools /\ db'.pools[p].supply = db.pools[p].supply)
  PROVE  NothingMoves'
<1>1. \A i \in DOMAIN log' : ~Vault!Moves(log'[i])
  <2>1. CASE log' = log
    BY <2>1 DEF NothingMoves
  <2>2. ASSUME NEW e, ~Vault!Moves(e), log' = Append(log, e) PROVE \A i \in DOMAIN log' : ~Vault!Moves(log'[i])
    <3>1. PICK S : log \in Seq(S)
      BY DEF Shapes, LogShape
    <3>2. log \in Seq(S \union {e})
      <4>1. S \subseteq S \union {e}
        OBVIOUS
      <4>2. QED
        BY <3>1, <4>1
    <3>3. \A i \in DOMAIN log' : log'[i] = e \/ (i \in DOMAIN log /\ log'[i] = log[i])
      BY <2>2, <3>2
    <3>4. QED
      BY <2>2, <3>3 DEF NothingMoves
  <2>3. QED
    BY <2>1, <2>2
<1>2. \A p \in DOMAIN db'.pools : db'.pools[p].supply = 0
  BY DEF NothingMoves
<1>3. QED
  BY <1>1, <1>2 DEF NothingMoves

\* An event that moves nothing comes to a service at rest.
LEMMA QuietEmits ==
  ASSUME Shapes, NothingMoves, NEW e, NEW kind, NEW at, NEW f, Emits(e, kind, at, f),
         kind \notin Endpoints, e.name \notin {"Deposit", "Withdrawal"}, tidy'
  PROVE  /\ tidy /\ f /\ Quiet /\ db' = db /\ log' = Append(log, e)
         /\ OneJob(Job(kind, at, e)) /\ Alone' /\ NothingMoves'
<1>1. /\ tidy /\ f /\ Quiet /\ db' = db /\ log' = Append(log, e)
      /\ OneJob(Job(kind, at, e))
  BY TidyEmits
<1>2. ~Vault!Moves(e)
  BY DEF Vault!Moves
<1>3. NothingMoves'
  BY <1>1, <1>2, NothingNext
<1>4. QED
  BY <1>1, <1>3, AloneOne

\* A job that reads or ends.
LEMMA QuietReads ==
  ASSUME Shapes, NothingMoves, Alone, NEW j \in Jobs, jobs[j].kind # "idle",
         NEW at, at # "tx", NEW found, Reads(j, at, found)
  PROVE  /\ db' = db /\ log' = log /\ Alone' /\ NothingMoves'
         /\ JobMoves(j, [kind |-> jobs[j].kind, at |-> at, ev |-> jobs[j].ev, found |-> found])
<1>1. /\ db' = db /\ log' = log
      /\ JobMoves(j, [kind |-> jobs[j].kind, at |-> at, ev |-> jobs[j].ev, found |-> found])
  BY TidyReads
<1>2. QED
  BY <1>1, AloneGoes, NothingNext

\* A job that ends.
LEMMA QuietEnds ==
  ASSUME Shapes, NothingMoves, Alone, NEW j \in Jobs, Ends(j)
  PROVE  db' = db /\ log' = log /\ Alone' /\ NothingMoves' /\ JobMoves(j, Idle)
<1>1. db' = db /\ log' = log /\ JobMoves(j, Idle)
  BY TidyEnds
<1>2. QED
  BY <1>1, AloneEnds, NothingNext

\* A job that writes a table other than the vault's.
LEMMA QuietWrites ==
  ASSUME Shapes, NothingMoves, Alone, NEW j \in Jobs, NEW t \in TableNames \ {"pools", "balances"},
         NEW table, Writes(j, t, table)
  PROVE  /\ log' = log /\ Alone' /\ NothingMoves' /\ JobMoves(j, Idle)
         /\ db'[t] = table /\ \A s \in TableNames \ {t} : db'[s] = db[s]
<1>1. /\ log' = log /\ JobMoves(j, Idle)
      /\ db' = [s \in TableNames |-> IF s = t THEN table ELSE db[s]]
  BY TidyWrites
<1>2. db'[t] = table /\ \A s \in TableNames \ {t} : db'[s] = db[s]
  BY <1>1
<1>3. db'.pools = db.pools /\ db'.balances = db.balances
  BY <1>2 DEF TableNames
<1>4. QED
  BY <1>1, <1>2, <1>3, AloneEnds, NothingNext

\* The service starts or stops, or nothing happens.
LEMMA QuietUnmoved ==
  ASSUME Shapes, NothingMoves, Unmoved
  PROVE  NothingMoves'
BY NothingNext DEF Unmoved

-----------------------------------------------------------------------------
\* The latest of some positions is one of them.
LEMMA LatestIn ==
  ASSUME NEW n \in Nat, NEW S \in SUBSET (1 .. n), S # {}
  PROVE  Max(S) \in S /\ \A y \in S : Max(S) >= y
<1> DEFINE Below == {n - x : x \in S}
<1>0. \A x \in S : x \in Int /\ x >= 1 /\ x <= n /\ n - x \in Nat
  OBVIOUS
<1>1. Below \in SUBSET Nat /\ Below # {}
  BY <1>0
<1>2. PICK m \in Below : \A y \in Below : m <= y
  BY <1>1, NatSmallest
<1>3. PICK x \in S : m = n - x
  BY <1>2
<1>4. \A y \in S : n - y \in Below
  OBVIOUS
<1>5. ASSUME NEW y \in S PROVE x >= y
  <2>1. n - x <= n - y
    BY <1>2, <1>3, <1>4
  <2>2. QED
    BY <1>0, <2>1
<1>6. QED
  BY <1>5 DEF Max

\* An event that is appended is the latest of every set of positions it comes into, and
\* changes the latest of no other.
LEMMA LatestAppended ==
  ASSUME Shapes, NEW e, log' = Append(log, e)
  PROVE  \E n \in Nat :
           /\ n \notin DOMAIN log /\ DOMAIN log' = DOMAIN log \union {n} /\ log'[n] = e
           /\ \A i \in DOMAIN log : i \in Nat /\ i < n /\ log'[i] = log[i]
           /\ \A S \in SUBSET DOMAIN log : log'[Max(S \union {n})] = e
           /\ \A S \in SUBSET DOMAIN log : S # {} => log'[Max(S)] = log[Max(S)]
<1>1. PICK S : log \in Seq(S)
  BY DEF Shapes, LogShape
<1>2. log \in Seq(S \union {e})
  <2>1. S \subseteq S \union {e}
    OBVIOUS
  <2>2. QED
    BY <1>1, <2>1
<1>3. /\ DOMAIN log = 1 .. Len(log) /\ Len(log) \in Nat
      /\ DOMAIN log' = 1 .. Len(log) + 1 /\ log'[Len(log) + 1] = e
      /\ \A i \in 1 .. Len(log) : log'[i] = log[i]
  BY ONLY <1>2, log' = Append(log, e)
<1>4. PICK n \in Nat : n = Len(log)
  BY <1>3, Zenon
<1>5. ASSUME NEW T \in SUBSET (1 .. n) PROVE Max(T \union {n + 1}) = n + 1
  <2>1. T \union {n + 1} \in SUBSET (1 .. n + 1) /\ n + 1 \in Nat /\ T \union {n + 1} # {}
    OBVIOUS
  <2>2. PICK m : m = Max(T \union {n + 1})
    OBVIOUS
  <2>3. m \in T \union {n + 1} /\ m >= n + 1
    BY <2>1, <2>2, LatestIn
  <2>4. m = n + 1
    BY <2>3
  <2>5. QED
    BY <2>2, <2>4
<1>6. \A T \in SUBSET (1 .. n) : T # {} => Max(T) \in 1 .. n
  BY LatestIn
<1>7. /\ n + 1 \notin DOMAIN log /\ DOMAIN log' = DOMAIN log \union {n + 1} /\ log'[n + 1] = e
      /\ \A i \in DOMAIN log : i \in Nat /\ i < n + 1 /\ log'[i] = log[i]
  BY <1>3, <1>4
<1>8. \A T \in SUBSET DOMAIN log : log'[Max(T \union {n + 1})] = e
  BY <1>3, <1>4, <1>5
<1>9. \A T \in SUBSET DOMAIN log : T # {} => log'[Max(T)] = log[Max(T)]
  BY <1>3, <1>4, <1>6
<1>10. PICK m \in Nat : m = n + 1
  OBVIOUS
<1>11. QED
  BY <1>7, <1>8, <1>9, <1>10

-----------------------------------------------------------------------------
\* The registry's reads, over the log.
LEMMA SettingsIsLatest ==
  /\ \A p : Strategy!Settings(p) = IF Strategy!Changes(p) # {} THEN log[Max(Strategy!Changes(p))]
                                   ELSE Strategy!RegistryEvent("none", p, FALSE, 0, 0)
  /\ \A p : Strategy!Known(p) <=> Strategy!Changes(p) # {}
  /\ Latest(Strategy!Executions) = log[Max(Strategy!Executions)]
BY Zenon DEF Strategy!Settings, Strategy!Known, Strategy!Latest, Strategy!Max, Max, Latest

\* An event changes what its own pool is set to, or the last execution.
ChangeNames == {"RegistryPoolAdded", "PoolUpdated"}

\* What the contract was last told, after an event.
LEMMA SettingsAppended ==
  ASSUME Shapes, NEW e, log' = Append(log, e)
  PROVE  /\ \A p : e.name \in ChangeNames /\ e.pool = p =>
              Strategy!Settings(p)' = e /\ Strategy!Known(p)'
         /\ \A p : ~(e.name \in ChangeNames /\ e.pool = p) =>
              Strategy!Settings(p)' = Strategy!Settings(p) /\ (Strategy!Known(p)' <=> Strategy!Known(p))
         /\ e.name = "StrategyExecuted" => Latest(Strategy!Executions)' = e
         /\ e.name # "StrategyExecuted" =>
              /\ Strategy!Executions' = Strategy!Executions
              /\ Strategy!Executions # {} => Latest(Strategy!Executions)' = Latest(Strategy!Executions)
<1>1. PICK n \in Nat :
        /\ n \notin DOMAIN log /\ DOMAIN log' = DOMAIN log \union {n} /\ log'[n] = e
        /\ \A i \in DOMAIN log : i \in Nat /\ i < n /\ log'[i] = log[i]
        /\ \A S \in SUBSET DOMAIN log : log'[Max(S \union {n})] = e
        /\ \A S \in SUBSET DOMAIN log : S # {} => log'[Max(S)] = log[Max(S)]
  BY LatestAppended
<1>2. /\ \A p : Strategy!Changes(p) \in SUBSET DOMAIN log
      /\ Strategy!Executions \in SUBSET DOMAIN log
  BY DEF Strategy!Changes, Strategy!Executions
<1>3. /\ \A p : Strategy!Changes(p)' =
           IF e.name \in ChangeNames /\ e.pool = p THEN Strategy!Changes(p) \union {n} ELSE Strategy!Changes(p)
      /\ Strategy!Executions' =
           IF e.name = "StrategyExecuted" THEN Strategy!Executions \union {n} ELSE Strategy!Executions
  BY <1>1 DEF Strategy!Changes, Strategy!Executions, ChangeNames
<1>4. /\ \A p : Strategy!Settings(p)' = IF Strategy!Changes(p)' # {} THEN log'[Max(Strategy!Changes(p)')]
                                        ELSE Strategy!RegistryEvent("none", p, FALSE, 0, 0)
      /\ \A p : Strategy!Known(p)' <=> Strategy!Changes(p)' # {}
      /\ Latest(Strategy!Executions)' = log'[Max(Strategy!Executions')]
  BY Zenon DEF Strategy!Settings, Strategy!Known, Strategy!Latest, Strategy!Max, Max, Latest
<1>5. ASSUME NEW p, e.name \in ChangeNames /\ e.pool = p
      PROVE  Strategy!Settings(p)' = e /\ Strategy!Known(p)'
  <2>1. Strategy!Changes(p)' = Strategy!Changes(p) \union {n}
    BY <1>3, <1>5
  <2>2. QED
    BY <1>1, <1>2, <1>4, <2>1
<1>6. ASSUME NEW p, ~(e.name \in ChangeNames /\ e.pool = p)
      PROVE  Strategy!Settings(p)' = Strategy!Settings(p) /\ (Strategy!Known(p)' <=> Strategy!Known(p))
  <2>1. Strategy!Changes(p)' = Strategy!Changes(p)
    BY <1>3, <1>6
  <2>2. CASE Strategy!Changes(p) = {}
    BY <1>4, <2>1, <2>2, SettingsIsLatest
  <2>3. CASE Strategy!Changes(p) # {}
    <3>1. log'[Max(Strategy!Changes(p))] = log[Max(Strategy!Changes(p))]
      BY <1>1, <1>2, <2>3
    <3>2. QED
      BY <1>4, <2>1, <2>3, <3>1, SettingsIsLatest
  <2>4. QED
    BY <2>2, <2>3
<1>7. e.name = "StrategyExecuted" => Latest(Strategy!Executions)' = e
  BY <1>1, <1>2, <1>3, <1>4
<1>8. e.name # "StrategyExecuted" =>
        /\ Strategy!Executions' = Strategy!Executions
        /\ Strategy!Executions # {} => Latest(Strategy!Executions)' = Latest(Strategy!Executions)
  BY <1>1, <1>2, <1>3, <1>4, SettingsIsLatest
<1>9. QED
  BY <1>5, <1>6, <1>7, <1>8

\* Without an event nothing the contract was told changes.
LEMMA SettingsSame ==
  ASSUME log' = log
  PROVE  /\ \A p : Strategy!Settings(p)' = Strategy!Settings(p) /\ (Strategy!Known(p)' <=> Strategy!Known(p))
         /\ Strategy!Executions' = Strategy!Executions
         /\ Latest(Strategy!Executions)' = Latest(Strategy!Executions)
<1>1. (\A p : Strategy!Changes(p)' = Strategy!Changes(p)) /\ Strategy!Executions' = Strategy!Executions
  BY DEF Strategy!Changes, Strategy!Executions
<1>2. /\ \A p : Strategy!Settings(p)' = IF Strategy!Changes(p)' # {} THEN log'[Max(Strategy!Changes(p)')]
                                        ELSE Strategy!RegistryEvent("none", p, FALSE, 0, 0)
      /\ \A p : Strategy!Known(p)' <=> Strategy!Changes(p)' # {}
      /\ Latest(Strategy!Executions)' = log'[Max(Strategy!Executions')]
  BY Zenon DEF Strategy!Settings, Strategy!Known, Strategy!Latest, Strategy!Max, Max, Latest
<1>3. QED
  BY <1>1, <1>2, SettingsIsLatest

-----------------------------------------------------------------------------
\* The registry's tables.  An event comes to a service at rest.
LEMMA RegistryArrives ==
  ASSUME Shapes, NothingMoves, RegistrySerial, tidy',
         NEW e, NEW kind, NEW at, NEW f, Emits(e, kind, at, f),
         \/ /\ kind = "onRegistryPoolAdded" /\ e.name = "RegistryPoolAdded"
            /\ f => e.active = TRUE /\ e.min = 0 /\ e.max = 0
         \/ kind = "onPoolUpdated" /\ e.name = "PoolUpdated" /\ Strategy!Known(e.pool)
         \/ kind = "onStrategyExecuted" /\ e.name = "StrategyExecuted"
  PROVE  Alone' /\ NothingMoves' /\ RegistrySerial'
<1>1. /\ tidy /\ f /\ Quiet /\ db' = db /\ log' = Append(log, e)
      /\ OneJob(Job(kind, at, e)) /\ Alone' /\ NothingMoves'
  BY QuietEmits DEF Endpoints
<1>2. PICK j \in Jobs : jobs'[j] = Job(kind, at, e) /\ \A k \in Jobs \ {j} : jobs'[k].kind = "idle"
  BY <1>1 DEF OneJob
<1>3. jobs'[j].kind = kind /\ jobs'[j].ev = e
  BY <1>2 DEF Job
<1>4. \A k \in Jobs : jobs[k].kind = "idle"
  BY <1>1 DEF Quiet, Running
<1>5. /\ \A p : Strategy!Known(p) => HasPool(p) /\ Agrees(db.pools[p], Strategy!Settings(p))
      /\ Strategy!Executions # {} =>
           0 \in DOMAIN db.executions /\ db.executions[0].pool = Latest(Strategy!Executions).pool
  BY <1>4 DEF RegistrySerial, SettingsOwed, ExecutionsOwed, ChangeKinds
<1>6. /\ \A p : e.name \in ChangeNames /\ e.pool = p =>
           Strategy!Settings(p)' = e /\ Strategy!Known(p)'
      /\ \A p : ~(e.name \in ChangeNames /\ e.pool = p) =>
           Strategy!Settings(p)' = Strategy!Settings(p) /\ (Strategy!Known(p)' <=> Strategy!Known(p))
      /\ e.name = "StrategyExecuted" => Latest(Strategy!Executions)' = e
      /\ e.name # "StrategyExecuted" =>
           /\ Strategy!Executions' = Strategy!Executions
           /\ Strategy!Executions # {} => Latest(Strategy!Executions)' = Latest(Strategy!Executions)
  BY <1>1, SettingsAppended
<1>7. e.name \in ChangeNames <=> kind \in ChangeKinds
  BY DEF ChangeNames, ChangeKinds
<1>8. \A p : (Strategy!Known(p) =>
        \/ HasPool(p) /\ Agrees(db.pools[p], Strategy!Settings(p))
        \/ \E k \in Jobs : jobs[k].kind \in ChangeKinds /\ jobs[k].ev.pool = p)'
  <2> SUFFICES ASSUME NEW p, Strategy!Known(p)'
               PROVE  \/ HasPool(p)' /\ Agrees(db'.pools[p], Strategy!Settings(p)')
                      \/ jobs'[j].kind \in ChangeKinds /\ jobs'[j].ev.pool = p
    BY DEF Agrees
  <2>1. CASE e.name \in ChangeNames /\ e.pool = p
    BY <1>3, <1>7, <2>1
  <2>2. CASE ~(e.name \in ChangeNames /\ e.pool = p)
    <3>1. Strategy!Settings(p)' = Strategy!Settings(p) /\ Strategy!Known(p)
      BY <1>6, <2>2
    <3>2. QED
      BY <1>1, <1>5, <3>1 DEF HasPool
  <2>3. QED
    BY <2>1, <2>2
<1>9. ASSUME NEW k \in Jobs
      PROVE  /\ jobs'[k].kind \in ChangeKinds =>
                  \A p : p = jobs'[k].ev.pool => jobs'[k].ev = Strategy!Settings(p)'
             /\ jobs'[k].kind = "onRegistryPoolAdded" =>
                  jobs'[k].ev.active = TRUE /\ jobs'[k].ev.min = 0 /\ jobs'[k].ev.max = 0
             /\ jobs'[k].kind = "onPoolUpdated" => jobs'[k].ev.pool \in DOMAIN db'.pools
  <2>1. CASE k = j
    <3>1. kind \in ChangeKinds => \A p : p = e.pool => e = Strategy!Settings(p)'
      BY <1>6, <1>7
    <3>2. kind = "onPoolUpdated" => e.pool \in DOMAIN db'.pools
      BY <1>1, <1>5 DEF HasPool
    <3>3. QED
      BY <1>1, <1>3, <2>1, <3>1, <3>2
  <2>2. CASE k # j
    BY <1>2, <2>2 DEF ChangeKinds
  <2>3. QED
    BY <2>1, <2>2
<1>10. SettingsOwed'
  <2>1. ASSUME NEW k \in Jobs
        PROVE  (LET x == jobs[k].ev IN
                /\ jobs[k].kind \in ChangeKinds => x = Strategy!Settings(x.pool)
                /\ jobs[k].kind = "onRegistryPoolAdded" => x.active = TRUE /\ x.min = 0 /\ x.max = 0
                /\ jobs[k].kind = "onPoolUpdated" => HasPool(x.pool))'
    BY <1>9 DEF HasPool
  <2>2. QED
    BY <1>8, <2>1 DEF SettingsOwed
<1>11. ExecutionsOwed'
  <2>1. CASE e.name = "StrategyExecuted"
    <3>1. kind = "onStrategyExecuted" /\ Latest(Strategy!Executions)' = e
      BY <1>6, <2>1
    <3>2. \A k \in Jobs : jobs'[k].kind = "onStrategyExecuted" => jobs'[k].ev = Latest(Strategy!Executions)'
      BY <1>2, <1>3, <3>1
    <3>3. jobs'[j].kind = "onStrategyExecuted"
      BY <1>3, <3>1
    <3>4. DOMAIN db'.executions \subseteq {0}
      BY <1>1 DEF RegistrySerial, ExecutionsOwed
    <3>5. QED
      BY <3>2, <3>3, <3>4 DEF ExecutionsOwed
  <2>2. CASE e.name # "StrategyExecuted"
    <3>1. /\ Strategy!Executions' = Strategy!Executions
          /\ Strategy!Executions # {} => Latest(Strategy!Executions)' = Latest(Strategy!Executions)
      BY <1>6, <2>2
    <3>2. \A k \in Jobs : jobs'[k].kind # "onStrategyExecuted"
      BY <1>2, <1>3, <2>2
    <3>3. DOMAIN db'.executions \subseteq {0}
      BY <1>1 DEF RegistrySerial, ExecutionsOwed
    <3>4. QED
      BY <1>1, <1>5, <3>1, <3>2, <3>3 DEF ExecutionsOwed
  <2>3. QED
    BY <2>1, <2>2
<1>12. QED
  BY <1>1, <1>10, <1>11 DEF RegistrySerial

\* The calls that change the registry.
LEMMA RegistryCallSerial ==
  ASSUME Shapes, NothingMoves, RegistrySerial, tidy', RegistryCalls
  PROVE  Alone' /\ NothingMoves' /\ RegistrySerial'
<1>1. ASSUME NEW p, NEW min, NEW max, Strategy!addPoolEndpoint(p, min, max)
      PROVE  Alone' /\ NothingMoves' /\ RegistrySerial'
  <2> DEFINE e == Strategy!RegistryEvent("RegistryPoolAdded", p, TRUE, min, max)
  <2>1. Emits(e, "onRegistryPoolAdded", "save", min = 0 /\ max = 0)
    BY <1>1, StrategyBase DEF Strategy!addPoolEndpoint, Strategy!addPool
  <2>2. e.name = "RegistryPoolAdded" /\ e.active = TRUE /\ e.min = min /\ e.max = max
    BY DEF Strategy!RegistryEvent
  <2> HIDE DEF e
  <2>3. QED
    BY <2>1, <2>2, RegistryArrives
<1>2. ASSUME NEW p, NEW active, NEW min, NEW max, Strategy!updatePoolEndpoint(p, active, min, max)
      PROVE  Alone' /\ NothingMoves' /\ RegistrySerial'
  <2> DEFINE e == Strategy!RegistryEvent("PoolUpdated", p, active, min, max)
  <2>1. Strategy!Known(p) /\ Emits(e, "onPoolUpdated", "update", TRUE)
    BY <1>2, StrategyBase DEF Strategy!updatePoolEndpoint, Strategy!updatePool
  <2>2. e.name = "PoolUpdated" /\ e.pool = p
    BY DEF Strategy!RegistryEvent
  <2> HIDE DEF e
  <2>3. QED
    BY <2>1, <2>2, RegistryArrives
<1>3. ASSUME NEW p, Strategy!executeRebalance(p)
      PROVE  Alone' /\ NothingMoves' /\ RegistrySerial'
  <2> DEFINE e == Strategy!RegistryEvent("StrategyExecuted", p, TRUE, 0, 0)
  <2>1. Emits(e, "onStrategyExecuted", "save", TRUE)
    BY <1>3, StrategyBase DEF Strategy!executeRebalance
  <2>2. e.name = "StrategyExecuted"
    BY DEF Strategy!RegistryEvent
  <2> HIDE DEF e
  <2>3. QED
    BY <2>1, <2>2, RegistryArrives
<1>4. QED
  BY <1>1, <1>2, <1>3 DEF RegistryCalls

\* A handler that is done leaves nothing to be owed when its own pool agrees and the
\* last execution is in its row.
LEMMA RegistryDone ==
  ASSUME RegistrySerial, Alone, NEW j \in Jobs, jobs[j].kind \in ChangeKinds \union {"onStrategyExecuted"},
         log' = log, JobMoves(j, Idle), DOMAIN db.pools \subseteq DOMAIN db'.pools,
         \A p \in DOMAIN db.pools : p # jobs[j].ev.pool \/ jobs[j].kind \notin ChangeKinds =>
           Agrees(db'.pools[p], db.pools[p]),
         jobs[j].kind \in ChangeKinds => jobs[j].ev.pool \in DOMAIN db'.pools
           /\ Agrees(db'.pools[jobs[j].ev.pool], jobs[j].ev),
         jobs[j].kind \in ChangeKinds => db'.executions = db.executions,
         jobs[j].kind = "onStrategyExecuted" =>
           DOMAIN db'.executions = {0} /\ db'.executions[0].pool = jobs[j].ev.pool
  PROVE  RegistrySerial'
<1>1. \A k \in Jobs \ {j} : jobs[k].kind = "idle"
  BY DEF Alone, Running, Beside, ChangeKinds
<1>2. \A k \in Jobs : jobs'[k].kind = "idle"
  BY <1>1 DEF JobMoves, Idle
<1>3. /\ \A p : Strategy!Settings(p)' = Strategy!Settings(p) /\ (Strategy!Known(p)' <=> Strategy!Known(p))
      /\ Strategy!Executions' = Strategy!Executions
      /\ Latest(Strategy!Executions)' = Latest(Strategy!Executions)
  BY SettingsSame
<1>4. ASSUME NEW p, Strategy!Known(p)
      PROVE  p \in DOMAIN db'.pools /\ Agrees(db'.pools[p], Strategy!Settings(p))
  <2>1. CASE jobs[j].kind \in ChangeKinds /\ jobs[j].ev.pool = p
    <3>1. jobs[j].ev = Strategy!Settings(p)
      BY <2>1 DEF RegistrySerial, SettingsOwed
    <3>2. QED
      BY <2>1, <3>1
  <2>2. CASE ~(jobs[j].kind \in ChangeKinds /\ jobs[j].ev.pool = p)
    <3>1. \A k \in Jobs : ~(jobs[k].kind \in ChangeKinds /\ jobs[k].ev.pool = p)
      BY <1>1, <2>2 DEF ChangeKinds
    <3>2. p \in DOMAIN db.pools /\ Agrees(db.pools[p], Strategy!Settings(p))
      BY <1>4, <3>1 DEF RegistrySerial, SettingsOwed, HasPool
    <3>3. QED
      BY <2>2, <3>2 DEF Agrees
  <2>3. QED
    BY <2>1, <2>2
<1>5. SettingsOwed'
  <2>1. \A p : Strategy!Known(p)' => HasPool(p)' /\ Agrees(db'.pools[p], Strategy!Settings(p)')
    BY <1>3, <1>4 DEF HasPool
  <2>2. \A k \in Jobs : jobs'[k].kind \notin ChangeKinds /\ jobs'[k].kind # "onRegistryPoolAdded"
                        /\ jobs'[k].kind # "onPoolUpdated"
    BY <1>2 DEF ChangeKinds
  <2>3. QED
    BY <2>1, <2>2 DEF SettingsOwed, Agrees
<1>6. ExecutionsOwed'
  <2>1. DOMAIN db'.executions \subseteq {0}
    BY DEF RegistrySerial, ExecutionsOwed, ChangeKinds
  <2>2. Strategy!Executions # {} =>
          0 \in DOMAIN db'.executions /\ db'.executions[0].pool = Latest(Strategy!Executions).pool
    <3>1. CASE jobs[j].kind = "onStrategyExecuted"
      BY <3>1 DEF RegistrySerial, ExecutionsOwed
    <3>2. CASE jobs[j].kind # "onStrategyExecuted"
      <4>1. \A k \in Jobs : jobs[k].kind # "onStrategyExecuted"
        BY <1>1, <3>2
      <4>2. QED
        BY <3>2, <4>1 DEF RegistrySerial, ExecutionsOwed
    <3>3. QED
      BY <3>1, <3>2
  <2>3. \A k \in Jobs : jobs'[k].kind # "onStrategyExecuted"
    BY <1>2
  <2>4. QED
    BY <1>3, <2>1, <2>2, <2>3 DEF ExecutionsOwed
<1>7. QED
  BY <1>5, <1>6 DEF RegistrySerial

\* The registry's handlers.
LEMMA RegistryStepSerial ==
  ASSUME Shapes, NothingMoves, Alone, RegistrySerial, NEW j \in Jobs, Strategy!subscribeToEvents(j)
  PROVE  Alone' /\ NothingMoves' /\ RegistrySerial'
<1>1. CASE Strategy!onPoolAdded(j)
  <2>1. PICK p, row : p = jobs[j].ev.pool /\ row = [supply |-> SupplyOf(p), active |-> TRUE, min |-> 0, max |-> 0]
    OBVIOUS
  <2>2. jobs[j].kind = "onRegistryPoolAdded"
    BY <1>1 DEF Strategy!onPoolAdded, Strategy!At
  <2>3. Writes(j, "pools", Strategy!Put(db.pools, p, row))
    <3>1. Strategy!Writes(j, "pools", Strategy!Put(db.pools, p, row))
      BY <1>1, <2>1, Zenon DEF Strategy!onPoolAdded, Strategy!HasPool, SupplyOf
    <3>2. QED
      BY <3>1, StrategyBase
  <2>4. PICK table : table = Strategy!Put(db.pools, p, row)
    OBVIOUS
  <2>5. /\ DOMAIN table = DOMAIN db.pools \union {p}
        /\ \A q \in DOMAIN table : table[q] = IF q = p THEN row ELSE db.pools[q]
    BY <2>4 DEF Strategy!Put
  <2>6. log' = log /\ JobMoves(j, Idle) /\ db'.pools = table /\ \A t \in TableNames \ {"pools"} : db'[t] = db[t]
    BY <2>3, <2>4, TidyWrites DEF TableNames
  <2>7. db'.balances = db.balances /\ db'.executions = db.executions
    BY <2>6 DEF TableNames
  <2>8. row.supply = SupplyOf(p) /\ row.active = TRUE /\ row.min = 0 /\ row.max = 0
    BY <2>1
  <2>9. NothingMoves'
    <3>1. SupplyOf(p) = 0
      BY DEF SupplyOf, NothingMoves
    <3>2. \A q \in DOMAIN db'.pools :
            db'.pools[q].supply = 0 \/ (q \in DOMAIN db.pools /\ db'.pools[q].supply = db.pools[q].supply)
      <4> SUFFICES ASSUME NEW q \in DOMAIN table
                   PROVE  table[q].supply = 0 \/ (q \in DOMAIN db.pools /\ table[q].supply = db.pools[q].supply)
        BY <2>6
      <4>1. CASE q = p
        BY <2>5, <2>8, <3>1, <4>1
      <4>2. CASE q # p
        BY <2>5, <4>2
      <4>3. QED
        BY <4>1, <4>2
    <3>3. QED
      BY <2>6, <2>7, <3>2, NothingNext
  <2>10. Agrees(row, jobs[j].ev)
    BY <2>2, <2>8 DEF RegistrySerial, SettingsOwed, Agrees
  <2>11. RegistrySerial'
    <3>1. \A q \in DOMAIN db.pools : q # jobs[j].ev.pool => Agrees(db'.pools[q], db.pools[q])
      BY <2>1, <2>5, <2>6 DEF Agrees
    <3>2. p \in DOMAIN db'.pools /\ db'.pools[p] = row
      BY <2>5, <2>6
    <3>3. jobs[j].ev.pool \in DOMAIN db'.pools /\ Agrees(db'.pools[jobs[j].ev.pool], jobs[j].ev)
      BY <2>1, <2>10, <3>2
    <3>4. DOMAIN db.pools \subseteq DOMAIN db'.pools
      BY <2>5, <2>6
    <3>5. jobs[j].kind \in ChangeKinds /\ jobs[j].kind # "onStrategyExecuted"
      BY <2>2 DEF ChangeKinds
    <3>6. QED
      BY <2>6, <2>7, <3>1, <3>3, <3>4, <3>5, RegistryDone
  <2>12. QED
    BY <2>6, <2>9, <2>11, AloneEnds
<1>2. CASE Strategy!onPoolUpdated(j)
  <2>1. jobs[j].kind = "onPoolUpdated" /\ jobs[j].kind \in ChangeKinds
    BY <1>2, Zenon DEF Strategy!onPoolUpdated, Strategy!At, ChangeKinds
  <2>2. PICK e, p : e = jobs[j].ev /\ p = e.pool
    OBVIOUS
  <2>3. p \in DOMAIN db.pools
    BY <2>1, <2>2 DEF RegistrySerial, SettingsOwed, HasPool
  <2> DEFINE table == [db.pools EXCEPT ![p].active = e.active, ![p].min = e.min, ![p].max = e.max]
  <2>4. Writes(j, "pools", table)
    BY <1>2, <2>2, <2>3, StrategyBase DEF Strategy!onPoolUpdated, Strategy!HasPool
  <2>5. db.pools = [q \in DOMAIN db.pools |-> db.pools[q]]
    BY DEF Shapes, TableShapes
  <2>6. db.pools[p] = [supply |-> db.pools[p].supply, active |-> db.pools[p].active,
                       min |-> db.pools[p].min, max |-> db.pools[p].max]
    BY <2>3 DEF Shapes, TableShapes
  <2>7. /\ DOMAIN table = DOMAIN db.pools
        /\ \A q \in DOMAIN db.pools \ {p} : table[q] = db.pools[q]
    BY ONLY <2>3, <2>5
  <2>8. table[p] = [supply |-> db.pools[p].supply, active |-> e.active, min |-> e.min, max |-> e.max]
    BY ONLY <2>3, <2>5, <2>6
  <2> HIDE DEF table
  <2>9. log' = log /\ JobMoves(j, Idle) /\ db'.pools = table /\ \A t \in TableNames \ {"pools"} : db'[t] = db[t]
    BY <2>4, TidyWrites DEF TableNames
  <2>10. db'.balances = db.balances /\ db'.executions = db.executions
    BY <2>9 DEF TableNames
  <2>11. NothingMoves'
    BY <2>7, <2>8, <2>9, <2>10, NothingNext
  <2>12. Agrees(table[p], e)
    BY <2>8 DEF Agrees
  <2>13. \A q \in DOMAIN db.pools : q # p => Agrees(db'.pools[q], db.pools[q])
    BY <2>7, <2>9 DEF Agrees
  <2>14. RegistrySerial'
    BY <2>1, <2>2, <2>3, <2>7, <2>9, <2>10, <2>12, <2>13, RegistryDone
  <2>15. QED
    BY <2>9, <2>11, <2>14, AloneEnds, Zenon
<1>3. CASE Strategy!onStrategyExecuted(j)
  <2>1. jobs[j].kind = "onStrategyExecuted" /\ jobs[j].kind \notin ChangeKinds
    BY <1>3 DEF Strategy!onStrategyExecuted, Strategy!At, ChangeKinds
  <2>2. PICK row : row = [pool |-> jobs[j].ev.pool]
    OBVIOUS
  <2>3. PICK table : table = Strategy!Put(db.executions, 0, row)
    OBVIOUS
  <2>4. Writes(j, "executions", table)
    BY <1>3, <2>2, <2>3, StrategyBase DEF Strategy!onStrategyExecuted
  <2>5. DOMAIN table = {0} /\ table[0] = row
    BY <2>3 DEF Strategy!Put, RegistrySerial, ExecutionsOwed
  <2>6. "executions" \in TableNames \ {"pools", "balances"} /\ "pools" \in TableNames \ {"executions"}
    BY DEF TableNames
  <2>7. /\ log' = log /\ Alone' /\ NothingMoves' /\ JobMoves(j, Idle)
        /\ db'.executions = table /\ db'.pools = db.pools
    BY <2>4, <2>6, QuietWrites
  <2>8. \A q \in DOMAIN db.pools : Agrees(db'.pools[q], db.pools[q])
    BY <2>7 DEF Agrees
  <2>9. DOMAIN db'.executions = {0} /\ db'.executions[0].pool = jobs[j].ev.pool
    BY <2>2, <2>5, <2>7
  <2>10. RegistrySerial'
    BY <2>1, <2>7, <2>8, <2>9, RegistryDone
  <2>11. QED
    BY <2>7, <2>10
<1>4. QED
  BY <1>1, <1>2, <1>3 DEF Strategy!subscribeToEvents

\* The registry at rest.
LEMMA RegistryUnmoved == ASSUME RegistrySerial, Unmoved PROVE RegistrySerial'
<1>1. db' = db /\ log' = log
  BY DEF Unmoved
<1>2. /\ \A p : Strategy!Settings(p)' = Strategy!Settings(p) /\ (Strategy!Known(p)' <=> Strategy!Known(p))
      /\ Strategy!Executions' = Strategy!Executions
      /\ Latest(Strategy!Executions)' = Latest(Strategy!Executions)
  BY <1>1, SettingsSame
<1>3. \A k \in Jobs : /\ jobs'[k].kind # "idle" => jobs'[k] = jobs[k]
                      /\ jobs[k].kind # "idle" => jobs'[k] = jobs[k]
  BY DEF Unmoved
<1>4. SettingsOwed'
  <2>1. ASSUME NEW p, Strategy!Known(p)'
        PROVE  \/ HasPool(p)' /\ Agrees(db'.pools[p], Strategy!Settings(p)')
               \/ \E k \in Jobs : jobs'[k].kind \in ChangeKinds /\ jobs'[k].ev.pool = p
    <3>1. \/ HasPool(p) /\ Agrees(db.pools[p], Strategy!Settings(p))
          \/ \E k \in Jobs : jobs[k].kind \in ChangeKinds /\ jobs[k].ev.pool = p
      BY <1>2, <2>1 DEF RegistrySerial, SettingsOwed
    <3>2. QED
      BY <1>1, <1>2, <1>3, <3>1 DEF HasPool, ChangeKinds
  <2>2. ASSUME NEW k \in Jobs
        PROVE  (LET x == jobs[k].ev IN
                /\ jobs[k].kind \in ChangeKinds => x = Strategy!Settings(x.pool)
                /\ jobs[k].kind = "onRegistryPoolAdded" => x.active = TRUE /\ x.min = 0 /\ x.max = 0
                /\ jobs[k].kind = "onPoolUpdated" => HasPool(x.pool))'
    BY <1>1, <1>2, <1>3 DEF RegistrySerial, SettingsOwed, HasPool, ChangeKinds
  <2>3. QED
    BY <2>1, <2>2 DEF SettingsOwed, Agrees
<1>5. ExecutionsOwed'
  BY <1>1, <1>2, <1>3 DEF RegistrySerial, ExecutionsOwed
<1>6. QED
  BY <1>4, <1>5 DEF RegistrySerial

-----------------------------------------------------------------------------
\* Sums of amounts: equal amounts, one more, none.
LEMMA AmountSame ==
  ASSUME NEW rows, NEW table, NEW I, \A i \in I : table[i].amount = rows[i].amount
  PROVE  AmountSum(table, I) = AmountSum(rows, I)
<1>1. [i \in I |-> table[i].amount] = [i \in I |-> rows[i].amount]
  OBVIOUS
<1>2. QED
  BY <1>1 DEF AmountSum

\* A position more is a summand more, and of no positions the sum is 0.
LEMMA AmountAdd ==
  ASSUME NEW rows, NEW table, NEW I, IsFiniteSet(I), NEW n, n \notin I, table[n].amount \in Nat,
         \A i \in I : rows[i].amount \in Nat /\ table[i].amount = rows[i].amount
  PROVE  AmountSum(table, I \union {n}) = AmountSum(rows, I) + table[n].amount
<1> DEFINE f == [x \in I |-> rows[x].amount]
           g == [x \in I \union {n} |-> table[x].amount]
<1>1. DOMAIN f = I /\ DOMAIN g = I \union {n}
  OBVIOUS
<1>2. /\ \A x \in I : f[x] \in Int /\ f[x] = g[x]
      /\ g[n] \in Int /\ g[n] = table[n].amount
  OBVIOUS
<1>3. AmountSum(rows, I) = SumFunction(f) /\ AmountSum(table, I \union {n}) = SumFunction(g)
  BY DEF AmountSum
<1> HIDE DEF f, g
<1>4. SumFunctionOnSet(g, I \union {n}) = SumFunctionOnSet(f, I) + g[n]
  BY ONLY <1>2, IsFiniteSet(I), n \notin I, SumAdd
<1>5. QED
  BY <1>1, <1>2, <1>3, <1>4 DEF SumFunction

\* Amounts of no rows.
LEMMA AmountNone == ASSUME NEW rows PROVE AmountSum(rows, {}) = 0
<1> DEFINE f == [x \in {} |-> rows[x].amount]
<1>1. DOMAIN f = {} /\ AmountSum(rows, {}) = SumFunction(f)
  BY DEF AmountSum
<1> HIDE DEF f
<1>2. SumFunctionOnSet(f, {}) = 0
  BY SumEmpty
<1>3. QED
  BY <1>1, <1>2 DEF SumFunction

\* What a user is due is a number of the log's rewards.
LEMMA DueParts ==
  ASSUME Shapes
  PROVE  \A u : /\ Reward!Unclaimed(u) \subseteq DOMAIN log /\ IsFiniteSet(Reward!Unclaimed(u))
                /\ \A i \in Reward!Unclaimed(u) : log[i].amount \in Nat
                /\ Due(u) \in Nat
<1>1. IsFiniteSet(DOMAIN log)
  BY LogFinite
<1> TAKE u
<1>2. Reward!Unclaimed(u) \subseteq DOMAIN log
  BY DEF Reward!Unclaimed, Reward!OfUser, Reward!Named
<1>3. IsFiniteSet(Reward!Unclaimed(u))
  BY <1>1, <1>2, FS_Subset
<1>4. \A i \in Reward!Unclaimed(u) : log[i].amount \in Nat
  BY DEF Reward!Unclaimed, Reward!OfUser, Reward!Named, Shapes, LogShape, Sound
<1>5. Due(u) \in Nat
  <2>1. {} \in SUBSET Reward!Unclaimed(u)
    OBVIOUS
  <2>2. QED
    BY <1>3, <1>4, <2>1, AmountParts DEF Due
<1>6. QED
  BY <1>2, <1>3, <1>4, <1>5

\* Without an event the contract holds what it held and authorizes whom it did.
LEMMA DueSame ==
  ASSUME log' = log
  PROVE  /\ \A u : Due(u)' = Due(u)
         /\ \A d : Reward!isAuthorizedDistributor(d)' <=> Reward!isAuthorizedDistributor(d)
BY DEF Due, Reward!Unclaimed, Reward!OfUser, Reward!Named, Reward!isAuthorizedDistributor

\* What an event changes: a reward and a claim for their user alone, an authorization and
\* a revocation for their distributor alone.
LEMMA DueAppended ==
  ASSUME Shapes, NEW e, e.name = "RewardDistributed" => e.amount \in Nat, log' = Append(log, e)
  PROVE  /\ \A u : e.name = "RewardDistributed" /\ e.user = u => Due(u)' = Due(u) + e.amount
         /\ \A u : e.name = "RewardClaimed" /\ e.user = u => Due(u)' = 0
         /\ \A u : ~(e.name \in {"RewardDistributed", "RewardClaimed"} /\ e.user = u) => Due(u)' = Due(u)
         /\ e.name = "DistributorAuthorized" =>
              \A d : d = e.user => Reward!isAuthorizedDistributor(d)'
         /\ e.name = "DistributorRevoked" =>
              \A d : d = e.user => ~Reward!isAuthorizedDistributor(d)'
         /\ \A d : ~(e.name \in {"DistributorAuthorized", "DistributorRevoked"} /\ e.user = d) =>
              (Reward!isAuthorizedDistributor(d)' <=> Reward!isAuthorizedDistributor(d))
<1>1. PICK n \in Nat :
        /\ n \notin DOMAIN log /\ DOMAIN log' = DOMAIN log \union {n} /\ log'[n] = e
        /\ \A i \in DOMAIN log : i \in Nat /\ i < n /\ log'[i] = log[i]
  BY LatestAppended
<1>2. \A name, u : /\ Reward!OfUser(name, u)' =
                        IF e.name = name /\ e.user = u THEN Reward!OfUser(name, u) \union {n}
                                                       ELSE Reward!OfUser(name, u)
                   /\ Reward!OfUser(name, u) \subseteq DOMAIN log
  BY <1>1 DEF Reward!OfUser, Reward!Named
<1>3. \A i \in DOMAIN log : i < n /\ ~(n < i)
  BY <1>1
<1>4. \A u : Reward!Unclaimed(u)' =
        IF e.user = u /\ e.name = "RewardDistributed" THEN Reward!Unclaimed(u) \union {n}
        ELSE IF e.user = u /\ e.name = "RewardClaimed" THEN {} ELSE Reward!Unclaimed(u)
  <2> SUFFICES ASSUME NEW u
               PROVE  Reward!Unclaimed(u)' =
                        IF e.user = u /\ e.name = "RewardDistributed" THEN Reward!Unclaimed(u) \union {n}
                        ELSE IF e.user = u /\ e.name = "RewardClaimed" THEN {} ELSE Reward!Unclaimed(u)
    OBVIOUS
  <2>1. CASE e.user = u /\ e.name = "RewardDistributed"
    BY <1>2, <1>3, <2>1 DEF Reward!Unclaimed
  <2>2. CASE e.user = u /\ e.name = "RewardClaimed"
    BY <1>2, <1>3, <2>2 DEF Reward!Unclaimed
  <2>3. CASE ~(e.user = u /\ e.name \in {"RewardDistributed", "RewardClaimed"})
    BY <1>2, <2>3 DEF Reward!Unclaimed
  <2>4. QED
    BY <2>1, <2>2, <2>3
<1>5. ASSUME NEW u
      PROVE  /\ e.name = "RewardDistributed" /\ e.user = u => Due(u)' = Due(u) + e.amount
             /\ e.name = "RewardClaimed" /\ e.user = u => Due(u)' = 0
             /\ ~(e.name \in {"RewardDistributed", "RewardClaimed"} /\ e.user = u) => Due(u)' = Due(u)
  <2> DEFINE I == Reward!Unclaimed(u)
  <2>1. /\ IsFiniteSet(I) /\ n \notin I
        /\ \A i \in I : log[i].amount \in Nat /\ log'[i].amount = log[i].amount
    BY <1>1, DueParts
  <2>2. Due(u)' = AmountSum(log', Reward!Unclaimed(u)')
    BY DEF Due
  <2>3. Due(u) = AmountSum(log, I)
    BY DEF Due
  <2>4. CASE e.name = "RewardDistributed" /\ e.user = u
    <3>0. PICK lh : lh = log'
      OBVIOUS
    <3>1. lh[n].amount \in Nat /\ \A i \in I : log[i].amount \in Nat /\ lh[i].amount = log[i].amount
      BY <1>1, <2>1, <2>4, <3>0
    <3> HIDE DEF I
    <3>2. AmountSum(lh, I \union {n}) = AmountSum(log, I) + lh[n].amount
      <4>1. IsFiniteSet(I) /\ n \notin I
        BY <2>1
      <4>2. QED
        BY ONLY <3>1, <4>1, AmountAdd
    <3>3. QED
      BY <1>1, <1>4, <2>2, <2>3, <2>4, <3>0, <3>2 DEF I
  <2>5. CASE e.name = "RewardClaimed" /\ e.user = u
    BY <1>4, <2>2, <2>5, AmountNone
  <2>6. CASE ~(e.name \in {"RewardDistributed", "RewardClaimed"} /\ e.user = u)
    <3>1. AmountSum(log', I) = AmountSum(log, I)
      BY <2>1, AmountSame
    <3>2. QED
      BY <1>4, <2>2, <2>3, <2>6, <3>1
  <2>7. QED
    BY <2>4, <2>5, <2>6
<1>6. \A d : Reward!isAuthorizedDistributor(d)' <=>
        \E i \in Reward!OfUser("DistributorAuthorized", d)' :
          \A k \in Reward!OfUser("DistributorRevoked", d)' : k < i
  BY DEF Reward!isAuthorizedDistributor
<1>7. ASSUME NEW d
      PROVE  /\ e.name = "DistributorAuthorized" /\ d = e.user => Reward!isAuthorizedDistributor(d)'
             /\ e.name = "DistributorRevoked" /\ d = e.user => ~Reward!isAuthorizedDistributor(d)'
             /\ ~(e.name \in {"DistributorAuthorized", "DistributorRevoked"} /\ e.user = d) =>
                  (Reward!isAuthorizedDistributor(d)' <=> Reward!isAuthorizedDistributor(d))
  <2>1. CASE e.name = "DistributorAuthorized" /\ d = e.user
    BY <1>2, <1>3, <1>6, <2>1
  <2>2. CASE e.name = "DistributorRevoked" /\ d = e.user
    BY <1>2, <1>3, <1>6, <2>2
  <2>3. CASE ~(e.name \in {"DistributorAuthorized", "DistributorRevoked"} /\ e.user = d)
    BY <1>2, <1>6, <2>3 DEF Reward!isAuthorizedDistributor
  <2>4. QED
    BY <2>1, <2>2, <2>3
<1>8. QED
  BY <1>5, <1>7

-----------------------------------------------------------------------------
\* The handlers of the rewards, and the handlers and endpoints of the distributors.
RewardKinds == {"onRewardClaimed", "onRewardDistributed"}
DistributorKinds == {"authorizeDistributor", "onDistributorAuthorized",
                     "revokeDistributor", "onDistributorRevoked"}

\* What the rows promise stays while their table, the contract and the handlers stay.
LEMMA RewardsStay ==
  ASSUME RewardsOwed, \A u : Due(u)' = Due(u), db'.rewards = db.rewards,
         \A k \in Jobs : jobs[k].kind \in RewardKinds \/ jobs'[k].kind \in RewardKinds => jobs'[k] = jobs[k]
  PROVE  RewardsOwed'
<1>1. \A u : Promised(u)' = Promised(u)
  BY DEF Promised, OpenRows
<1>2. ASSUME NEW u
      PROVE  \/ Promised(u)' = Due(u)'
             \/ \E k \in Jobs : jobs'[k].kind = "onRewardClaimed" /\ jobs'[k].ev.user = u
             \/ \E k \in Jobs : jobs'[k].kind = "onRewardDistributed" /\ jobs'[k].ev.user = u
  <2>1. \/ Promised(u) = Due(u)
        \/ \E k \in Jobs : jobs[k].kind = "onRewardClaimed" /\ jobs[k].ev.user = u
        \/ \E k \in Jobs : jobs[k].kind = "onRewardDistributed" /\ jobs[k].ev.user = u
    BY DEF RewardsOwed
  <2>2. QED
    BY <1>1, <2>1 DEF RewardKinds
<1>3. ASSUME NEW k \in Jobs
      PROVE  (LET e == jobs[k].ev IN
              /\ jobs[k].kind = "onRewardClaimed" => Due(e.user) = 0
              /\ jobs[k].kind = "onRewardDistributed" =>
                   e.amount \in Nat /\ Promised(e.user) + e.amount = Due(e.user))'
  <2>1. CASE jobs'[k].kind \in RewardKinds
    <3>1. jobs'[k] = jobs[k]
      BY <2>1
    <3>2. PICK u : u = jobs[k].ev.user
      OBVIOUS
    <3>3. /\ jobs[k].kind = "onRewardClaimed" => Due(u) = 0
          /\ jobs[k].kind = "onRewardDistributed" =>
               jobs[k].ev.amount \in Nat /\ Promised(u) + jobs[k].ev.amount = Due(u)
      BY <3>2 DEF RewardsOwed
    <3>4. /\ jobs'[k].kind = "onRewardClaimed" => Due(u)' = 0
          /\ jobs'[k].kind = "onRewardDistributed" =>
               jobs'[k].ev.amount \in Nat /\ Promised(u)' + jobs'[k].ev.amount = Due(u)'
      BY <1>1, <3>1, <3>3
    <3>5. u = jobs'[k].ev.user
      BY <3>1, <3>2
    <3>6. QED
      BY <3>4, <3>5
  <2>2. CASE jobs'[k].kind \notin RewardKinds
    BY <2>2 DEF RewardKinds
  <2>3. QED
    BY <2>1, <2>2
<1>4. QED
  BY <1>2, <1>3 DEF RewardsOwed

\* Who is listed: a user with an authorized row.
LEMMA Listed ==
  \A d : d \in Reward!distributorsEndpoint <=>
           \E i \in DOMAIN db.distributors : db.distributors[i].authorized /\ db.distributors[i].user = d
BY DEF Reward!distributorsEndpoint, Reward!getAuthorizedDistributors

\* The distributors stay while their table and the contract stay and their jobs do no
\* more than start or give up before their transaction.
LEMMA DistributorsStay ==
  ASSUME DistributorsOwed, EndpointEvents, db'.distributors = db.distributors,
         \A d : Reward!isAuthorizedDistributor(d)' <=> Reward!isAuthorizedDistributor(d),
         \A k \in Jobs :
           \/ jobs'[k] = jobs[k]
           \/ /\ jobs[k].kind \notin DistributorKinds \/ jobs[k].at = "tx"
              /\ \/ jobs'[k].kind \notin DistributorKinds
                 \/ /\ jobs'[k].at = "tx"
                    /\ jobs'[k].kind = "authorizeDistributor" => jobs'[k].ev.name = "DistributorAuthorized"
                    /\ jobs'[k].kind = "revokeDistributor" => jobs'[k].ev.name = "DistributorRevoked"
  PROVE  DistributorsOwed' /\ EndpointEvents'
<1>1. \A k \in Jobs : \A d : /\ Authorizing(k, d)' <=> Authorizing(k, d)
                             /\ Revoking(k, d)' <=> Revoking(k, d)
  BY DEF Authorizing, Revoking, DistributorKinds
<1>2. \A d : d \in Reward!distributorsEndpoint' <=> d \in Reward!distributorsEndpoint
  BY DEF Reward!distributorsEndpoint, Reward!getAuthorizedDistributors
<1>3. \A k \in Jobs :
        jobs'[k].kind \in {"authorizeDistributor", "onDistributorAuthorized"}
        /\ jobs'[k].at = "saveDistributor" => jobs'[k] = jobs[k]
  BY DEF DistributorKinds
<1>4. ASSUME NEW k \in Jobs, jobs'[k].kind \in {"authorizeDistributor", "onDistributorAuthorized"},
             jobs'[k].at = "saveDistributor", jobs'[k].found # <<>>
      PROVE  \A d : d = jobs'[k].ev.user => jobs'[k].found[1] \in Reward!RowsOf(d)'
  BY <1>3, <1>4 DEF DistributorsOwed, Reward!RowsOf
<1>5. DistributorsOwed'
  <2>1. \A d : \/ (d \in Reward!distributorsEndpoint)' <=> Reward!isAuthorizedDistributor(d)'
               \/ \E k \in Jobs : Authorizing(k, d)' \/ Revoking(k, d)'
    BY <1>1, <1>2 DEF DistributorsOwed
  <2>2. \A k \in Jobs : \A d : /\ Authorizing(k, d)' => Reward!isAuthorizedDistributor(d)'
                               /\ Revoking(k, d)' => ~Reward!isAuthorizedDistributor(d)'
    BY <1>1 DEF DistributorsOwed
  <2>3. ASSUME NEW k \in Jobs
        PROVE  (jobs[k].kind \in {"authorizeDistributor", "onDistributorAuthorized"}
                /\ jobs[k].at = "saveDistributor" /\ jobs[k].found # <<>> =>
                  jobs[k].found[1] \in Reward!RowsOf(jobs[k].ev.user))'
    BY <1>4 DEF Reward!RowsOf
  <2>4. /\ \E S : db'.distributors \in Seq(S)
        /\ \A i \in DOMAIN db'.distributors :
             db'.distributors[i] = [user |-> db'.distributors[i].user,
                                    authorized |-> db'.distributors[i].authorized]
    BY DEF DistributorsOwed
  <2>5. QED
    BY <2>1, <2>2, <2>3, <2>4 DEF DistributorsOwed
<1>6. EndpointEvents'
  BY DEF EndpointEvents, DistributorKinds
<1>7. QED
  BY <1>5, <1>6

\* A reward or a claim comes to a service at rest: what it changes is owed by its handler.
LEMMA RewardArrives ==
  ASSUME Shapes, NothingMoves, RewardSerial, tidy', NEW e, NEW kind, NEW at, Emits(e, kind, at, TRUE),
         \/ kind = "onRewardDistributed" /\ e.name = "RewardDistributed" /\ e.amount \in Nat
         \/ kind = "onRewardClaimed" /\ e.name = "RewardClaimed"
  PROVE  Alone' /\ NothingMoves' /\ RewardSerial'
<1>1. /\ tidy /\ Quiet /\ db' = db /\ log' = Append(log, e)
      /\ OneJob(Job(kind, at, e)) /\ Alone' /\ NothingMoves'
  BY QuietEmits DEF Endpoints
<1>2. PICK j \in Jobs : jobs'[j] = Job(kind, at, e) /\ \A k \in Jobs \ {j} : jobs'[k].kind = "idle"
  BY <1>1 DEF OneJob
<1>3. jobs'[j].kind = kind /\ jobs'[j].ev = e
  BY <1>2 DEF Job
<1>4. \A k \in Jobs : jobs[k].kind = "idle"
  BY <1>1 DEF Quiet, Running
<1>5. /\ \A u : e.name = "RewardDistributed" /\ e.user = u => Due(u)' = Due(u) + e.amount
      /\ \A u : e.name = "RewardClaimed" /\ e.user = u => Due(u)' = 0
      /\ \A u : ~(e.name \in {"RewardDistributed", "RewardClaimed"} /\ e.user = u) => Due(u)' = Due(u)
      /\ \A d : ~(e.name \in {"DistributorAuthorized", "DistributorRevoked"} /\ e.user = d) =>
           (Reward!isAuthorizedDistributor(d)' <=> Reward!isAuthorizedDistributor(d))
  BY <1>1, DueAppended
<1>6. \A u : Promised(u) = Due(u)
  BY <1>4 DEF RewardSerial, RewardsOwed
<1>7. \A u : Promised(u)' = Promised(u)
  BY <1>1 DEF Promised, OpenRows
<1>8. \A u : u # e.user => Promised(u)' = Due(u)'
  BY <1>5, <1>6, <1>7
<1>9. ASSUME NEW k \in Jobs
      PROVE  (LET x == jobs[k].ev IN
              /\ jobs[k].kind = "onRewardClaimed" => Due(x.user) = 0
              /\ jobs[k].kind = "onRewardDistributed" =>
                   x.amount \in Nat /\ Promised(x.user) + x.amount = Due(x.user))'
  <2>1. CASE k = j
    <3>1. PICK u : u = e.user
      OBVIOUS
    <3>2. /\ kind = "onRewardClaimed" => Due(u)' = 0
          /\ kind = "onRewardDistributed" => e.amount \in Nat /\ Promised(u)' + e.amount = Due(u)'
      BY <1>5, <1>6, <1>7, <3>1
    <3>3. jobs'[k].kind = kind /\ jobs'[k].ev = e /\ u = jobs'[k].ev.user
      BY <1>3, <2>1, <3>1
    <3>4. QED
      BY <3>2, <3>3
  <2>2. CASE k # j
    BY <1>2, <2>2
  <2>3. QED
    BY <2>1, <2>2
<1>10. RewardsOwed'
  <2>1. \A u : \/ Promised(u)' = Due(u)'
               \/ \E k \in Jobs : jobs'[k].kind = "onRewardClaimed" /\ jobs'[k].ev.user = u
               \/ \E k \in Jobs : jobs'[k].kind = "onRewardDistributed" /\ jobs'[k].ev.user = u
    BY <1>3, <1>8
  <2>2. QED
    BY <1>9, <2>1 DEF RewardsOwed
<1>11. DistributorsOwed' /\ EndpointEvents'
  <2>1. \A d : Reward!isAuthorizedDistributor(d)' <=> Reward!isAuthorizedDistributor(d)
    BY <1>5
  <2>2. \A k \in Jobs : jobs[k].kind \notin DistributorKinds /\ jobs'[k].kind \notin DistributorKinds
    BY <1>2, <1>3, <1>4 DEF DistributorKinds
  <2>3. db'.distributors = db.distributors
    BY <1>1
  <2>4. QED
    BY <2>1, <2>2, <2>3, DistributorsStay DEF RewardSerial
<1>12. QED
  BY <1>1, <1>10, <1>11 DEF RewardSerial

\* An endpoint that authorizes or revokes starts alone.
LEMMA DistributorCallSerial ==
  ASSUME Shapes, NothingMoves, RewardSerial, tidy', NEW e, NEW kind, Calls(e, kind, "tx"),
         \/ kind = "authorizeDistributor" /\ e.name = "DistributorAuthorized"
         \/ kind = "revokeDistributor" /\ e.name = "DistributorRevoked"
  PROVE  Alone' /\ NothingMoves' /\ RewardSerial'
<1>1. tidy /\ Quiet /\ db' = db /\ log' = log /\ OneJob(Job(kind, "tx", e))
  BY TidyCalls DEF TrackedEvents
<1>2. Alone' /\ NothingMoves'
  BY <1>1, AloneOne, NothingNext
<1>3. PICK j \in Jobs : jobs'[j] = Job(kind, "tx", e) /\ \A k \in Jobs \ {j} : jobs'[k].kind = "idle"
  BY <1>1 DEF OneJob
<1>4. jobs'[j].kind = kind /\ jobs'[j].ev = e /\ jobs'[j].at = "tx"
  BY <1>3 DEF Job
<1>5. \A k \in Jobs : jobs[k].kind = "idle"
  BY <1>1 DEF Quiet, Running
<1>6. /\ \A u : Due(u)' = Due(u)
      /\ \A d : Reward!isAuthorizedDistributor(d)' <=> Reward!isAuthorizedDistributor(d)
  BY <1>1, DueSame
<1>7. db'.rewards = db.rewards /\ db'.distributors = db.distributors
  BY <1>1
<1>8. RewardsOwed'
  <2>1. \A k \in Jobs : jobs[k].kind \notin RewardKinds /\ jobs'[k].kind \notin RewardKinds
    BY <1>3, <1>4, <1>5 DEF RewardKinds
  <2>2. QED
    BY <1>6, <1>7, <2>1, RewardsStay DEF RewardSerial
<1>9. DistributorsOwed' /\ EndpointEvents'
  <2>1. \A k \in Jobs :
          /\ jobs[k].kind \notin DistributorKinds
          /\ \/ jobs'[k].kind \notin DistributorKinds
             \/ /\ jobs'[k].at = "tx"
                /\ jobs'[k].kind = "authorizeDistributor" => jobs'[k].ev.name = "DistributorAuthorized"
                /\ jobs'[k].kind = "revokeDistributor" => jobs'[k].ev.name = "DistributorRevoked"
    BY <1>3, <1>4, <1>5 DEF DistributorKinds
  <2>2. QED
    BY <1>6, <1>7, <2>1, DistributorsStay DEF RewardSerial
<1>10. QED
  BY <1>2, <1>8, <1>9 DEF RewardSerial

\* The calls of the rewards.
LEMMA RewardCallSerial ==
  ASSUME Shapes, NothingMoves, RewardSerial, tidy', RewardCalls
  PROVE  Alone' /\ NothingMoves' /\ RewardSerial'
<1>1. ASSUME NEW u, NEW a \in Amounts, Reward!distributeEndpoint(u, a)
      PROVE  Alone' /\ NothingMoves' /\ RewardSerial'
  <2> DEFINE e == Reward!RewardEvent("RewardDistributed", u, a)
  <2>1. Emits(e, "onRewardDistributed", "save", TRUE)
    BY <1>1, RewardBase DEF Reward!distributeEndpoint, Reward!distributeReward
  <2>2. e.name = "RewardDistributed" /\ e.amount \in Nat
    BY MirrorAssumption DEF Reward!RewardEvent
  <2> HIDE DEF e
  <2>3. QED
    BY <2>1, <2>2, RewardArrives
<1>2. ASSUME NEW u, Reward!claimEndpoint(u)
      PROVE  Alone' /\ NothingMoves' /\ RewardSerial'
  <2> DEFINE e == Reward!RewardEvent("RewardClaimed", u, 0)
  <2>1. Emits(e, "onRewardClaimed", "update", TRUE)
    BY <1>2, RewardBase DEF Reward!claimEndpoint, Reward!claimRewards
  <2>2. e.name = "RewardClaimed"
    BY DEF Reward!RewardEvent
  <2> HIDE DEF e
  <2>3. QED
    BY <2>1, <2>2, RewardArrives
<1>3. ASSUME NEW u, Reward!authorizeDistributorEndpoint(u)
      PROVE  Alone' /\ NothingMoves' /\ RewardSerial'
  <2> DEFINE e == Reward!RewardEvent("DistributorAuthorized", u, 0)
  <2>1. Calls(e, "authorizeDistributor", "tx")
    BY <1>3, RewardBase DEF Reward!authorizeDistributorEndpoint
  <2>2. e.name = "DistributorAuthorized"
    BY DEF Reward!RewardEvent
  <2> HIDE DEF e
  <2>3. QED
    BY <2>1, <2>2, DistributorCallSerial
<1>4. ASSUME NEW u, Reward!revokeDistributorEndpoint(u)
      PROVE  Alone' /\ NothingMoves' /\ RewardSerial'
  <2> DEFINE e == Reward!RewardEvent("DistributorRevoked", u, 0)
  <2>1. Calls(e, "revokeDistributor", "tx")
    BY <1>4, RewardBase DEF Reward!revokeDistributorEndpoint
  <2>2. e.name = "DistributorRevoked"
    BY DEF Reward!RewardEvent
  <2> HIDE DEF e
  <2>3. QED
    BY <2>1, <2>2, DistributorCallSerial
<1>5. QED
  BY <1>1, <1>2, <1>3, <1>4 DEF RewardCalls

\* The handler of a reward or of a claim is done, and nothing is owed any more.
LEMMA RewardsDone ==
  ASSUME Shapes, NothingMoves, Alone, RewardSerial, NEW j \in Jobs, jobs[j].kind \in RewardKinds,
         NEW table, Writes(j, "rewards", table),
         \A u : u # jobs[j].ev.user => AmountSum(table, {i \in DOMAIN table : table[i].user = u /\ ~table[i].claimed})
                                         = Promised(u),
         \A u : u = jobs[j].ev.user => AmountSum(table, {i \in DOMAIN table : table[i].user = u /\ ~table[i].claimed})
                                         = Due(u)
  PROVE  Alone' /\ NothingMoves' /\ RewardSerial'
<1>1. "rewards" \in TableNames \ {"pools", "balances"} /\ "distributors" \in TableNames \ {"rewards"}
  BY DEF TableNames
<1>2. /\ log' = log /\ Alone' /\ NothingMoves' /\ JobMoves(j, Idle)
      /\ db'.rewards = table /\ db'.distributors = db.distributors
  BY <1>1, QuietWrites
<1>3. \A k \in Jobs \ {j} : jobs[k].kind = "idle"
  BY DEF Alone, Running, RewardKinds, Beside
<1>4. \A k \in Jobs : jobs'[k].kind = "idle"
  BY <1>2, <1>3 DEF JobMoves, Idle
<1>5. /\ \A u : Due(u)' = Due(u)
      /\ \A d : Reward!isAuthorizedDistributor(d)' <=> Reward!isAuthorizedDistributor(d)
  BY <1>2, DueSame
<1>6. \A u : u # jobs[j].ev.user => Promised(u) = Due(u)
  BY <1>3 DEF RewardSerial, RewardsOwed
<1>7. ASSUME NEW u PROVE Promised(u)' = Due(u)'
  <2>1. Promised(u)' = AmountSum(table, {i \in DOMAIN table : table[i].user = u /\ ~table[i].claimed})
    BY <1>2 DEF Promised, OpenRows
  <2>2. CASE u = jobs[j].ev.user
    BY <1>5, <2>1, <2>2
  <2>3. CASE u # jobs[j].ev.user
    BY <1>5, <1>6, <2>1, <2>3
  <2>4. QED
    BY <2>2, <2>3
<1>8. RewardsOwed'
  BY <1>4, <1>7 DEF RewardsOwed
<1>9. DistributorsOwed' /\ EndpointEvents'
  <2>1. \A k \in Jobs : jobs[k].kind \notin DistributorKinds /\ jobs'[k].kind \notin DistributorKinds
    BY <1>3, <1>4 DEF DistributorKinds, RewardKinds
  <2>2. QED
    BY <1>2, <1>5, <2>1, DistributorsStay DEF RewardSerial
<1>10. QED
  BY <1>2, <1>8, <1>9 DEF RewardSerial

\* A reward is stored: its row is one more that promises.
LEMMA DistributedSerial ==
  ASSUME Shapes, NothingMoves, Alone, RewardSerial, NEW j \in Jobs, Reward!onRewardDistributed(j)
  PROVE  Alone' /\ NothingMoves' /\ RewardSerial'
<1> DEFINE row == [user |-> jobs[j].ev.user, amount |-> jobs[j].ev.amount, claimed |-> FALSE]
           table == Append(db.rewards, row)
           n == Len(db.rewards) + 1
<1>1. jobs[j].kind = "onRewardDistributed" /\ Writes(j, "rewards", table)
  BY RewardBase DEF Reward!onRewardDistributed, At
<1>2. row.user = jobs[j].ev.user /\ row.amount = jobs[j].ev.amount /\ ~row.claimed
  OBVIOUS
<1> HIDE DEF row
<1>3. /\ IsFiniteSet(DOMAIN db.rewards) /\ n \notin DOMAIN db.rewards
      /\ DOMAIN table = DOMAIN db.rewards \union {n}
      /\ table[n] = row /\ \A i \in DOMAIN db.rewards : table[i] = db.rewards[i]
  <2>1. PICK S : db.rewards \in Seq(S)
    BY DEF Shapes, TableShapes
  <2>2. db.rewards \in Seq(S \union {row})
    <3>1. S \subseteq S \union {row}
      OBVIOUS
    <3>2. QED
      BY <2>1, <3>1
  <2>3. DOMAIN db.rewards = 1 .. Len(db.rewards) /\ Len(db.rewards) \in Nat
    BY <2>2
  <2>4. IsFiniteSet(1 .. Len(db.rewards))
    BY ONLY <2>3, FS_Interval
  <2>5. QED
    BY <2>2, <2>3, <2>4
<1> HIDE DEF table, n
<1>4. \A u : {i \in DOMAIN table : table[i].user = u /\ ~table[i].claimed}
               = IF u = jobs[j].ev.user THEN OpenRows(u) \union {n} ELSE OpenRows(u)
  BY <1>2, <1>3 DEF OpenRows
<1>5. ASSUME NEW u
      PROVE  /\ IsFiniteSet(OpenRows(u)) /\ n \notin OpenRows(u)
             /\ \A i \in OpenRows(u) : db.rewards[i].amount \in Nat /\ table[i].amount = db.rewards[i].amount
  <2>1. OpenRows(u) \subseteq DOMAIN db.rewards
    BY DEF OpenRows
  <2>2. IsFiniteSet(OpenRows(u))
    BY <1>3, <2>1, FS_Subset
  <2>3. QED
    BY <1>3, <2>1, <2>2 DEF Shapes, TableShapes
<1>6. ASSUME NEW u, u # jobs[j].ev.user
      PROVE  AmountSum(table, {i \in DOMAIN table : table[i].user = u /\ ~table[i].claimed}) = Promised(u)
  <2>1. AmountSum(table, OpenRows(u)) = AmountSum(db.rewards, OpenRows(u))
    BY <1>5, AmountSame
  <2>2. QED
    BY <1>4, <1>6, <2>1 DEF Promised
<1>7. ASSUME NEW u, u = jobs[j].ev.user
      PROVE  AmountSum(table, {i \in DOMAIN table : table[i].user = u /\ ~table[i].claimed}) = Due(u)
  <2>1. jobs[j].ev.amount \in Nat /\ Promised(u) + jobs[j].ev.amount = Due(u)
    BY <1>1, <1>7 DEF RewardSerial, RewardsOwed
  <2>2. PICK I, rows : I = OpenRows(u) /\ rows = db.rewards
    OBVIOUS
  <2>3. /\ IsFiniteSet(I) /\ n \notin I /\ table[n].amount \in Nat
        /\ \A i \in I : rows[i].amount \in Nat /\ table[i].amount = rows[i].amount
    BY <1>2, <1>3, <1>5, <2>1, <2>2
  <2>4. AmountSum(table, I \union {n}) = AmountSum(rows, I) + table[n].amount
    BY ONLY <2>3, AmountAdd
  <2>5. QED
    BY <1>2, <1>3, <1>4, <1>7, <2>1, <2>2, <2>4 DEF Promised
<1>8. QED
  BY <1>1, <1>6, <1>7, RewardsDone DEF RewardKinds

\* A claim is stored: no row of its user promises any more.
LEMMA ClaimedSerial ==
  ASSUME Shapes, NothingMoves, Alone, RewardSerial, NEW j \in Jobs, Reward!onRewardClaimed(j)
  PROVE  Alone' /\ NothingMoves' /\ RewardSerial'
<1> DEFINE table == [i \in DOMAIN db.rewards |->
              IF db.rewards[i].user = jobs[j].ev.user THEN [db.rewards[i] EXCEPT !.claimed = TRUE]
                                                      ELSE db.rewards[i]]
<1>1. jobs[j].kind = "onRewardClaimed" /\ Writes(j, "rewards", table)
  BY RewardBase DEF Reward!onRewardClaimed, At
<1>2. DOMAIN table = DOMAIN db.rewards
  OBVIOUS
<1>3. ASSUME NEW i \in DOMAIN db.rewards
      PROVE  /\ table[i].user = db.rewards[i].user /\ table[i].amount = db.rewards[i].amount
             /\ IF db.rewards[i].user = jobs[j].ev.user THEN table[i].claimed
                                                        ELSE table[i] = db.rewards[i]
  <2>1. db.rewards[i] = [user |-> db.rewards[i].user, amount |-> db.rewards[i].amount,
                         claimed |-> db.rewards[i].claimed]
    BY DEF Shapes, TableShapes
  <2>2. CASE db.rewards[i].user = jobs[j].ev.user
    <3>1. table[i] = [db.rewards[i] EXCEPT !.claimed = TRUE]
      BY <2>2
    <3> HIDE DEF table
    <3>2. table[i] = [user |-> db.rewards[i].user, amount |-> db.rewards[i].amount, claimed |-> TRUE]
      BY ONLY <2>1, <3>1
    <3>3. table[i].user = db.rewards[i].user /\ table[i].amount = db.rewards[i].amount /\ table[i].claimed
      BY <3>2
    <3>4. QED
      BY <2>2, <3>3
  <2>3. CASE db.rewards[i].user # jobs[j].ev.user
    BY <2>3
  <2>4. QED
    BY <2>2, <2>3
<1> HIDE DEF table
<1>4. ASSUME NEW u, u # jobs[j].ev.user
      PROVE  AmountSum(table, {i \in DOMAIN table : table[i].user = u /\ ~table[i].claimed}) = Promised(u)
  <2>1. {i \in DOMAIN table : table[i].user = u /\ ~table[i].claimed} = OpenRows(u)
    BY <1>2, <1>3, <1>4 DEF OpenRows
  <2>2. \A i \in OpenRows(u) : table[i].amount = db.rewards[i].amount
    BY <1>3 DEF OpenRows
  <2>3. QED
    BY <2>1, <2>2, AmountSame DEF Promised
<1>5. ASSUME NEW u, u = jobs[j].ev.user
      PROVE  AmountSum(table, {i \in DOMAIN table : table[i].user = u /\ ~table[i].claimed}) = Due(u)
  <2>1. Due(u) = 0
    BY <1>1, <1>5 DEF RewardSerial, RewardsOwed
  <2>2. {i \in DOMAIN table : table[i].user = u /\ ~table[i].claimed} = {}
    BY <1>2, <1>3, <1>5
  <2>3. QED
    BY <2>1, <2>2, AmountNone
<1>6. QED
  BY <1>1, <1>4, <1>5, RewardsDone DEF RewardKinds

-----------------------------------------------------------------------------
\* What a job of the distributors leaves to the rewards.
LEMMA RewardsBeside ==
  ASSUME RewardsOwed, log' = log, db'.rewards = db.rewards, NEW j \in Jobs, NEW q, JobMoves(j, q),
         jobs[j].kind \in DistributorKinds, q.kind \in DistributorKinds \union {"idle"}
  PROVE  RewardsOwed'
<1>1. \A u : Due(u)' = Due(u)
  BY DueSame
<1>2. \A k \in Jobs : jobs[k].kind \in RewardKinds \/ jobs'[k].kind \in RewardKinds => jobs'[k] = jobs[k]
  BY DEF JobMoves, RewardKinds, DistributorKinds
<1>3. QED
  BY <1>1, <1>2, RewardsStay

\* findOne finds a row of the distributor, or nothing.
LEMMA FirstRowFound ==
  ASSUME DistributorsOwed, NEW d, Reward!FirstRow(d) # <<>>
  PROVE  Reward!FirstRow(d)[1] \in Reward!RowsOf(d)
<1> DEFINE least == CHOOSE i \in Reward!RowsOf(d) : \A k \in Reward!RowsOf(d) : i <= k
<1>1. PICK S : db.distributors \in Seq(S)
  BY DEF DistributorsOwed
<1>2. Reward!RowsOf(d) \in SUBSET Nat
  BY <1>1 DEF Reward!RowsOf
<1>3. Reward!RowsOf(d) # {}
  BY DEF Reward!FirstRow
<1>4. \E i \in Reward!RowsOf(d) : \A k \in Reward!RowsOf(d) : i <= k
  BY <1>2, <1>3, NatSmallest
<1>5. least \in Reward!RowsOf(d)
  BY <1>4
<1>6. Reward!FirstRow(d) = <<least>>
  BY <1>3 DEF Reward!FirstRow
<1> HIDE DEF least
<1>7. QED
  BY <1>5, <1>6

\* A job finds the first row of its distributor.
LEMMA FindDistributorSerial ==
  ASSUME Shapes, NothingMoves, Alone, RewardSerial, NEW j \in Jobs,
         jobs[j].kind \in {"authorizeDistributor", "onDistributorAuthorized"}, jobs[j].at # "tx",
         Reward!FindDistributor(j)
  PROVE  Alone' /\ NothingMoves' /\ RewardSerial'
<1>0. PICK d, found : d = jobs[j].ev.user /\ found = Reward!FirstRow(d)
  OBVIOUS
<1> DEFINE q == [kind |-> jobs[j].kind, at |-> "saveDistributor", ev |-> jobs[j].ev, found |-> found]
<1>1. Reads(j, "saveDistributor", found)
  BY <1>0, RewardBase DEF Reward!FindDistributor
<1>2. db' = db /\ log' = log /\ Alone' /\ NothingMoves' /\ JobMoves(j, q)
  BY <1>1, QuietReads
<1>3. q.kind = jobs[j].kind /\ q.at = "saveDistributor" /\ q.ev = jobs[j].ev /\ q.found = found
  OBVIOUS
<1> HIDE DEF q
<1>4. jobs'[j] = q /\ \A k \in Jobs \ {j} : jobs'[k] = jobs[k]
  BY <1>2 DEF JobMoves
<1>5. RewardsOwed'
  <2>1. jobs[j].kind \in DistributorKinds /\ q.kind \in DistributorKinds \union {"idle"}
    BY <1>3 DEF DistributorKinds
  <2>2. QED
    BY <1>2, <2>1, RewardsBeside DEF RewardSerial
<1>6. \A k \in Jobs : \A c : (Authorizing(k, c)' <=> Authorizing(k, c)) /\ (Revoking(k, c)' <=> Revoking(k, c))
  BY <1>3, <1>4 DEF Authorizing, Revoking
<1>7. /\ \A c : Reward!isAuthorizedDistributor(c)' <=> Reward!isAuthorizedDistributor(c)
      /\ \A c : c \in Reward!distributorsEndpoint' <=> c \in Reward!distributorsEndpoint
      /\ \A c : Reward!RowsOf(c)' = Reward!RowsOf(c)
  BY <1>2, DueSame DEF Reward!distributorsEndpoint, Reward!getAuthorizedDistributors, Reward!RowsOf
<1>8. ASSUME NEW k \in Jobs, jobs'[k].kind \in {"authorizeDistributor", "onDistributorAuthorized"},
             jobs'[k].at = "saveDistributor", jobs'[k].found # <<>>
      PROVE  \A c : c = jobs'[k].ev.user => jobs'[k].found[1] \in Reward!RowsOf(c)'
  <2>1. CASE k = j
    <3>1. found # <<>>
      BY <1>3, <1>4, <1>8, <2>1
    <3>2. found[1] \in Reward!RowsOf(d)
      BY <1>0, <3>1, FirstRowFound DEF RewardSerial
    <3>3. QED
      BY <1>0, <1>3, <1>4, <1>7, <2>1, <3>2
  <2>2. CASE k # j
    BY <1>4, <1>7, <1>8, <2>2 DEF RewardSerial, DistributorsOwed
  <2>3. QED
    BY <2>1, <2>2
<1>9. DistributorsOwed'
  <2>1. \A c : \/ (c \in Reward!distributorsEndpoint)' <=> Reward!isAuthorizedDistributor(c)'
               \/ \E k \in Jobs : Authorizing(k, c)' \/ Revoking(k, c)'
    BY <1>6, <1>7 DEF RewardSerial, DistributorsOwed
  <2>2. \A k \in Jobs : \A c : /\ Authorizing(k, c)' => Reward!isAuthorizedDistributor(c)'
                               /\ Revoking(k, c)' => ~Reward!isAuthorizedDistributor(c)'
    BY <1>6, <1>7 DEF RewardSerial, DistributorsOwed
  <2>3. ASSUME NEW k \in Jobs
        PROVE  (jobs[k].kind \in {"authorizeDistributor", "onDistributorAuthorized"}
                /\ jobs[k].at = "saveDistributor" /\ jobs[k].found # <<>> =>
                  jobs[k].found[1] \in Reward!RowsOf(jobs[k].ev.user))'
    BY <1>8 DEF Reward!RowsOf
  <2>4. /\ \E S : db'.distributors \in Seq(S)
        /\ \A i \in DOMAIN db'.distributors :
             db'.distributors[i] = [user |-> db'.distributors[i].user,
                                    authorized |-> db'.distributors[i].authorized]
    BY <1>2 DEF RewardSerial, DistributorsOwed
  <2>5. QED
    BY <2>1, <2>2, <2>3, <2>4 DEF DistributorsOwed
<1>10. EndpointEvents'
  <2>1. \A k \in Jobs : jobs'[k].kind = jobs[k].kind /\ jobs'[k].ev = jobs[k].ev
    BY <1>3, <1>4
  <2>2. QED
    BY <2>1 DEF RewardSerial, EndpointEvents
<1>11. QED
  BY <1>2, <1>5, <1>9, <1>10 DEF RewardSerial

\* A job writes rows of its own distributor, who is then listed as the contract says.
LEMMA DistributorWritten ==
  ASSUME Shapes, NothingMoves, Alone, RewardSerial, NEW j \in Jobs, jobs[j].kind \in DistributorKinds,
         NEW table, Writes(j, "distributors", table), \E S : table \in Seq(S),
         \A i \in DOMAIN table : table[i] = [user |-> table[i].user, authorized |-> table[i].authorized],
         DOMAIN db.distributors \subseteq DOMAIN table,
         \A i \in DOMAIN db.distributors : table[i].user = db.distributors[i].user,
         \A i \in DOMAIN table :
           table[i].user = jobs[j].ev.user \/ (i \in DOMAIN db.distributors /\ table[i] = db.distributors[i]),
         \A d : d = jobs[j].ev.user =>
           ((\E i \in DOMAIN table : table[i].authorized /\ table[i].user = d)
              <=> Reward!isAuthorizedDistributor(d))
  PROVE  Alone' /\ NothingMoves' /\ RewardSerial'
<1>1. "distributors" \in TableNames \ {"pools", "balances"} /\ "rewards" \in TableNames \ {"distributors"}
  BY DEF TableNames
<1>2. /\ log' = log /\ Alone' /\ NothingMoves' /\ JobMoves(j, Idle)
      /\ db'.distributors = table /\ db'.rewards = db.rewards
  BY <1>1, QuietWrites
<1>3. jobs'[j].kind = "idle" /\ \A k \in Jobs \ {j} : jobs'[k] = jobs[k]
  BY <1>2 DEF JobMoves, Idle
<1>4. RewardsOwed'
  <2>1. Idle.kind = "idle"
    BY DEF Idle
  <2>2. QED
    BY <1>2, <2>1, RewardsBeside DEF RewardSerial
<1>5. \A d : Reward!isAuthorizedDistributor(d)' <=> Reward!isAuthorizedDistributor(d)
  BY <1>2, DueSame
<1>6. \A d : d \in Reward!distributorsEndpoint' <=>
               \E i \in DOMAIN table : table[i].authorized /\ table[i].user = d
  BY <1>2 DEF Reward!distributorsEndpoint, Reward!getAuthorizedDistributors
<1>7. \A d : d # jobs[j].ev.user => (d \in Reward!distributorsEndpoint' <=> d \in Reward!distributorsEndpoint)
  <2> SUFFICES ASSUME NEW d, d # jobs[j].ev.user
               PROVE  (\E i \in DOMAIN table : table[i].authorized /\ table[i].user = d)
                      <=> \E i \in DOMAIN db.distributors :
                            db.distributors[i].authorized /\ db.distributors[i].user = d
    BY <1>6, Listed
  <2>1. \A i \in DOMAIN table : table[i].user = d => i \in DOMAIN db.distributors /\ table[i] = db.distributors[i]
    OBVIOUS
  <2>2. \A i \in DOMAIN db.distributors : db.distributors[i].user = d => table[i] = db.distributors[i]
    BY <2>1
  <2>3. QED
    BY <2>1, <2>2
<1>8. \A k \in Jobs \ {j} : \A d : (Authorizing(k, d)' <=> Authorizing(k, d)) /\ (Revoking(k, d)' <=> Revoking(k, d))
  BY <1>3 DEF Authorizing, Revoking
<1>9. \A d : ~Authorizing(j, d)' /\ ~Revoking(j, d)'
  BY <1>3 DEF Authorizing, Revoking
<1>10. ASSUME NEW d
       PROVE  \/ (d \in Reward!distributorsEndpoint)' <=> Reward!isAuthorizedDistributor(d)'
              \/ \E k \in Jobs : Authorizing(k, d)' \/ Revoking(k, d)'
  <2>1. CASE d = jobs[j].ev.user
    BY <1>5, <1>6, <2>1
  <2>2. CASE d # jobs[j].ev.user
    <3>1. ~Authorizing(j, d) /\ ~Revoking(j, d)
      BY <2>2 DEF Authorizing, Revoking
    <3>2. QED
      BY <1>5, <1>7, <1>8, <2>2, <3>1 DEF RewardSerial, DistributorsOwed
  <2>3. QED
    BY <2>1, <2>2
<1>11. \A k \in Jobs : \A d : /\ Authorizing(k, d)' => Reward!isAuthorizedDistributor(d)'
                              /\ Revoking(k, d)' => ~Reward!isAuthorizedDistributor(d)'
  BY <1>5, <1>8, <1>9 DEF RewardSerial, DistributorsOwed
<1>12. \A d : Reward!RowsOf(d) \subseteq Reward!RowsOf(d)'
  BY <1>2 DEF Reward!RowsOf
<1>13. ASSUME NEW k \in Jobs, jobs'[k].kind \in {"authorizeDistributor", "onDistributorAuthorized"},
              jobs'[k].at = "saveDistributor", jobs'[k].found # <<>>
       PROVE  \A c : c = jobs'[k].ev.user => jobs'[k].found[1] \in Reward!RowsOf(c)'
  <2>1. jobs'[k] = jobs[k]
    BY <1>3, <1>13
  <2>2. \A c : c = jobs[k].ev.user => jobs[k].found[1] \in Reward!RowsOf(c)
    BY <1>13, <2>1 DEF RewardSerial, DistributorsOwed
  <2>3. QED
    BY <1>12, <2>1, <2>2
<1>14. DistributorsOwed'
  <2>1. ASSUME NEW k \in Jobs
        PROVE  (jobs[k].kind \in {"authorizeDistributor", "onDistributorAuthorized"}
                /\ jobs[k].at = "saveDistributor" /\ jobs[k].found # <<>> =>
                  jobs[k].found[1] \in Reward!RowsOf(jobs[k].ev.user))'
    BY <1>13 DEF Reward!RowsOf
  <2>2. /\ \E S : db'.distributors \in Seq(S)
        /\ \A i \in DOMAIN db'.distributors :
             db'.distributors[i] = [user |-> db'.distributors[i].user,
                                    authorized |-> db'.distributors[i].authorized]
    BY <1>2
  <2>3. QED
    BY <1>10, <1>11, <2>1, <2>2 DEF DistributorsOwed
<1>15. EndpointEvents'
  BY <1>3 DEF RewardSerial, EndpointEvents
<1>16. QED
  BY <1>2, <1>4, <1>14, <1>15 DEF RewardSerial

\* A distributor is saved: the row found, or a new one, is authorized.
LEMMA SaveDistributorSerial ==
  ASSUME Shapes, NothingMoves, Alone, RewardSerial, NEW j \in Jobs,
         jobs[j].kind \in {"authorizeDistributor", "onDistributorAuthorized"},
         jobs[j].at = "saveDistributor", Reward!SaveDistributor(j)
  PROVE  Alone' /\ NothingMoves' /\ RewardSerial'
<1>0. PICK d, rows : d = jobs[j].ev.user /\ rows = db.distributors
  OBVIOUS
<1> DEFINE row == [user |-> d, authorized |-> TRUE]
<1>1. PICK S : rows \in Seq(S)
  BY <1>0 DEF RewardSerial, DistributorsOwed
<1>2. \A i \in DOMAIN rows : rows[i] = [user |-> rows[i].user, authorized |-> rows[i].authorized]
  BY <1>0 DEF RewardSerial, DistributorsOwed
<1>3. row = [user |-> row.user, authorized |-> row.authorized] /\ row.user = d /\ row.authorized
  OBVIOUS
<1>4. Reward!isAuthorizedDistributor(d)
  BY <1>0 DEF RewardSerial, DistributorsOwed, Authorizing
<1>5. PICK table, n :
        /\ Writes(j, "distributors", table)
        /\ DOMAIN table = DOMAIN rows \union {n} /\ table[n] = row
        /\ \A i \in DOMAIN rows \ {n} : table[i] = rows[i]
        /\ n \in DOMAIN rows => rows[n].user = d
        /\ \E T : table \in Seq(T)
  <2>1. CASE jobs[j].found = <<>>
    <3>1. Writes(j, "distributors", Append(rows, row))
      BY <1>0, <2>1, RewardBase DEF Reward!SaveDistributor
    <3> HIDE DEF row
    <3>2. rows \in Seq(S \union {row})
      <4>1. S \subseteq S \union {row}
        OBVIOUS
      <4>2. QED
        BY <1>1, <4>1
    <3>3. PICK table, n : table = Append(rows, row) /\ n = Len(rows) + 1
      OBVIOUS
    <3>4. /\ table \in Seq(S \union {row})
          /\ DOMAIN table = DOMAIN rows \union {n} /\ table[n] = row /\ n \notin DOMAIN rows
          /\ \A i \in DOMAIN rows : table[i] = rows[i]
      BY <3>2, <3>3
    <3>5. Writes(j, "distributors", table)
      BY <3>1, <3>3
    <3>6. QED
      BY <3>4, <3>5
  <2>2. CASE jobs[j].found # <<>>
    <3>1. PICK n : n = jobs[j].found[1]
      OBVIOUS
    <3>2. n \in DOMAIN rows /\ rows[n].user = d
      BY <1>0, <2>2, <3>1 DEF RewardSerial, DistributorsOwed, Reward!RowsOf
    <3>3. PICK table : table = [rows EXCEPT ![n].authorized = TRUE]
      OBVIOUS
    <3>4. Writes(j, "distributors", table)
      BY <1>0, <2>2, <3>1, <3>3, RewardBase DEF Reward!SaveDistributor
    <3>5. rows[n] = [user |-> rows[n].user, authorized |-> rows[n].authorized]
      BY <1>2, <3>2
    <3>6. rows = [i \in DOMAIN rows |-> rows[i]]
      BY <1>1
    <3>7. /\ DOMAIN table = DOMAIN rows /\ \A i \in DOMAIN rows \ {n} : table[i] = rows[i]
          /\ table[n] = [rows[n] EXCEPT !.authorized = TRUE]
      BY ONLY <3>2, <3>3, <3>6
    <3>8. table[n] = row
      <4>1. table[n] = [user |-> rows[n].user, authorized |-> TRUE]
        BY ONLY <3>5, <3>7
      <4>2. QED
        BY <3>2, <4>1
    <3>9. table \in Seq(S \union {row})
      <4>1. DOMAIN rows = 1 .. Len(rows) /\ Len(rows) \in Nat /\ \A i \in DOMAIN rows : rows[i] \in S
        BY <1>1
      <4>2. table = [i \in DOMAIN rows |-> table[i]]
        BY ONLY <3>2, <3>3, <3>6
      <4> HIDE DEF row
      <4>3. \A i \in DOMAIN rows : table[i] \in S \union {row}
        BY <3>7, <3>8, <4>1
      <4>4. table \in [1 .. Len(rows) -> S \union {row}]
        BY <4>1, <4>2, <4>3
      <4>5. QED
        BY <4>1, <4>4
    <3>10. DOMAIN table = DOMAIN rows \union {n}
      BY <3>2, <3>7
    <3> HIDE DEF row
    <3>11. QED
      BY <3>2, <3>4, <3>7, <3>8, <3>9, <3>10
  <2>3. QED
    BY <2>1, <2>2
<1> HIDE DEF row
<1>6. \A i \in DOMAIN table : table[i] = [user |-> table[i].user, authorized |-> table[i].authorized]
  <2> SUFFICES ASSUME NEW i \in DOMAIN table
               PROVE  table[i] = [user |-> table[i].user, authorized |-> table[i].authorized]
    OBVIOUS
  <2>1. CASE i = n
    BY <1>3, <1>5, <2>1
  <2>2. CASE i # n
    BY <1>2, <1>5, <2>2
  <2>3. QED
    BY <2>1, <2>2
<1>7. /\ DOMAIN rows \subseteq DOMAIN table
      /\ \A i \in DOMAIN rows : table[i].user = rows[i].user
      /\ \A i \in DOMAIN table : table[i].user = d \/ (i \in DOMAIN rows /\ table[i] = rows[i])
  BY <1>3, <1>5
<1>8. \E i \in DOMAIN table : table[i].authorized /\ table[i].user = d
  BY <1>3, <1>5
<1>9. jobs[j].kind \in DistributorKinds
  BY DEF DistributorKinds
<1>10. /\ DOMAIN db.distributors \subseteq DOMAIN table
       /\ \A i \in DOMAIN db.distributors : table[i].user = db.distributors[i].user
       /\ \A i \in DOMAIN table :
            table[i].user = jobs[j].ev.user \/ (i \in DOMAIN db.distributors /\ table[i] = db.distributors[i])
       /\ \A c : c = jobs[j].ev.user =>
            ((\E i \in DOMAIN table : table[i].authorized /\ table[i].user = c)
               <=> Reward!isAuthorizedDistributor(c))
  BY <1>0, <1>4, <1>7, <1>8
<1>11. Writes(j, "distributors", table) /\ \E S1 : table \in Seq(S1)
  BY <1>5
<1>12. QED
  BY <1>6, <1>9, <1>10, <1>11, DistributorWritten

\* A distributor's rows are revoked.
LEMMA RevokeRowsSerial ==
  ASSUME Shapes, NothingMoves, Alone, RewardSerial, NEW j \in Jobs,
         jobs[j].kind \in {"revokeDistributor", "onDistributorRevoked"}, jobs[j].at # "tx",
         Reward!RevokeRows(j)
  PROVE  Alone' /\ NothingMoves' /\ RewardSerial'
<1>0. PICK d, rows : d = jobs[j].ev.user /\ rows = db.distributors
  OBVIOUS
<1>1. PICK S : rows \in Seq(S)
  BY <1>0 DEF RewardSerial, DistributorsOwed
<1>2. \A i \in DOMAIN rows : rows[i] = [user |-> rows[i].user, authorized |-> rows[i].authorized]
  BY <1>0 DEF RewardSerial, DistributorsOwed
<1>3. ~Reward!isAuthorizedDistributor(d)
  BY <1>0 DEF RewardSerial, DistributorsOwed, Revoking
<1> DEFINE table == [i \in DOMAIN rows |-> IF i \in Reward!RowsOf(d) THEN [rows[i] EXCEPT !.authorized = FALSE]
                                                                     ELSE rows[i]]
<1>4. Writes(j, "distributors", table)
  <2>1. Reward!Writes(j, "distributors", table)
    BY <1>0 DEF Reward!RevokeRows
  <2>2. QED
    BY <2>1, RewardBase
<1>5. DOMAIN table = DOMAIN rows /\ table = [i \in DOMAIN rows |-> table[i]]
  OBVIOUS
<1>6. ASSUME NEW i \in DOMAIN rows
      PROVE  IF rows[i].user = d THEN table[i] = [user |-> d, authorized |-> FALSE] ELSE table[i] = rows[i]
  <2>1. i \in Reward!RowsOf(d) <=> rows[i].user = d
    BY <1>0 DEF Reward!RowsOf
  <2>2. CASE rows[i].user = d
    <3>1. table[i] = [rows[i] EXCEPT !.authorized = FALSE]
      BY <2>1, <2>2
    <3>2. rows[i] = [user |-> rows[i].user, authorized |-> rows[i].authorized]
      BY <1>2
    <3> HIDE DEF table
    <3>3. table[i] = [user |-> rows[i].user, authorized |-> FALSE]
      BY ONLY <3>1, <3>2
    <3>4. QED
      BY <2>2, <3>3
  <2>3. CASE rows[i].user # d
    BY <2>1, <2>3
  <2>4. QED
    BY <2>2, <2>3
<1> HIDE DEF table
<1>7. \E T : table \in Seq(T)
  <2>1. DOMAIN rows = 1 .. Len(rows) /\ Len(rows) \in Nat
    BY <1>1
  <2> DEFINE R == {table[i] : i \in DOMAIN rows}
  <2>2. \A i \in DOMAIN rows : table[i] \in R
    OBVIOUS
  <2> HIDE DEF R
  <2>3. table \in [1 .. Len(rows) -> R]
    BY <1>5, <2>1, <2>2
  <2>4. table \in Seq(R)
    BY <2>1, <2>3
  <2>5. QED
    BY <2>4
<1>8. \A i \in DOMAIN table : table[i] = [user |-> table[i].user, authorized |-> table[i].authorized]
  <2> SUFFICES ASSUME NEW i \in DOMAIN rows
               PROVE  table[i] = [user |-> table[i].user, authorized |-> table[i].authorized]
    BY <1>5
  <2>1. CASE rows[i].user = d
    BY <1>6, <2>1
  <2>2. CASE rows[i].user # d
    BY <1>2, <1>6, <2>2
  <2>3. QED
    BY <2>1, <2>2
<1>9. /\ \A i \in DOMAIN rows : table[i].user = rows[i].user
      /\ \A i \in DOMAIN rows : table[i].user = d \/ table[i] = rows[i]
      /\ \A i \in DOMAIN rows : ~(table[i].authorized /\ table[i].user = d)
  <2> SUFFICES ASSUME NEW i \in DOMAIN rows
               PROVE  /\ table[i].user = rows[i].user
                      /\ table[i].user = d \/ table[i] = rows[i]
                      /\ ~(table[i].authorized /\ table[i].user = d)
    OBVIOUS
  <2>1. CASE rows[i].user = d
    BY <1>6, <2>1
  <2>2. CASE rows[i].user # d
    BY <1>6, <2>2
  <2>3. QED
    BY <2>1, <2>2
<1>10. jobs[j].kind \in DistributorKinds
  BY DEF DistributorKinds
<1>11. /\ DOMAIN db.distributors \subseteq DOMAIN table
       /\ \A i \in DOMAIN db.distributors : table[i].user = db.distributors[i].user
       /\ \A i \in DOMAIN table :
            table[i].user = jobs[j].ev.user \/ (i \in DOMAIN db.distributors /\ table[i] = db.distributors[i])
       /\ \A c : c = jobs[j].ev.user =>
            ((\E i \in DOMAIN table : table[i].authorized /\ table[i].user = c)
               <=> Reward!isAuthorizedDistributor(c))
  BY <1>0, <1>3, <1>5, <1>9
<1>12. QED
  BY <1>4, <1>7, <1>8, <1>10, <1>11, DistributorWritten

\* The transaction of an endpoint that authorizes or revokes: without effect, or its
\* distributor is now owed to the endpoint and to the handler beside it.
LEMMA DistributorTransacts ==
  ASSUME Shapes, NothingMoves, Alone, RewardSerial, tidy', NEW c \in Jobs, NEW h, NEW at,
         jobs[c].at = "tx", Transacts(c, h, at, at),
         \/ jobs[c].kind = "authorizeDistributor" /\ h = "onDistributorAuthorized" /\ at = "findDistributor"
         \/ jobs[c].kind = "revokeDistributor" /\ h = "onDistributorRevoked" /\ at = "update"
  PROVE  Alone' /\ NothingMoves' /\ RewardSerial'
<1>1. /\ db' = db
      /\ \/ log' = log /\ JobMoves(c, Idle)
         \/ TransactionDone(c, h, at, at)
  BY TidyTransacts
<1>2. \A k \in Jobs \ {c} : jobs[k].kind = "idle"
  BY DEF Alone, Running
<1>3. jobs[c].kind \in DistributorKinds
  BY DEF DistributorKinds
<1>4. CASE log' = log /\ JobMoves(c, Idle)
  <2>1. jobs'[c].kind = "idle" /\ \A k \in Jobs \ {c} : jobs'[k] = jobs[k]
    BY <1>4 DEF JobMoves, Idle
  <2>2. Alone' /\ NothingMoves'
    BY <1>1, <1>4, AloneEnds, NothingNext
  <2>3. RewardsOwed'
    <3>1. Idle.kind = "idle" /\ db'.rewards = db.rewards
      BY <1>1 DEF Idle
    <3>2. QED
      BY <1>3, <1>4, <3>1, RewardsBeside DEF RewardSerial
  <2>4. DistributorsOwed' /\ EndpointEvents'
    <3>1. \A d : Reward!isAuthorizedDistributor(d)' <=> Reward!isAuthorizedDistributor(d)
      BY <1>4, DueSame
    <3>2. \A k \in Jobs :
            \/ jobs'[k] = jobs[k]
            \/ (jobs[k].kind \notin DistributorKinds \/ jobs[k].at = "tx") /\ jobs'[k].kind \notin DistributorKinds
      BY <2>1 DEF DistributorKinds
    <3>3. db'.distributors = db.distributors
      BY <1>1
    <3>4. QED
      BY <3>1, <3>2, <3>3, DistributorsStay DEF RewardSerial
  <2>5. QED
    BY <2>2, <2>3, <2>4 DEF RewardSerial
<1>5. CASE TransactionDone(c, h, at, at)
  <2>1. PICK e, d : e = jobs[c].ev /\ d = e.user
    OBVIOUS
  <2>2. e.name = IF jobs[c].kind = "authorizeDistributor" THEN "DistributorAuthorized" ELSE "DistributorRevoked"
    BY <2>1 DEF RewardSerial, EndpointEvents
  <2>3. log' = Append(log, e)
    BY <1>5, <2>1 DEF TransactionDone
  <2>4. /\ jobs'[c].kind = jobs[c].kind /\ jobs'[c].ev = e /\ jobs'[c].at = at
        /\ \A k \in Jobs \ {c} : jobs'[k].kind = "idle"
                                  \/ (jobs'[k].kind = h /\ jobs'[k].ev = e /\ jobs'[k].at = at)
    BY <1>5, <2>1 DEF TransactionDone, Job
  <2>5. Alone'
    BY <1>5, AloneTransacts DEF Beside
  <2>6. NothingMoves'
    <3>1. ~Vault!Moves(e)
      BY <2>2 DEF Vault!Moves
    <3>2. QED
      BY <1>1, <2>3, <3>1, NothingNext
  <2>7. /\ \A u : Due(u)' = Due(u)
        /\ e.name = "DistributorAuthorized" => \A b : b = e.user => Reward!isAuthorizedDistributor(b)'
        /\ e.name = "DistributorRevoked" => \A b : b = e.user => ~Reward!isAuthorizedDistributor(b)'
        /\ \A b : b # e.user => (Reward!isAuthorizedDistributor(b)' <=> Reward!isAuthorizedDistributor(b))
    BY <2>2, <2>3, DueAppended
  <2>8. RewardsOwed'
    <3>1. \A k \in Jobs : jobs[k].kind \notin RewardKinds /\ jobs'[k].kind \notin RewardKinds
      BY <1>2, <2>4 DEF RewardKinds
    <3>2. db'.rewards = db.rewards
      BY <1>1
    <3>3. QED
      BY <2>7, <3>1, <3>2, RewardsStay DEF RewardSerial
  <2>9. \A b : b \in Reward!distributorsEndpoint' <=> b \in Reward!distributorsEndpoint
    BY <1>1 DEF Reward!distributorsEndpoint, Reward!getAuthorizedDistributors
  <2>10. \A k \in Jobs : \A b : ~Authorizing(k, b) /\ ~Revoking(k, b)
    BY <1>2 DEF Authorizing, Revoking
  <2>11. Authorizing(c, d)' \/ Revoking(c, d)'
    BY <2>1, <2>4 DEF Authorizing, Revoking
  <2>12. \A k \in Jobs : \A b :
           /\ Authorizing(k, b)' => b = e.user /\ e.name = "DistributorAuthorized"
           /\ Revoking(k, b)' => b = e.user /\ e.name = "DistributorRevoked"
    BY <2>2, <2>4 DEF Authorizing, Revoking
  <2>13. DistributorsOwed'
    <3>1. ASSUME NEW b
          PROVE  \/ (b \in Reward!distributorsEndpoint)' <=> Reward!isAuthorizedDistributor(b)'
                 \/ \E k \in Jobs : Authorizing(k, b)' \/ Revoking(k, b)'
      <4>1. CASE b = d
        BY <2>11, <4>1 DEF Authorizing, Revoking
      <4>2. CASE b # d
        <5>1. b \in Reward!distributorsEndpoint <=> Reward!isAuthorizedDistributor(b)
          BY <2>10 DEF RewardSerial, DistributorsOwed
        <5>2. QED
          BY <2>1, <2>7, <2>9, <4>2, <5>1
      <4>3. QED
        BY <4>1, <4>2
    <3>2. \A k \in Jobs : \A b : /\ Authorizing(k, b)' => Reward!isAuthorizedDistributor(b)'
                                 /\ Revoking(k, b)' => ~Reward!isAuthorizedDistributor(b)'
      BY <2>7, <2>12
    <3>3. \A k \in Jobs :
            ~(jobs'[k].kind \in {"authorizeDistributor", "onDistributorAuthorized"} /\ jobs'[k].at = "saveDistributor")
      BY <2>4
    <3>4. /\ \E S : db'.distributors \in Seq(S)
          /\ \A i \in DOMAIN db'.distributors :
               db'.distributors[i] = [user |-> db'.distributors[i].user,
                                      authorized |-> db'.distributors[i].authorized]
      BY <1>1 DEF RewardSerial, DistributorsOwed
    <3>5. QED
      BY <3>1, <3>2, <3>3, <3>4 DEF DistributorsOwed
  <2>14. EndpointEvents'
    BY <2>2, <2>4 DEF EndpointEvents
  <2>15. QED
    BY <2>5, <2>6, <2>8, <2>13, <2>14 DEF RewardSerial
<1>6. QED
  BY <1>1, <1>4, <1>5

\* The steps of the rewards.
LEMMA RewardStepSerial ==
  ASSUME Shapes, NothingMoves, Alone, RewardSerial, tidy', NEW j \in Jobs,
         \/ Reward!onRewardDistributed(j)
         \/ Reward!onRewardClaimed(j)
         \/ Reward!onDistributorAuthorized(j)
         \/ Reward!onDistributorRevoked(j)
         \/ Reward!authorizeDistributor(j)
         \/ Reward!revokeDistributor(j)
  PROVE  Alone' /\ NothingMoves' /\ RewardSerial'
<1>1. CASE Reward!onDistributorAuthorized(j)
  BY <1>1, FindDistributorSerial, SaveDistributorSerial DEF Reward!onDistributorAuthorized, Reward!At
<1>2. CASE Reward!onDistributorRevoked(j)
  BY <1>2, RevokeRowsSerial DEF Reward!onDistributorRevoked, Reward!At
<1>3. CASE Reward!authorizeDistributor(j)
  <2>1. CASE jobs[j].at = "tx"
    <3>1. /\ jobs[j].kind = "authorizeDistributor"
          /\ Transacts(j, "onDistributorAuthorized", "findDistributor", "findDistributor")
      BY <1>3, <2>1, RewardBase DEF Reward!authorizeDistributor, Reward!At
    <3>2. QED
      BY <2>1, <3>1, DistributorTransacts
  <2>2. CASE jobs[j].at # "tx"
    BY <1>3, <2>2, FindDistributorSerial, SaveDistributorSerial DEF Reward!authorizeDistributor, Reward!At
  <2>3. QED
    BY <2>1, <2>2
<1>4. CASE Reward!revokeDistributor(j)
  <2>1. CASE jobs[j].at = "tx"
    <3>1. jobs[j].kind = "revokeDistributor" /\ Transacts(j, "onDistributorRevoked", "update", "update")
      BY <1>4, <2>1, RewardBase DEF Reward!revokeDistributor, Reward!At
    <3>2. QED
      BY <2>1, <3>1, DistributorTransacts
  <2>2. CASE jobs[j].at # "tx"
    BY <1>4, <2>2, RevokeRowsSerial DEF Reward!revokeDistributor, Reward!At
  <2>3. QED
    BY <2>1, <2>2
<1>5. QED
  BY <1>1, <1>2, <1>3, <1>4, DistributedSerial, ClaimedSerial

\* The rewards at rest.
LEMMA RewardUnmoved == ASSUME RewardSerial, Unmoved PROVE RewardSerial'
<1>1. db' = db /\ log' = log
  BY DEF Unmoved
<1>2. /\ \A u : Due(u)' = Due(u)
      /\ \A d : Reward!isAuthorizedDistributor(d)' <=> Reward!isAuthorizedDistributor(d)
  BY <1>1, DueSame
<1>3. RewardsOwed'
  <2>1. \A k \in Jobs : jobs[k].kind \in RewardKinds \/ jobs'[k].kind \in RewardKinds => jobs'[k] = jobs[k]
    BY DEF Unmoved, RewardKinds
  <2>2. db'.rewards = db.rewards
    BY <1>1
  <2>3. QED
    BY <1>2, <2>1, <2>2, RewardsStay DEF RewardSerial
<1>4. DistributorsOwed' /\ EndpointEvents'
  <2>1. \A k \in Jobs :
          jobs'[k] = jobs[k] \/ (jobs[k].kind \notin DistributorKinds /\ jobs'[k].kind \notin DistributorKinds)
    BY DEF Unmoved, DistributorKinds
  <2>2. db'.distributors = db.distributors
    BY <1>1
  <2>3. QED
    BY <1>2, <2>1, <2>2, DistributorsStay DEF RewardSerial
<1>5. QED
  BY <1>3, <1>4 DEF RewardSerial

-----------------------------------------------------------------------------
\* The oracle's reads, over the log.
LEMMA OracleIsLatest ==
  /\ \A p : Oracle!getPoolMetrics(p) = IF Oracle!MetricsEvents(p) = {} THEN [c \in Oracle!Columns |-> 0]
                                       ELSE log[Max(Oracle!MetricsEvents(p))].metrics
  /\ \A p, q : Oracle!getCorrelation(p, q) = IF PairOf(p, q) = {} THEN 0
                                             ELSE log[Max(PairOf(p, q))].correlation
  /\ \A p, q : Latest(PairOf(p, q)) = log[Max(PairOf(p, q))]
BY Zenon DEF Oracle!getPoolMetrics, Oracle!getCorrelation, PairOf, Oracle!Latest, Oracle!Max, Max, Latest

\* What the oracle was last sent, after an event.
LEMMA OracleAppended ==
  ASSUME Shapes, NEW e, log' = Append(log, e)
  PROVE  /\ \A p : e.name = "MetricsUpdated" /\ e.pool = p =>
              Oracle!MetricsEvents(p)' # {} /\ Oracle!getPoolMetrics(p)' = e.metrics
         /\ \A p : ~(e.name = "MetricsUpdated" /\ e.pool = p) =>
              Oracle!MetricsEvents(p)' = Oracle!MetricsEvents(p)
              /\ Oracle!getPoolMetrics(p)' = Oracle!getPoolMetrics(p)
         /\ \A p, q : e.name = "CorrelationUpdated" /\ e.pair \in {<<p, q>>, <<q, p>>} =>
              PairOf(p, q)' # {} /\ Latest(PairOf(p, q))' = e
         /\ \A p, q : ~(e.name = "CorrelationUpdated" /\ e.pair \in {<<p, q>>, <<q, p>>}) =>
              PairOf(p, q)' = PairOf(p, q)
              /\ (PairOf(p, q) # {} => Latest(PairOf(p, q))' = Latest(PairOf(p, q)))
<1>1. PICK n \in Nat :
        /\ n \notin DOMAIN log /\ DOMAIN log' = DOMAIN log \union {n} /\ log'[n] = e
        /\ \A i \in DOMAIN log : i \in Nat /\ i < n /\ log'[i] = log[i]
        /\ \A S \in SUBSET DOMAIN log : log'[Max(S \union {n})] = e
        /\ \A S \in SUBSET DOMAIN log : S # {} => log'[Max(S)] = log[Max(S)]
  BY LatestAppended
<1>2. /\ \A p : Oracle!MetricsEvents(p) \in SUBSET DOMAIN log
      /\ \A p, q : PairOf(p, q) \in SUBSET DOMAIN log
  BY DEF Oracle!MetricsEvents, PairOf, Oracle!PairEvents
<1>3. /\ \A p : Oracle!MetricsEvents(p)' =
           IF e.name = "MetricsUpdated" /\ e.pool = p THEN Oracle!MetricsEvents(p) \union {n}
                                                      ELSE Oracle!MetricsEvents(p)
      /\ \A p, q : PairOf(p, q)' =
           IF e.name = "CorrelationUpdated" /\ e.pair \in {<<p, q>>, <<q, p>>} THEN PairOf(p, q) \union {n}
                                                                               ELSE PairOf(p, q)
  BY <1>1 DEF Oracle!MetricsEvents, PairOf, Oracle!PairEvents
<1>4. /\ \A p : Oracle!getPoolMetrics(p)' =
                  IF Oracle!MetricsEvents(p)' = {} THEN [c \in Oracle!Columns |-> 0]
                  ELSE log'[Max(Oracle!MetricsEvents(p)')].metrics
      /\ \A p, q : Latest(PairOf(p, q))' = log'[Max(PairOf(p, q)')]
  BY Zenon DEF Oracle!getPoolMetrics, PairOf, Oracle!Latest, Oracle!Max, Oracle!Columns, Max, Latest
<1>5. ASSUME NEW p, e.name = "MetricsUpdated" /\ e.pool = p
      PROVE  Oracle!MetricsEvents(p)' # {} /\ Oracle!getPoolMetrics(p)' = e.metrics
  <2>1. Oracle!MetricsEvents(p)' = Oracle!MetricsEvents(p) \union {n}
    BY <1>3, <1>5
  <2>2. log'[Max(Oracle!MetricsEvents(p) \union {n})] = e
    BY <1>1, <1>2
  <2>3. QED
    BY <1>4, <2>1, <2>2
<1>6. ASSUME NEW p, ~(e.name = "MetricsUpdated" /\ e.pool = p)
      PROVE  Oracle!MetricsEvents(p)' = Oracle!MetricsEvents(p)
             /\ Oracle!getPoolMetrics(p)' = Oracle!getPoolMetrics(p)
  <2>1. Oracle!MetricsEvents(p)' = Oracle!MetricsEvents(p)
    BY <1>3, <1>6
  <2>2. CASE Oracle!MetricsEvents(p) = {}
    BY <1>4, <2>1, <2>2, OracleIsLatest
  <2>3. CASE Oracle!MetricsEvents(p) # {}
    <3>1. log'[Max(Oracle!MetricsEvents(p))] = log[Max(Oracle!MetricsEvents(p))]
      BY <1>1, <1>2, <2>3
    <3>2. QED
      BY <1>4, <2>1, <2>3, <3>1, OracleIsLatest
  <2>4. QED
    BY <2>2, <2>3
<1>7. ASSUME NEW p, NEW q, e.name = "CorrelationUpdated" /\ e.pair \in {<<p, q>>, <<q, p>>}
      PROVE  PairOf(p, q)' # {} /\ Latest(PairOf(p, q))' = e
  <2>1. PairOf(p, q)' = PairOf(p, q) \union {n}
    BY <1>3, <1>7
  <2>2. log'[Max(PairOf(p, q) \union {n})] = e
    BY <1>1, <1>2
  <2>3. QED
    BY <1>4, <2>1, <2>2
<1>8. ASSUME NEW p, NEW q, ~(e.name = "CorrelationUpdated" /\ e.pair \in {<<p, q>>, <<q, p>>})
      PROVE  PairOf(p, q)' = PairOf(p, q)
             /\ (PairOf(p, q) # {} => Latest(PairOf(p, q))' = Latest(PairOf(p, q)))
  <2>1. PairOf(p, q)' = PairOf(p, q)
    BY <1>3, <1>8
  <2>2. PairOf(p, q) # {} => log'[Max(PairOf(p, q))] = log[Max(PairOf(p, q))]
    BY <1>1, <1>2
  <2>3. QED
    BY <1>4, <2>1, <2>2, OracleIsLatest
<1>9. QED
  BY <1>5, <1>6, <1>7, <1>8

\* Without an event the oracle was sent what it was sent.
LEMMA OracleSame ==
  ASSUME log' = log
  PROVE  /\ \A p : Oracle!MetricsEvents(p)' = Oracle!MetricsEvents(p)
                   /\ Oracle!getPoolMetrics(p)' = Oracle!getPoolMetrics(p)
         /\ \A p, q : PairOf(p, q)' = PairOf(p, q) /\ Latest(PairOf(p, q))' = Latest(PairOf(p, q))
<1>1. /\ \A p : Oracle!MetricsEvents(p)' = Oracle!MetricsEvents(p)
      /\ \A p, q : PairOf(p, q)' = PairOf(p, q)
  BY DEF Oracle!MetricsEvents, PairOf, Oracle!PairEvents
<1>2. /\ \A p : Oracle!getPoolMetrics(p)' =
                  IF Oracle!MetricsEvents(p)' = {} THEN [c \in Oracle!Columns |-> 0]
                  ELSE log'[Max(Oracle!MetricsEvents(p)')].metrics
      /\ \A p, q : Latest(PairOf(p, q))' = log'[Max(PairOf(p, q)')]
  BY Zenon DEF Oracle!getPoolMetrics, PairOf, Oracle!Latest, Oracle!Max, Oracle!Columns, Max, Latest
<1>3. QED
  BY <1>1, <1>2, OracleIsLatest

\* The latest event of a pair is of that pair, and the metrics a pool has are a column each.
LEMMA LatestOfPair ==
  ASSUME Shapes, MetricsOwed
  PROVE  /\ \A p, q : PairOf(p, q) # {} => Latest(PairOf(p, q)).pair \in {<<p, q>>, <<q, p>>}
         /\ \A p : Oracle!getPoolMetrics(p) = [c \in Oracle!Columns |-> Oracle!getPoolMetrics(p)[c]]
<1>1. PICK S : log \in Seq(S)
  BY DEF Shapes, LogShape
<1>2. PICK n \in Nat : DOMAIN log = 1 .. n
  BY <1>1
<1>3. ASSUME NEW p, NEW q, PairOf(p, q) # {}
      PROVE  Latest(PairOf(p, q)).pair \in {<<p, q>>, <<q, p>>}
  <2>1. PairOf(p, q) \in SUBSET (1 .. n)
    BY <1>2 DEF PairOf, Oracle!PairEvents
  <2>2. Max(PairOf(p, q)) \in PairOf(p, q)
    BY <1>3, <2>1, LatestIn
  <2>3. log[Max(PairOf(p, q))].pair \in {<<p, q>>, <<q, p>>}
    BY <2>2 DEF PairOf, Oracle!PairEvents
  <2>4. QED
    BY <2>3, OracleIsLatest
<1>4. ASSUME NEW p
      PROVE  Oracle!getPoolMetrics(p) = [c \in Oracle!Columns |-> Oracle!getPoolMetrics(p)[c]]
  <2>1. CASE Oracle!MetricsEvents(p) = {}
    <3>1. Oracle!getPoolMetrics(p) = [c \in Oracle!Columns |-> 0]
      BY <2>1, OracleIsLatest
    <3>2. QED
      BY <3>1
  <2>2. CASE Oracle!MetricsEvents(p) # {}
    <3>1. Oracle!MetricsEvents(p) \in SUBSET (1 .. n)
      BY <1>2 DEF Oracle!MetricsEvents
    <3>2. Max(Oracle!MetricsEvents(p)) \in Oracle!MetricsEvents(p)
      BY <2>2, <3>1, LatestIn
    <3>3. PICK i \in DOMAIN log : i = Max(Oracle!MetricsEvents(p)) /\ log[i].name = "MetricsUpdated"
      BY <3>2 DEF Oracle!MetricsEvents
    <3>4. log[i].metrics = [c \in Oracle!Columns |-> log[i].metrics[c]]
      BY <3>3 DEF MetricsOwed
    <3>5. Oracle!getPoolMetrics(p) = log[i].metrics
      BY <2>2, <3>3, OracleIsLatest
    <3>6. QED
      BY <3>4, <3>5
  <2>3. QED
    BY <2>1, <2>2
<1>5. QED
  BY <1>3, <1>4

\* The table of metrics, and that of correlations, stay with the contract and the handlers.
LEMMA MetricsStay ==
  ASSUME MetricsOwed, db'.metrics = db.metrics, db'.pools = db.pools,
         \A i \in DOMAIN log' : log'[i].name = "MetricsUpdated" => i \in DOMAIN log /\ log'[i] = log[i],
         \A p : Oracle!MetricsEvents(p)' = Oracle!MetricsEvents(p)
                /\ Oracle!getPoolMetrics(p)' = Oracle!getPoolMetrics(p),
         \A k \in Jobs : jobs[k].kind = "onMetricsUpdated" \/ jobs'[k].kind = "onMetricsUpdated" =>
           jobs'[k] = jobs[k]
  PROVE  MetricsOwed'
<1>1. \A i \in DOMAIN log' : log'[i].name = "MetricsUpdated" =>
        log'[i].metrics = [c \in Oracle!Columns |-> log'[i].metrics[c]]
  BY DEF MetricsOwed
<1>2. \A p : \/ IF Oracle!MetricsEvents(p)' = {} THEN p \notin DOMAIN db'.metrics
                ELSE p \in DOMAIN db'.metrics /\ db'.metrics[p] = Oracle!getPoolMetrics(p)'
             \/ \E k \in Jobs : jobs'[k].kind = "onMetricsUpdated" /\ jobs'[k].ev.pool = p
  <2> TAKE p
  <2>1. \/ IF Oracle!MetricsEvents(p) = {} THEN p \notin DOMAIN db.metrics
           ELSE p \in DOMAIN db.metrics /\ db.metrics[p] = Oracle!getPoolMetrics(p)
        \/ \E k \in Jobs : jobs[k].kind = "onMetricsUpdated" /\ jobs[k].ev.pool = p
    BY DEF MetricsOwed
  <2>2. QED
    BY <2>1
<1>3. ASSUME NEW k \in Jobs, jobs'[k].kind = "onMetricsUpdated"
      PROVE  \A p : p = jobs'[k].ev.pool =>
               /\ p \in DOMAIN db'.pools /\ Oracle!MetricsEvents(p)' # {}
               /\ jobs'[k].ev.metrics = Oracle!getPoolMetrics(p)'
               /\ jobs'[k].at = "write" => jobs'[k].found = FindOne(db'.metrics, p)
  <2>1. jobs'[k] = jobs[k]
    BY <1>3
  <2>2. \A p : p = jobs[k].ev.pool =>
               /\ p \in DOMAIN db.pools /\ Oracle!MetricsEvents(p) # {}
               /\ jobs[k].ev.metrics = Oracle!getPoolMetrics(p)
               /\ jobs[k].at = "write" => jobs[k].found = FindOne(db.metrics, p)
    BY <1>3, <2>1 DEF MetricsOwed, HasPool
  <2>3. QED
    BY <2>1, <2>2
<1>4. ASSUME NEW k \in Jobs
      PROVE  (LET e == jobs[k].ev IN
              jobs[k].kind = "onMetricsUpdated" =>
                /\ HasPool(e.pool) /\ Oracle!MetricsEvents(e.pool) # {}
                /\ e.metrics = Oracle!getPoolMetrics(e.pool)
                /\ jobs[k].at = "write" => jobs[k].found = FindOne(db.metrics, e.pool))'
  BY <1>3 DEF HasPool
<1>5. QED
  BY <1>1, <1>2, <1>4 DEF MetricsOwed, Oracle!Columns

\* The same of the correlations; no handler of theirs starts, ends or changes its event.
LEMMA CorrelationsStay ==
  ASSUME CorrelationsOwed, db'.correlations = db.correlations,
         \A p, q : PairOf(p, q)' = PairOf(p, q)
                   /\ (PairOf(p, q) # {} => Latest(PairOf(p, q))' = Latest(PairOf(p, q))),
         \A k \in Jobs : jobs[k].kind = "onCorrelationUpdated" \/ jobs'[k].kind = "onCorrelationUpdated" =>
           jobs'[k].kind = jobs[k].kind /\ jobs'[k].ev = jobs[k].ev
  PROVE  CorrelationsOwed'
<1>1. ASSUME NEW p, NEW q, PairOf(p, q)' # {}
      PROVE  \A e : e = Latest(PairOf(p, q))' =>
               \/ e.pair \in DOMAIN db'.correlations /\ db'.correlations[e.pair] = e.correlation
               \/ \E k \in Jobs : jobs'[k].kind = "onCorrelationUpdated" /\ jobs'[k].ev = e
  <2>1. PICK e : e = Latest(PairOf(p, q))
    OBVIOUS
  <2>2. PairOf(p, q) # {} /\ e = Latest(PairOf(p, q))'
    BY <1>1, <2>1
  <2>3. \/ e.pair \in DOMAIN db.correlations /\ db.correlations[e.pair] = e.correlation
        \/ \E k \in Jobs : jobs[k].kind = "onCorrelationUpdated" /\ jobs[k].ev = e
    BY <2>1, <2>2 DEF CorrelationsOwed
  <2>4. QED
    BY <2>2, <2>3
<1>2. ASSUME NEW k \in Jobs, jobs'[k].kind = "onCorrelationUpdated", NEW p, NEW q,
             jobs'[k].ev.pair \in {<<p, q>>, <<q, p>>}
      PROVE  PairOf(p, q)' # {} /\ jobs'[k].ev = Latest(PairOf(p, q))'
  <2>1. PairOf(p, q) # {} /\ jobs[k].ev = Latest(PairOf(p, q))
    BY <1>2 DEF CorrelationsOwed
  <2>2. QED
    BY <1>2, <2>1
<1>3. \A p, q : PairOf(p, q)' # {} =>
        (LET e == Latest(PairOf(p, q)) IN
         \/ e.pair \in DOMAIN db.correlations /\ db.correlations[e.pair] = e.correlation
         \/ \E k \in Jobs : jobs[k].kind = "onCorrelationUpdated" /\ jobs[k].ev = e)'
  BY <1>1
<1>4. QED
  BY <1>2, <1>3 DEF CorrelationsOwed

\* An update comes to a service at rest, and is owed by its handler.
LEMMA MetricsArrives ==
  ASSUME Shapes, NothingMoves, OracleSerial, tidy', NEW p, NEW c \in Oracle!Columns, NEW v,
         Oracle!ChangesColumn(p, c, v)
  PROVE  Alone' /\ NothingMoves' /\ OracleSerial'
<1>1. PICK metrics, e : /\ metrics = [Oracle!getPoolMetrics(p) EXCEPT ![c] = v]
                        /\ e = [name |-> "MetricsUpdated", pool |-> p, metrics |-> metrics]
  OBVIOUS
<1>2. Emits(e, "onMetricsUpdated", "find", HasPool(p))
  BY <1>1, OracleBase DEF Oracle!ChangesColumn, Oracle!MetricsUpdated, Oracle!HasPool, HasPool
<1>3. e.name = "MetricsUpdated" /\ e.pool = p /\ e.metrics = metrics
  BY <1>1
<1>4. metrics = [x \in Oracle!Columns |-> metrics[x]]
  <2>1. PICK m : m = Oracle!getPoolMetrics(p)
    OBVIOUS
  <2>2. m = [x \in Oracle!Columns |-> m[x]]
    BY <2>1, LatestOfPair DEF OracleSerial
  <2>3. metrics = [m EXCEPT ![c] = v]
    BY <1>1, <2>1
  <2>4. metrics = [x \in Oracle!Columns |-> IF x = c THEN v ELSE m[x]]
    BY ONLY <2>2, <2>3
  <2>5. QED
    BY <2>4
<1>5. /\ tidy /\ HasPool(p) /\ Quiet /\ db' = db /\ log' = Append(log, e)
      /\ OneJob(Job("onMetricsUpdated", "find", e)) /\ Alone' /\ NothingMoves'
  BY <1>2, <1>3, QuietEmits DEF Endpoints
<1>6. PICK j \in Jobs : jobs'[j] = Job("onMetricsUpdated", "find", e) /\ \A k \in Jobs \ {j} : jobs'[k].kind = "idle"
  BY <1>5 DEF OneJob
<1>7. jobs'[j].kind = "onMetricsUpdated" /\ jobs'[j].ev = e /\ jobs'[j].at = "find"
  BY <1>6 DEF Job
<1>8. \A k \in Jobs : jobs[k].kind = "idle"
  BY <1>5 DEF Quiet, Running
<1>9. /\ Oracle!MetricsEvents(p)' # {} /\ Oracle!getPoolMetrics(p)' = e.metrics
      /\ \A q : q # p => /\ Oracle!MetricsEvents(q)' = Oracle!MetricsEvents(q)
                         /\ Oracle!getPoolMetrics(q)' = Oracle!getPoolMetrics(q)
      /\ \A q, r : /\ PairOf(q, r)' = PairOf(q, r)
                   /\ PairOf(q, r) # {} => Latest(PairOf(q, r))' = Latest(PairOf(q, r))
  BY <1>3, <1>5, OracleAppended
<1>10. MetricsOwed'
  <2>1. \A i \in DOMAIN log' : log'[i] = e \/ (i \in DOMAIN log /\ log'[i] = log[i])
    BY <1>5, LatestAppended
  <2>2. \A i \in DOMAIN log' : log'[i].name = "MetricsUpdated" =>
          log'[i].metrics = [x \in Oracle!Columns |-> log'[i].metrics[x]]
    BY <1>3, <1>4, <2>1 DEF OracleSerial, MetricsOwed
  <2>3. \A q : \/ IF Oracle!MetricsEvents(q)' = {} THEN q \notin DOMAIN db'.metrics
                  ELSE q \in DOMAIN db'.metrics /\ db'.metrics[q] = Oracle!getPoolMetrics(q)'
               \/ \E k \in Jobs : jobs'[k].kind = "onMetricsUpdated" /\ jobs'[k].ev.pool = q
    <3> TAKE q
    <3>1. CASE q = p
      BY <1>3, <1>7, <3>1
    <3>2. CASE q # p
      <4>1. IF Oracle!MetricsEvents(q) = {} THEN q \notin DOMAIN db.metrics
            ELSE q \in DOMAIN db.metrics /\ db.metrics[q] = Oracle!getPoolMetrics(q)
        BY <1>8 DEF OracleSerial, MetricsOwed
      <4>2. QED
        BY <1>5, <1>9, <3>2, <4>1
    <3>3. QED
      BY <3>1, <3>2
  <2>4. ASSUME NEW k \in Jobs
        PROVE  (LET x == jobs[k].ev IN
                jobs[k].kind = "onMetricsUpdated" =>
                  /\ HasPool(x.pool) /\ Oracle!MetricsEvents(x.pool) # {}
                  /\ x.metrics = Oracle!getPoolMetrics(x.pool)
                  /\ jobs[k].at = "write" => jobs[k].found = FindOne(db.metrics, x.pool))'
    <3>1. CASE k = j
      <4>1. p \in DOMAIN db'.pools
        BY <1>5 DEF HasPool
      <4>2. QED
        BY <1>3, <1>7, <1>9, <3>1, <4>1 DEF HasPool
    <3>2. CASE k # j
      BY <1>6, <3>2
    <3>3. QED
      BY <3>1, <3>2
  <2>5. QED
    BY <2>2, <2>3, <2>4 DEF MetricsOwed, Oracle!Columns
<1>11. CorrelationsOwed'
  <2>1. \A k \in Jobs : jobs[k].kind # "onCorrelationUpdated" /\ jobs'[k].kind # "onCorrelationUpdated"
    BY <1>6, <1>7, <1>8
  <2>2. db'.correlations = db.correlations
    BY <1>5
  <2>3. QED
    BY <1>9, <2>1, <2>2, CorrelationsStay DEF OracleSerial
<1>12. QED
  BY <1>5, <1>10, <1>11 DEF OracleSerial

\* A correlation comes to a service at rest, and is owed by its handler.
LEMMA CorrelationArrives ==
  ASSUME Shapes, NothingMoves, OracleSerial, tidy', NEW p, NEW q, NEW c, Oracle!updateCorrelation(p, q, c)
  PROVE  Alone' /\ NothingMoves' /\ OracleSerial'
<1>1. PICK e : e = [name |-> "CorrelationUpdated", pair |-> <<p, q>>, correlation |-> c]
  OBVIOUS
<1>2. Emits(e, "onCorrelationUpdated", "find", TRUE)
  BY <1>1, OracleBase DEF Oracle!updateCorrelation, Oracle!CorrelationUpdated
<1>3. e.name = "CorrelationUpdated"
  BY <1>1
<1>4. /\ tidy /\ Quiet /\ db' = db /\ log' = Append(log, e)
      /\ OneJob(Job("onCorrelationUpdated", "find", e)) /\ Alone' /\ NothingMoves'
  BY <1>2, <1>3, QuietEmits DEF Endpoints
<1>5. PICK j \in Jobs : jobs'[j] = Job("onCorrelationUpdated", "find", e) /\ \A k \in Jobs \ {j} : jobs'[k].kind = "idle"
  BY <1>4 DEF OneJob
<1>6. jobs'[j].kind = "onCorrelationUpdated" /\ jobs'[j].ev = e
  BY <1>5 DEF Job
<1>7. \A k \in Jobs : jobs[k].kind = "idle"
  BY <1>4 DEF Quiet, Running
<1>8. /\ \A r : /\ Oracle!MetricsEvents(r)' = Oracle!MetricsEvents(r)
                /\ Oracle!getPoolMetrics(r)' = Oracle!getPoolMetrics(r)
      /\ \A r, s : e.pair \in {<<r, s>>, <<s, r>>} => PairOf(r, s)' # {} /\ Latest(PairOf(r, s))' = e
      /\ \A r, s : e.pair \notin {<<r, s>>, <<s, r>>} =>
           /\ PairOf(r, s)' = PairOf(r, s)
           /\ PairOf(r, s) # {} => Latest(PairOf(r, s))' = Latest(PairOf(r, s))
  BY <1>3, <1>4, OracleAppended
<1>9. MetricsOwed'
  <2>1. \A i \in DOMAIN log' : log'[i] = e \/ (i \in DOMAIN log /\ log'[i] = log[i])
    BY <1>4, LatestAppended
  <2>2. \A i \in DOMAIN log' : log'[i].name = "MetricsUpdated" => i \in DOMAIN log /\ log'[i] = log[i]
    BY <1>3, <2>1
  <2>3. \A k \in Jobs : jobs[k].kind # "onMetricsUpdated" /\ jobs'[k].kind # "onMetricsUpdated"
    BY <1>5, <1>6, <1>7
  <2>4. db'.metrics = db.metrics /\ db'.pools = db.pools
    BY <1>4
  <2>5. QED
    BY <1>8, <2>2, <2>3, <2>4, MetricsStay DEF OracleSerial
<1>10. CorrelationsOwed'
  <2>1. \A r, s : PairOf(r, s)' # {} =>
          (LET x == Latest(PairOf(r, s)) IN
           \/ x.pair \in DOMAIN db.correlations /\ db.correlations[x.pair] = x.correlation
           \/ \E k \in Jobs : jobs[k].kind = "onCorrelationUpdated" /\ jobs[k].ev = x)'
    <3> SUFFICES ASSUME NEW r, NEW s, PairOf(r, s)' # {}
                 PROVE  \A x : x = Latest(PairOf(r, s))' =>
                          \/ x.pair \in DOMAIN db'.correlations /\ db'.correlations[x.pair] = x.correlation
                          \/ \E k \in Jobs : jobs'[k].kind = "onCorrelationUpdated" /\ jobs'[k].ev = x
      OBVIOUS
    <3>1. CASE e.pair \in {<<r, s>>, <<s, r>>}
      BY <1>6, <1>8, <3>1
    <3>2. CASE e.pair \notin {<<r, s>>, <<s, r>>}
      <4>1. PICK x : x = Latest(PairOf(r, s))
        OBVIOUS
      <4>2. PairOf(r, s) # {} /\ x = Latest(PairOf(r, s))'
        BY <1>8, <3>2, <4>1
      <4>3. x.pair \in DOMAIN db.correlations /\ db.correlations[x.pair] = x.correlation
        BY <1>7, <4>1, <4>2 DEF OracleSerial, CorrelationsOwed
      <4>4. QED
        BY <1>4, <4>2, <4>3
    <3>3. QED
      BY <3>1, <3>2
  <2>2. ASSUME NEW k \in Jobs, jobs'[k].kind = "onCorrelationUpdated", NEW r, NEW s,
               jobs'[k].ev.pair \in {<<r, s>>, <<s, r>>}
        PROVE  PairOf(r, s)' # {} /\ jobs'[k].ev = Latest(PairOf(r, s))'
    <3>1. jobs'[k].ev = e
      BY <1>5, <1>6, <2>2
    <3>2. QED
      BY <1>8, <2>2, <3>1
  <2>3. QED
    BY <2>1, <2>2 DEF CorrelationsOwed
<1>11. QED
  BY <1>4, <1>9, <1>10 DEF OracleSerial

\* The calls of the oracle.
LEMMA OracleCallSerial ==
  ASSUME Shapes, NothingMoves, OracleSerial, tidy', OracleCalls
  PROVE  Alone' /\ NothingMoves' /\ OracleSerial'
<1>1. "tvl" \in Oracle!Columns /\ "volatility" \in Oracle!Columns /\ "yieldRate" \in Oracle!Columns
  BY DEF Oracle!Columns
<1>2. ASSUME NEW p, NEW a, NEW isDeposit, Oracle!updateMetricsEndpoint(p, a, isDeposit)
      PROVE  Alone' /\ NothingMoves' /\ OracleSerial'
  <2>1. PICK v : Oracle!ChangesColumn(p, "tvl", v)
    BY <1>2 DEF Oracle!updateMetricsEndpoint, Oracle!updatePoolMetrics
  <2>2. QED
    BY <1>1, <2>1, MetricsArrives
<1>3. ASSUME NEW p, NEW r, Oracle!updateVolatilityEndpoint(p, r) \/ Oracle!updateYieldRateEndpoint(p, r)
      PROVE  Alone' /\ NothingMoves' /\ OracleSerial'
  BY <1>1, <1>3, MetricsArrives DEF Oracle!updateVolatilityEndpoint, Oracle!updateVolatility,
     Oracle!updateYieldRateEndpoint, Oracle!updateYieldRate
<1>4. ASSUME NEW p, NEW q, NEW c, Oracle!updateCorrelationEndpoint(p, q, c)
      PROVE  Alone' /\ NothingMoves' /\ OracleSerial'
  BY <1>4, CorrelationArrives DEF Oracle!updateCorrelationEndpoint
<1>5. QED
  BY <1>2, <1>3, <1>4 DEF OracleCalls

\* The handler of an update of the metrics reads, or writes the row of its pool.
LEMMA MetricsStepSerial ==
  ASSUME Shapes, NothingMoves, Alone, OracleSerial, NEW j \in Jobs, Oracle!onMetricsUpdated(j)
  PROVE  Alone' /\ NothingMoves' /\ OracleSerial'
<1>1. jobs[j].kind = "onMetricsUpdated" /\ jobs[j].kind # "idle"
  BY DEF Oracle!onMetricsUpdated
<1>2. \A k \in Jobs \ {j} : jobs[k].kind = "idle"
  BY <1>1 DEF Alone, Running, Beside
<1>3. PICK e, p, entity : e = jobs[j].ev /\ p = e.pool /\ entity = e.metrics
  OBVIOUS
<1>4. /\ p \in DOMAIN db.pools /\ Oracle!MetricsEvents(p) # {} /\ entity = Oracle!getPoolMetrics(p)
      /\ jobs[j].at = "write" => jobs[j].found = FindOne(db.metrics, p)
  BY <1>1, <1>3 DEF OracleSerial, MetricsOwed, HasPool
<1>5. ASSUME NEW at, NEW found, Reads(j, at, found), at # "tx", at = "write" => found = FindOne(db.metrics, p)
      PROVE  Alone' /\ NothingMoves' /\ OracleSerial'
  <2> DEFINE q == [kind |-> jobs[j].kind, at |-> at, ev |-> e, found |-> found]
  <2>1. db' = db /\ log' = log /\ Alone' /\ NothingMoves' /\ JobMoves(j, q)
    BY <1>1, <1>3, <1>5, QuietReads
  <2>2. q.kind = "onMetricsUpdated" /\ q.at = at /\ q.ev = e /\ q.found = found
    BY <1>1
  <2> HIDE DEF q
  <2>3. jobs'[j] = q /\ \A k \in Jobs \ {j} : jobs'[k] = jobs[k]
    BY <2>1 DEF JobMoves
  <2>4. /\ \A r : /\ Oracle!MetricsEvents(r)' = Oracle!MetricsEvents(r)
                  /\ Oracle!getPoolMetrics(r)' = Oracle!getPoolMetrics(r)
        /\ \A r, s : PairOf(r, s)' = PairOf(r, s) /\ Latest(PairOf(r, s))' = Latest(PairOf(r, s))
    BY <2>1, OracleSame
  <2>5. CorrelationsOwed'
    <3>1. \A k \in Jobs : jobs[k].kind # "onCorrelationUpdated" /\ jobs'[k].kind # "onCorrelationUpdated"
      BY <1>1, <1>2, <2>2, <2>3
    <3>2. db'.correlations = db.correlations
      BY <2>1
    <3>3. QED
      BY <2>4, <3>1, <3>2, CorrelationsStay DEF OracleSerial
  <2>6. MetricsOwed'
    <3>1. \A i \in DOMAIN log' : log'[i].name = "MetricsUpdated" =>
            log'[i].metrics = [x \in Oracle!Columns |-> log'[i].metrics[x]]
      BY <2>1 DEF OracleSerial, MetricsOwed
    <3>2. \A r : \/ IF Oracle!MetricsEvents(r)' = {} THEN r \notin DOMAIN db'.metrics
                    ELSE r \in DOMAIN db'.metrics /\ db'.metrics[r] = Oracle!getPoolMetrics(r)'
                 \/ \E k \in Jobs : jobs'[k].kind = "onMetricsUpdated" /\ jobs'[k].ev.pool = r
      <4> TAKE r
      <4>1. CASE r = p
        BY <1>3, <2>2, <2>3, <4>1
      <4>2. CASE r # p
        <5>1. \A k \in Jobs : ~(jobs[k].kind = "onMetricsUpdated" /\ jobs[k].ev.pool = r)
          BY <1>2, <1>3, <4>2
        <5>2. IF Oracle!MetricsEvents(r) = {} THEN r \notin DOMAIN db.metrics
              ELSE r \in DOMAIN db.metrics /\ db.metrics[r] = Oracle!getPoolMetrics(r)
          BY <5>1 DEF OracleSerial, MetricsOwed
        <5>3. QED
          BY <2>1, <2>4, <5>2
      <4>3. QED
        BY <4>1, <4>2
    <3>3. ASSUME NEW k \in Jobs
          PROVE  (LET x == jobs[k].ev IN
                  jobs[k].kind = "onMetricsUpdated" =>
                    /\ HasPool(x.pool) /\ Oracle!MetricsEvents(x.pool) # {}
                    /\ x.metrics = Oracle!getPoolMetrics(x.pool)
                    /\ jobs[k].at = "write" => jobs[k].found = FindOne(db.metrics, x.pool))'
      <4>1. CASE k = j
        <5>1. /\ p \in DOMAIN db'.pools /\ Oracle!MetricsEvents(p)' # {} /\ entity = Oracle!getPoolMetrics(p)'
              /\ at = "write" => found = FindOne(db'.metrics, p)
          BY <1>4, <1>5, <2>1, <2>4
        <5>2. jobs'[k].ev = e /\ jobs'[k].at = at /\ jobs'[k].found = found
          BY <2>2, <2>3, <4>1
        <5>3. QED
          BY <1>3, <5>1, <5>2 DEF HasPool
      <4>2. CASE k # j
        BY <1>2, <2>3, <4>2
      <4>3. QED
        BY <4>1, <4>2
    <3>4. QED
      BY <3>1, <3>2, <3>3 DEF MetricsOwed, Oracle!Columns
  <2>7. QED
    BY <2>1, <2>5, <2>6 DEF OracleSerial
<1>6. ASSUME NEW table, Writes(j, "metrics", table), p \in DOMAIN table, table[p] = entity,
             \A r : r # p => (r \in DOMAIN table <=> r \in DOMAIN db.metrics),
             \A r \in DOMAIN table : r # p => table[r] = db.metrics[r]
      PROVE  Alone' /\ NothingMoves' /\ OracleSerial'
  <2>1. /\ "metrics" \in TableNames \ {"pools", "balances"}
        /\ "pools" \in TableNames \ {"metrics"} /\ "correlations" \in TableNames \ {"metrics"}
    BY DEF TableNames
  <2>2. /\ log' = log /\ Alone' /\ NothingMoves' /\ JobMoves(j, Idle)
        /\ db'.metrics = table /\ db'.pools = db.pools /\ db'.correlations = db.correlations
    BY <1>6, <2>1, QuietWrites
  <2>3. \A k \in Jobs : jobs'[k].kind = "idle"
    BY <1>2, <2>2 DEF JobMoves, Idle
  <2>4. /\ \A r : /\ Oracle!MetricsEvents(r)' = Oracle!MetricsEvents(r)
                  /\ Oracle!getPoolMetrics(r)' = Oracle!getPoolMetrics(r)
        /\ \A r, s : PairOf(r, s)' = PairOf(r, s) /\ Latest(PairOf(r, s))' = Latest(PairOf(r, s))
    BY <2>2, OracleSame
  <2>5. CorrelationsOwed'
    <3>1. \A k \in Jobs : jobs[k].kind # "onCorrelationUpdated" /\ jobs'[k].kind # "onCorrelationUpdated"
      BY <1>1, <1>2, <2>3
    <3>2. QED
      BY <2>2, <2>4, <3>1, CorrelationsStay DEF OracleSerial
  <2>6. \A r : IF Oracle!MetricsEvents(r)' = {} THEN r \notin DOMAIN db'.metrics
               ELSE r \in DOMAIN db'.metrics /\ db'.metrics[r] = Oracle!getPoolMetrics(r)'
    <3> TAKE r
    <3>1. CASE r = p
      BY <1>4, <1>6, <2>2, <2>4, <3>1
    <3>2. CASE r # p
      <4>1. \A k \in Jobs : ~(jobs[k].kind = "onMetricsUpdated" /\ jobs[k].ev.pool = r)
        BY <1>2, <1>3, <3>2
      <4>2. IF Oracle!MetricsEvents(r) = {} THEN r \notin DOMAIN db.metrics
            ELSE r \in DOMAIN db.metrics /\ db.metrics[r] = Oracle!getPoolMetrics(r)
        BY <4>1 DEF OracleSerial, MetricsOwed
      <4>3. QED
        BY <1>6, <2>2, <2>4, <3>2, <4>2
    <3>3. QED
      BY <3>1, <3>2
  <2>7. MetricsOwed'
    <3>1. \A i \in DOMAIN log' : log'[i].name = "MetricsUpdated" =>
            log'[i].metrics = [x \in Oracle!Columns |-> log'[i].metrics[x]]
      BY <2>2 DEF OracleSerial, MetricsOwed
    <3>2. \A k \in Jobs : jobs'[k].kind # "onMetricsUpdated"
      BY <2>3
    <3>3. QED
      BY <2>6, <3>1, <3>2 DEF MetricsOwed, Oracle!Columns
  <2>8. QED
    BY <2>2, <2>5, <2>7 DEF OracleSerial
<1>7. CASE jobs[j].at = "find" \/ jobs[j].at = "load"
  <2>1. \/ Oracle!Reads(j, "load", Oracle!FindOne(db.metrics, p))
        \/ Oracle!Reads(j, "write", Oracle!FindOne(db.metrics, p))
    BY <1>3, <1>7 DEF Oracle!onMetricsUpdated
  <2>2. Oracle!FindOne(db.metrics, p) = FindOne(db.metrics, p)
    BY DEF Oracle!FindOne, FindOne
  <2>3. Reads(j, "load", FindOne(db.metrics, p)) \/ Reads(j, "write", FindOne(db.metrics, p))
    BY <2>1, <2>2, OracleBase
  <2>4. QED
    BY <1>5, <2>3
<1>8. CASE jobs[j].at = "write"
  <2>1. PICK read : read = jobs[j].found /\ read = FindOne(db.metrics, p)
    BY <1>4, <1>8
  <2>2. IF read # <<>>
          THEN Oracle!Writes(j, "metrics", [db.metrics EXCEPT ![p] = Oracle!Merged(@, read[1], entity)])
          ELSE p \notin DOMAIN db.metrics => Oracle!Writes(j, "metrics", Oracle!Put(db.metrics, p, entity))
    BY <1>3, <1>4, <1>8, <2>1 DEF Oracle!onMetricsUpdated, Oracle!HasPool
  <2>3. CASE p \in DOMAIN db.metrics
    <3>1. read = <<db.metrics[p]>>
      BY <2>1, <2>3 DEF FindOne
    <3>2. read # <<>> /\ read[1] = db.metrics[p]
      BY <3>1
    <3>3. PICK merged : merged = Oracle!Merged(db.metrics[p], read[1], entity)
      OBVIOUS
    <3>4. PICK table : table = [db.metrics EXCEPT ![p] = Oracle!Merged(@, read[1], entity)]
      OBVIOUS
    <3>5. Writes(j, "metrics", table)
      BY <2>2, <3>2, <3>4, OracleBase
    <3>6. merged = entity
      <4>1. merged = [c \in Oracle!Columns |-> IF entity[c] # db.metrics[p][c] THEN entity[c] ELSE db.metrics[p][c]]
        BY <3>2, <3>3 DEF Oracle!Merged
      <4>2. entity = [c \in Oracle!Columns |-> entity[c]]
        BY <1>4, LatestOfPair DEF OracleSerial
      <4>3. merged = [c \in Oracle!Columns |-> entity[c]]
        BY <4>1
      <4>4. QED
        BY <4>2, <4>3
    <3>7. table = [db.metrics EXCEPT ![p] = merged]
      BY <3>3, <3>4
    <3>8. /\ DOMAIN table = DOMAIN db.metrics /\ table[p] = merged
          /\ \A r \in DOMAIN table : r # p => table[r] = db.metrics[r]
      BY <2>3, <3>7
    <3>9. QED
      BY <1>6, <2>3, <3>5, <3>6, <3>8
  <2>4. CASE p \notin DOMAIN db.metrics
    <3>1. read = <<>>
      BY <2>1, <2>4 DEF FindOne
    <3>2. PICK table : table = Oracle!Put(db.metrics, p, entity)
      OBVIOUS
    <3>3. Writes(j, "metrics", table)
      BY <2>2, <2>4, <3>1, <3>2, OracleBase
    <3>4. /\ DOMAIN table = DOMAIN db.metrics \union {p} /\ table[p] = entity
          /\ \A r \in DOMAIN table : r # p => table[r] = db.metrics[r]
      BY <3>2 DEF Oracle!Put
    <3>5. QED
      BY <1>6, <3>3, <3>4
  <2>5. QED
    BY <2>3, <2>4
<1>9. QED
  BY <1>7, <1>8 DEF Oracle!onMetricsUpdated

\* The handler of a correlation reads, or writes the row of its direction.
LEMMA CorrelationStepSerial ==
  ASSUME Shapes, NothingMoves, Alone, OracleSerial, NEW j \in Jobs, Oracle!onCorrelationUpdated(j)
  PROVE  Alone' /\ NothingMoves' /\ OracleSerial'
<1>1. jobs[j].kind = "onCorrelationUpdated" /\ jobs[j].kind # "idle"
  BY DEF Oracle!onCorrelationUpdated
<1>2. \A k \in Jobs \ {j} : jobs[k].kind = "idle"
  BY <1>1 DEF Alone, Running, Beside
<1>3. PICK e : e = jobs[j].ev
  OBVIOUS
<1>4. \A p, q : e.pair \in {<<p, q>>, <<q, p>>} => PairOf(p, q) # {} /\ e = Latest(PairOf(p, q))
  BY <1>1, <1>3 DEF OracleSerial, CorrelationsOwed
<1>5. CASE jobs[j].at = "find"
  <2>1. PICK found : Oracle!Reads(j, "save", found)
    BY <1>5 DEF Oracle!onCorrelationUpdated
  <2>2. Reads(j, "save", found)
    BY <2>1, OracleBase
  <2> DEFINE q == [kind |-> jobs[j].kind, at |-> "save", ev |-> e, found |-> found]
  <2>3. db' = db /\ log' = log /\ Alone' /\ NothingMoves' /\ JobMoves(j, q)
    BY <1>1, <1>3, <2>2, QuietReads
  <2>4. q.kind = jobs[j].kind /\ q.ev = jobs[j].ev
    BY <1>3
  <2> HIDE DEF q
  <2>5. jobs'[j] = q /\ \A k \in Jobs \ {j} : jobs'[k] = jobs[k]
    BY <2>3 DEF JobMoves
  <2>6. /\ \A r : /\ Oracle!MetricsEvents(r)' = Oracle!MetricsEvents(r)
                  /\ Oracle!getPoolMetrics(r)' = Oracle!getPoolMetrics(r)
        /\ \A r, s : PairOf(r, s)' = PairOf(r, s) /\ Latest(PairOf(r, s))' = Latest(PairOf(r, s))
    BY <2>3, OracleSame
  <2>7. db'.metrics = db.metrics /\ db'.pools = db.pools /\ db'.correlations = db.correlations
    BY <2>3
  <2>8. MetricsOwed'
    <3>1. \A k \in Jobs : jobs[k].kind # "onMetricsUpdated" /\ jobs'[k].kind # "onMetricsUpdated"
      BY <1>1, <1>2, <2>4, <2>5
    <3>2. \A i \in DOMAIN log' : i \in DOMAIN log /\ log'[i] = log[i]
      BY <2>3
    <3>3. QED
      BY <2>6, <2>7, <3>1, <3>2, MetricsStay DEF OracleSerial
  <2>9. CorrelationsOwed'
    <3>1. \A k \in Jobs : jobs[k].kind = "onCorrelationUpdated" \/ jobs'[k].kind = "onCorrelationUpdated" =>
            jobs'[k].kind = jobs[k].kind /\ jobs'[k].ev = jobs[k].ev
      BY <2>4, <2>5
    <3>2. QED
      BY <2>6, <2>7, <3>1, CorrelationsStay DEF OracleSerial
  <2>10. QED
    BY <2>3, <2>8, <2>9 DEF OracleSerial
<1>6. CASE jobs[j].at = "save"
  <2>1. PICK table : table = Oracle!Put(db.correlations, e.pair, e.correlation)
    OBVIOUS
  <2>2. Writes(j, "correlations", table)
    BY <1>3, <1>6, <2>1, OracleBase DEF Oracle!onCorrelationUpdated
  <2>3. /\ DOMAIN table = DOMAIN db.correlations \union {e.pair} /\ table[e.pair] = e.correlation
        /\ \A k \in DOMAIN table : k # e.pair => table[k] = db.correlations[k]
    BY <2>1 DEF Oracle!Put
  <2>4. /\ "correlations" \in TableNames \ {"pools", "balances"}
        /\ "pools" \in TableNames \ {"correlations"} /\ "metrics" \in TableNames \ {"correlations"}
    BY DEF TableNames
  <2>5. /\ log' = log /\ Alone' /\ NothingMoves' /\ JobMoves(j, Idle)
        /\ db'.correlations = table /\ db'.pools = db.pools /\ db'.metrics = db.metrics
    BY <2>2, <2>4, QuietWrites
  <2>6. \A k \in Jobs : jobs'[k].kind = "idle"
    BY <1>2, <2>5 DEF JobMoves, Idle
  <2>7. /\ \A r : /\ Oracle!MetricsEvents(r)' = Oracle!MetricsEvents(r)
                  /\ Oracle!getPoolMetrics(r)' = Oracle!getPoolMetrics(r)
        /\ \A r, s : PairOf(r, s)' = PairOf(r, s) /\ Latest(PairOf(r, s))' = Latest(PairOf(r, s))
    BY <2>5, OracleSame
  <2>8. MetricsOwed'
    <3>1. \A k \in Jobs : jobs[k].kind # "onMetricsUpdated" /\ jobs'[k].kind # "onMetricsUpdated"
      BY <1>1, <1>2, <2>6
    <3>2. \A i \in DOMAIN log' : i \in DOMAIN log /\ log'[i] = log[i]
      BY <2>5
    <3>3. QED
      BY <2>5, <2>7, <3>1, <3>2, MetricsStay DEF OracleSerial
  <2>9. ASSUME NEW r, NEW s, PairOf(r, s)' # {}
        PROVE  \A x : x = Latest(PairOf(r, s))' =>
                 x.pair \in DOMAIN db'.correlations /\ db'.correlations[x.pair] = x.correlation
    <3>1. PICK x : x = Latest(PairOf(r, s))
      OBVIOUS
    <3>2. PairOf(r, s) # {} /\ x = Latest(PairOf(r, s))' /\ x.pair \in {<<r, s>>, <<s, r>>}
      BY <2>7, <2>9, <3>1, LatestOfPair DEF OracleSerial
    <3>3. CASE x.pair = e.pair
      <4>1. e.pair \in {<<r, s>>, <<s, r>>}
        BY <3>2, <3>3
      <4>2. e = Latest(PairOf(r, s))
        BY <1>4, <4>1
      <4>3. e = x
        BY <3>1, <4>2
      <4>4. QED
        BY <2>3, <2>5, <3>2, <4>3
    <3>4. CASE x.pair # e.pair
      <4>1. \A k \in Jobs : ~(jobs[k].kind = "onCorrelationUpdated" /\ jobs[k].ev = x)
        BY <1>2, <1>3, <3>4
      <4>2. \/ x.pair \in DOMAIN db.correlations /\ db.correlations[x.pair] = x.correlation
            \/ \E k \in Jobs : jobs[k].kind = "onCorrelationUpdated" /\ jobs[k].ev = x
        <5>1. PairOf(r, s) # {}
          BY <3>2
        <5>2. QED
          BY ONLY <3>1, <5>1, OracleSerial DEF OracleSerial, CorrelationsOwed
      <4>3. x.pair \in DOMAIN db.correlations /\ db.correlations[x.pair] = x.correlation
        BY <4>1, <4>2
      <4>4. QED
        BY <2>3, <2>5, <3>2, <3>4, <4>3
    <3>5. QED
      BY <3>3, <3>4
  <2>10. CorrelationsOwed'
    <3>1. \A r, s : PairOf(r, s)' # {} =>
            (LET x == Latest(PairOf(r, s)) IN
             \/ x.pair \in DOMAIN db.correlations /\ db.correlations[x.pair] = x.correlation
             \/ \E k \in Jobs : jobs[k].kind = "onCorrelationUpdated" /\ jobs[k].ev = x)'
      BY <2>9
    <3>2. \A k \in Jobs : jobs'[k].kind # "onCorrelationUpdated"
      BY <2>6
    <3>3. QED
      BY <3>1, <3>2 DEF CorrelationsOwed
  <2>11. QED
    BY <2>5, <2>8, <2>10 DEF OracleSerial
<1>7. QED
  BY <1>5, <1>6 DEF Oracle!onCorrelationUpdated

\* The oracle at rest.
LEMMA OracleUnmoved == ASSUME OracleSerial, Unmoved PROVE OracleSerial'
<1>1. db' = db /\ log' = log
  BY DEF Unmoved
<1>2. /\ \A r : /\ Oracle!MetricsEvents(r)' = Oracle!MetricsEvents(r)
                /\ Oracle!getPoolMetrics(r)' = Oracle!getPoolMetrics(r)
      /\ \A r, s : PairOf(r, s)' = PairOf(r, s) /\ Latest(PairOf(r, s))' = Latest(PairOf(r, s))
  BY <1>1, OracleSame
<1>3. db'.metrics = db.metrics /\ db'.pools = db.pools /\ db'.correlations = db.correlations
  BY <1>1
<1>4. MetricsOwed'
  <2>1. \A k \in Jobs : jobs[k].kind = "onMetricsUpdated" \/ jobs'[k].kind = "onMetricsUpdated" =>
          jobs'[k] = jobs[k]
    BY DEF Unmoved
  <2>2. \A i \in DOMAIN log' : i \in DOMAIN log /\ log'[i] = log[i]
    BY <1>1
  <2>3. QED
    BY <1>2, <1>3, <2>1, <2>2, MetricsStay DEF OracleSerial
<1>5. CorrelationsOwed'
  <2>1. \A k \in Jobs : jobs[k].kind = "onCorrelationUpdated" \/ jobs'[k].kind = "onCorrelationUpdated" =>
          jobs'[k].kind = jobs[k].kind /\ jobs'[k].ev = jobs[k].ev
    BY DEF Unmoved
  <2>2. QED
    BY <1>2, <1>3, <2>1, CorrelationsStay DEF OracleSerial
<1>6. QED
  BY <1>4, <1>5 DEF OracleSerial

-----------------------------------------------------------------------------
\* Rebalances and harvests move nothing, and a handler that rethrows ends the process
\* while it is running, which is not tidy.
LEMMA YieldFamilySerial ==
  ASSUME Shapes, NothingMoves, Alone, tidy', YieldCalls \/ YieldSteps
  PROVE  Alone' /\ NothingMoves'
<1>0. ASSUME NEW j \in Jobs, Running(j), Crash PROVE FALSE
  BY <1>0 DEF Crash, Quiet
<1>1. ASSUME NEW weights, Yield!rebalanceEndpoint(weights) PROVE Alone' /\ NothingMoves'
  <2> DEFINE e == Yield!Rebalanced(weights)
  <2>1. PICK f : Emits(e, "onRebalanced", "save", f)
    BY <1>1, YieldBase DEF Yield!rebalanceEndpoint, Yield!rebalance
  <2>2. e.name = "Rebalanced"
    BY DEF Yield!Rebalanced
  <2> HIDE DEF e
  <2>3. QED
    BY <2>1, <2>2, QuietEmits DEF Endpoints
<1>2. ASSUME NEW p, NEW a, Yield!harvestEndpoint(p, a) PROVE Alone' /\ NothingMoves'
  <2> DEFINE e == Yield!YieldHarvested(p, a)
  <2>1. PICK f : Emits(e, "onYieldHarvested", "save", f)
    BY <1>2, YieldBase DEF Yield!harvestEndpoint, Yield!harvestYield
  <2>2. e.name = "YieldHarvested"
    BY DEF Yield!YieldHarvested
  <2> HIDE DEF e
  <2>3. QED
    BY <2>1, <2>2, QuietEmits DEF Endpoints
<1>3. ASSUME NEW j \in Jobs, Yield!onRebalanced(j) PROVE Alone' /\ NothingMoves'
  <2>1. jobs[j].kind = "onRebalanced" /\ Running(j)
    BY <1>3 DEF Yield!onRebalanced, Yield!At, Running
  <2>2. CASE Ends(j)
    BY <2>2, QuietEnds
  <2>3. CASE Crash
    BY <1>0, <2>1, <2>3
  <2>4. ASSUME NEW table, db' = [db EXCEPT !.weights = table], log' = log, NEW found, Goto(j, "save", found)
        PROVE  Alone' /\ NothingMoves'
    <3>1. db = [t \in TableNames |-> db[t]]
      BY DEF Shapes, TableShapes
    <3>2. db'.pools = db.pools /\ db'.balances = db.balances
      BY <2>4, <3>1 DEF TableNames
    <3>3. JobMoves(j, [kind |-> jobs[j].kind, at |-> "save", ev |-> jobs[j].ev, found |-> found])
      BY <2>1, <2>4, GotoForm DEF Shapes
    <3>4. QED
      BY <2>1, <2>4, <3>2, <3>3, AloneGoes, NothingNext
  <2>5. \/ Ends(j) \/ Crash
        \/ \E table, found : db' = [db EXCEPT !.weights = table] /\ log' = log /\ Goto(j, "save", found)
    BY <1>3, YieldBase DEF Yield!onRebalanced
  <2>6. QED
    BY <2>2, <2>3, <2>4, <2>5
<1>4. ASSUME NEW j \in Jobs, Yield!onYieldHarvested(j) PROVE Alone' /\ NothingMoves'
  <2>1. Running(j)
    BY <1>4 DEF Yield!onYieldHarvested, Yield!At, Running
  <2>2. CASE Crash
    BY <1>0, <2>1, <2>2
  <2>3. ASSUME NEW table, Writes(j, "harvests", table) PROVE Alone' /\ NothingMoves'
    <3>1. "harvests" \in TableNames \ {"pools", "balances"}
      BY DEF TableNames
    <3>2. QED
      BY <2>3, <3>1, QuietWrites
  <2>4. Crash \/ \E table : Writes(j, "harvests", table)
    BY <1>4, YieldBase DEF Yield!onYieldHarvested
  <2>5. QED
    BY <2>2, <2>3, <2>4
<1>5. ASSUME NEW j \in Jobs, Yield!HandlerRejects(j) PROVE FALSE
  <2>1. Running(j) /\ Crash
    BY <1>5, YieldBase DEF Yield!HandlerRejects, Yield!Running, Running
  <2>2. QED
    BY <1>0, <2>1
<1>6. QED
  BY <1>1, <1>2, <1>3, <1>4, <1>5 DEF YieldCalls, YieldSteps
-----------------------------------------------------------------------------
\* Nothing is owed when the log is empty.
LEMMA SerialInit == ASSUME Init PROVE SerialInv
<1>1. PICK known \in SUBSET Pools : db = EmptyTables(known)
  BY DEF Init, MirrorInit
<1>2. \A j \in Jobs : jobs[j].kind = "idle"
  BY DEF Init, MirrorInit, Idle
<1>3. /\ \A p \in DOMAIN db.pools : db.pools[p].supply = 0
      /\ DOMAIN db.balances = {} /\ DOMAIN db.rewards = {} /\ DOMAIN db.distributors = {}
      /\ DOMAIN db.metrics = {} /\ DOMAIN db.executions = {} /\ db.distributors = <<>>
  BY <1>1 DEF EmptyTables
<1>4. log = <<>> /\ DOMAIN log = {}
  BY DEF Init, MirrorInit
<1>5. Shapes
  BY ShapesInit
<1>6. Alone
  BY <1>2 DEF Alone, Running
<1>7. NothingMoves
  BY <1>3, <1>4 DEF NothingMoves
<1>8. VaultSerial
  <2>1. \A p : Vault!PoolEvents(p) = {}
    BY <1>4 DEF Vault!PoolEvents
  <2>2. \A p : Total(p) = 0 /\ \A u : Held(u, p) = 0
    BY <1>5, <2>1, HeldInt
  <2>3. /\ \A p, u : BalanceOf(p, u) = 0
        /\ \A p : SupplyOf(p) = 0
    BY <1>3 DEF BalanceOf, SupplyOf
  <2>4. BalancesOwed /\ SuppliesOwed
    BY <1>2, <2>2, <2>3 DEF BalancesOwed, SuppliesOwed, OwesBalance, OwesSupply, MoveKinds
  <2>5. RowsHavePools /\ NoDebts
    BY <1>3, <2>2 DEF RowsHavePools, NoDebts
  <2>6. CopiesFresh
    BY <1>2 DEF CopiesFresh, MoveKinds
  <2>7. QED
    BY <2>4, <2>5, <2>6 DEF VaultSerial
<1>9. RegistrySerial
  <2>1. (\A p : Strategy!Changes(p) = {}) /\ Strategy!Executions = {}
    BY <1>4 DEF Strategy!Changes, Strategy!Executions
  <2>2. \A p : ~Strategy!Known(p)
    BY <2>1 DEF Strategy!Known
  <2>3. QED
    BY <1>2, <1>3, <2>1, <2>2 DEF RegistrySerial, SettingsOwed, ExecutionsOwed, ChangeKinds
<1>10. RewardSerial
  <2>1. \A u : OpenRows(u) = {} /\ Reward!Unclaimed(u) = {}
    BY <1>3, <1>4 DEF OpenRows, Reward!Unclaimed, Reward!OfUser, Reward!Named
  <2>2. \A u : Promised(u) = 0 /\ Due(u) = 0
    BY <2>1, AmountNone DEF Promised, Due
  <2>3. \A d : ~Reward!isAuthorizedDistributor(d)
    BY <1>4 DEF Reward!isAuthorizedDistributor, Reward!OfUser, Reward!Named
  <2>4. \A d : d \notin Reward!distributorsEndpoint
    BY <1>3, Listed
  <2>5. \E S : db.distributors \in Seq(S)
    BY <1>3
  <2>6. RewardsOwed
    BY <1>2, <2>2 DEF RewardsOwed
  <2>7. \A j \in Jobs : \A d : ~Authorizing(j, d) /\ ~Revoking(j, d)
    BY <1>2 DEF Authorizing, Revoking
  <2>8. DistributorsOwed
    BY <1>2, <1>3, <2>3, <2>4, <2>5, <2>7 DEF DistributorsOwed
  <2>9. EndpointEvents
    BY <1>2 DEF EndpointEvents
  <2>10. QED
    BY <2>6, <2>8, <2>9 DEF RewardSerial
<1>11. OracleSerial
  <2>1. (\A p : Oracle!MetricsEvents(p) = {}) /\ \A p, q : PairOf(p, q) = {}
    BY <1>4 DEF Oracle!MetricsEvents, PairOf, Oracle!PairEvents
  <2>2. MetricsOwed
    BY <1>2, <1>3, <1>4, <2>1 DEF MetricsOwed
  <2>3. CorrelationsOwed
    BY <1>2, <2>1 DEF CorrelationsOwed
  <2>4. QED
    BY <2>2, <2>3 DEF OracleSerial
<1>12. QED
  BY <1>6, <1>7, <1>8, <1>9, <1>10, <1>11 DEF SerialInv

-----------------------------------------------------------------------------
\* The steps that are nobody's: a start, a crash, or nothing at all.
LEMMA SerialUnmoved ==
  ASSUME MirrorInv, SerialInv, onModuleInit \/ Crash \/ UNCHANGED mirrorVars, family' = family
  PROVE  SerialInv'
<1> SUFFICES ASSUME tidy'
             PROVE  /\ Alone'
                    /\ family # "vault" => NothingMoves'
                    /\ family = "vault" => VaultSerial'
                    /\ family = "registry" => RegistrySerial'
                    /\ family = "reward" => RewardSerial'
                    /\ family = "oracle" => OracleSerial'
  BY DEF SerialInv
<1>1. Shapes
  BY DEF MirrorInv
<1>2. tidy /\ Unmoved
  BY <1>1, TidyUnmoved
<1>3. QED
  BY <1>1, <1>2, AloneUnmoved, QuietUnmoved, VaultUnmoved, RegistryUnmoved, RewardUnmoved, OracleUnmoved
     DEF SerialInv

\* Every step keeps the owed events owed, or makes the tables settle them.
LEMMA SerialNext == ASSUME MirrorInv, SerialInv, [Next]_vars PROVE SerialInv'
<1>1. CASE UNCHANGED vars
  <2>1. UNCHANGED mirrorVars /\ family' = family
    BY <1>1 DEF vars
  <2>2. QED
    BY <2>1, SerialUnmoved
<1>2. CASE Next /\ (onModuleInit \/ Crash)
  <2>1. family' = family
    BY <1>2 DEF Next
  <2>2. QED
    BY <1>2, <2>1, SerialUnmoved
<1>3. CASE Next /\ ~(onModuleInit \/ Crash)
  <2> SUFFICES ASSUME tidy'
               PROVE  /\ Alone'
                      /\ family # "vault" => NothingMoves'
                      /\ family = "vault" => VaultSerial'
                      /\ family = "registry" => RegistrySerial'
                      /\ family = "reward" => RewardSerial'
                      /\ family = "oracle" => OracleSerial'
    <3>1. family' = family
      BY <1>3 DEF Next
    <3>2. QED
      BY <3>1 DEF SerialInv
  <2>0. Shapes /\ \A j \in Jobs : ~QueryFails(j)
    BY TidyFails DEF MirrorInv
  <2>1. /\ Alone
        /\ family # "vault" => NothingMoves
        /\ family = "vault" => VaultSerial
        /\ family = "registry" => RegistrySerial
        /\ family = "reward" => RewardSerial
        /\ family = "oracle" => OracleSerial
    BY <1>3, TidyBefore DEF SerialInv
  <2>2. CASE /\ family = "vault"
             /\ \/ VaultCalls \/ VaultSteps
                \/ \E p \in Pools : Strategy!addPoolEndpoint(p, 0, 0)
                \/ \E j \in Jobs : Strategy!onPoolAdded(j)
    <3>1. Alone' /\ VaultSerial'
      BY <2>1, <2>2, VaultFamilySerial
    <3>2. QED
      BY <2>2, <3>1
  <2>3. CASE family = "registry" /\ (RegistryCalls \/ RegistrySteps)
    <3>1. Alone' /\ NothingMoves' /\ RegistrySerial'
      BY <2>0, <2>1, <2>3, RegistryCallSerial, RegistryStepSerial DEF RegistrySteps
    <3>2. QED
      BY <2>3, <3>1
  <2>4. CASE family = "reward" /\ (RewardCalls \/ RewardSteps)
    <3>1. Alone' /\ NothingMoves' /\ RewardSerial'
      BY <2>0, <2>1, <2>4, RewardCallSerial, RewardStepSerial DEF RewardSteps
    <3>2. QED
      BY <2>4, <3>1
  <2>5. CASE family = "oracle" /\ (OracleCalls \/ OracleSteps)
    <3>1. Alone' /\ NothingMoves' /\ OracleSerial'
      BY <2>0, <2>1, <2>5, OracleCallSerial, MetricsStepSerial, CorrelationStepSerial DEF OracleSteps
    <3>2. QED
      BY <2>5, <3>1
  <2>6. CASE family = "yield" /\ (YieldCalls \/ YieldSteps)
    <3>1. Alone' /\ NothingMoves'
      BY <2>0, <2>1, <2>6, YieldFamilySerial
    <3>2. QED
      BY <2>6, <3>1
  <2>7. QED
    BY <1>3, <2>2, <2>3, <2>4, <2>5, <2>6 DEF Next
<1>4. QED
  BY <1>1, <1>2, <1>3

-----------------------------------------------------------------------------
\* What the invariant says when nobody is on the way.  In every family what is stored of
\* the vault is what the contract holds.
LEMMA QuietVault == ASSUME MirrorInv, SerialInv, tidy, Quiet PROVE SerialVaultMirror
<1>1. Shapes /\ \A j \in Jobs : jobs[j].kind = "idle"
  BY DEF MirrorInv, Quiet, Running
<1>2. /\ Settled
      /\ \A k \in DOMAIN db.balances : k = <<k[1], k[2]>>
  <2>1. CASE family = "vault"
    <3>1. VaultSerial
      BY <2>1 DEF SerialInv
    <3>2. Settled
      BY <1>1, <3>1, SettledNow DEF MoveKinds
    <3>3. QED
      BY <3>1, <3>2 DEF VaultSerial, RowsHavePools
  <2>2. CASE family # "vault"
    <3>1. NothingMoves
      BY <2>2 DEF SerialInv
    <3>2. \A p : Vault!PoolEvents(p) = {}
      BY <3>1 DEF NothingMoves, Vault!PoolEvents
    <3>3. \A p : Total(p) = 0 /\ \A u : Held(u, p) = 0
      BY <1>1, <3>2, HeldInt
    <3>4. QED
      BY <3>1, <3>3 DEF NothingMoves, Settled, BalanceOf, SupplyOf
  <2>3. QED
    BY <2>1, <2>2
<1>3. ASSUME NEW p \in DOMAIN db.pools
      PROVE  /\ <<db.pools[p].supply>> = Vault!totalSupplyEndpoint(p)
             /\ \A u : Vault!balanceEndpoint(u, p) = <<BalanceOf(p, u)>>
  <2>1. Vault!getPool(p) = <<db.pools[p]>> /\ <<db.pools[p]>> # <<>>
    BY DEF Vault!getPool, Vault!FindOne
  <2>2. Vault!getTotalSupply(p) = db.pools[p].supply
    BY <1>2, HeldIsRead DEF Settled, SupplyOf
  <2>3. \A u : Vault!getBalance(u, p) = BalanceOf(p, u)
    BY <1>2, HeldIsRead DEF Settled
  <2>4. QED
    BY <2>1, <2>2, <2>3 DEF Vault!totalSupplyEndpoint, Vault!balanceEndpoint
<1>4. ASSUME NEW p \in DOMAIN db.pools, NEW u,
             \A r \in Vault!getPoolBalances(u) : r.pool # p
      PROVE  BalanceOf(p, u) = 0
  <2>1. CASE <<p, u>> \in DOMAIN db.balances
    <3>1. PICK k \in DOMAIN db.balances : k = <<p, u>>
      BY <2>1
    <3>2. k \in {b \in DOMAIN db.balances : b[2] = u} /\ k[1] = p
      BY <3>1
    <3>3. [pool |-> k[1], balance |-> db.balances[k].balance, supply |-> Vault!getPool(k[1])[1].supply]
            \in Vault!getPoolBalances(u)
      BY <3>2 DEF Vault!getPoolBalances
    <3>4. QED
      BY <1>4, <3>2, <3>3
  <2>2. QED
    BY <2>1 DEF BalanceOf
<1>5. ASSUME NEW p \in DOMAIN db.pools, NEW u, NEW r \in Vault!getPoolBalances(u), r.pool = p
      PROVE  r.balance = BalanceOf(p, u)
  <2>1. PICK k \in DOMAIN db.balances :
          /\ k[2] = u
          /\ r = [pool |-> k[1], balance |-> db.balances[k].balance, supply |-> Vault!getPool(k[1])[1].supply]
    BY DEF Vault!getPoolBalances
  <2>2. k = <<p, u>>
    BY <1>2, <1>5, <2>1
  <2>3. QED
    BY <2>1, <2>2 DEF BalanceOf
<1>6. QED
  BY <1>3, <1>4, <1>5 DEF SerialVaultMirror

\* Registry: the limits, the reason of a refusal and the last execution.
LEMMA QuietRegistry == ASSUME SerialInv, tidy, Quiet, family = "registry" PROVE SerialRegistryMirror
<1>1. RegistrySerial /\ \A j \in Jobs : jobs[j].kind = "idle"
  BY DEF SerialInv, Quiet, Running
<1>2. /\ \A p : Strategy!Known(p) => HasPool(p) /\ Agrees(db.pools[p], Strategy!Settings(p))
      /\ DOMAIN db.executions \subseteq {0}
      /\ Strategy!Executions # {} =>
           0 \in DOMAIN db.executions /\ db.executions[0].pool = Latest(Strategy!Executions).pool
  BY <1>1 DEF RegistrySerial, SettingsOwed, ExecutionsOwed, ChangeKinds
<1>3. ASSUME NEW p, Strategy!Known(p)
      PROVE  /\ p \in Strategy!poolsEndpoint(Strategy!poolEndpoint(p).active)
             /\ db.pools[p].min = Strategy!poolEndpoint(p).min
             /\ db.pools[p].max = Strategy!poolEndpoint(p).max
  BY <1>2, <1>3 DEF Strategy!poolsEndpoint, Strategy!getPools, Strategy!poolEndpoint, Strategy!getPool,
     HasPool, Agrees
<1>4. ASSUME NEW p, Strategy!Known(p), NEW a, Strategy!validDepositEndpoint(p, a).reason = "inactive"
      PROVE  p \in Strategy!poolsEndpoint(FALSE)
  <2>1. Strategy!validDepositEndpoint(p, a).reason
          = IF Strategy!isValidDeposit(p, a) THEN "none" ELSE Strategy!Reason(Strategy!Settings(p), a)
    BY Zenon DEF Strategy!validDepositEndpoint, Strategy!getPool
  <2>2. Strategy!Reason(Strategy!Settings(p), a) = "inactive"
    BY <1>4, <2>1
  <2>3. ~Strategy!Settings(p).active
    BY <2>2 DEF Strategy!Reason
  <2>4. QED
    BY <1>2, <1>4, <2>3 DEF Strategy!poolsEndpoint, Strategy!getPools, HasPool, Agrees
<1>5. ASSUME NEW p, Strategy!Executions # {}
      PROVE  Strategy!executionsEndpoint(p) # {} <=> Latest(Strategy!Executions).pool = p
  BY <1>2, <1>5 DEF Strategy!executionsEndpoint, Strategy!getStrategyExecutions
<1>6. QED
  BY <1>3, <1>4, <1>5 DEF SerialRegistryMirror

\* Rewards: the open rows are what is due, and the listed distributors are authorized.
LEMMA QuietRewards == ASSUME SerialInv, tidy, Quiet, family = "reward" PROVE SerialRewardMirror
<1>1. RewardSerial /\ \A j \in Jobs : jobs[j].kind = "idle"
  BY DEF SerialInv, Quiet, Running
<1>2. \A u : Promised(u) = Due(u)
  BY <1>1 DEF RewardSerial, RewardsOwed
<1>3. \A d : d \in Reward!distributorsEndpoint <=> Reward!isAuthorizedDistributor(d)
  BY <1>1 DEF RewardSerial, DistributorsOwed, Authorizing, Revoking
<1>4. ASSUME NEW u PROVE Reward!userRewardsEndpoint(u).totalUnclaimed = Reward!rewardsEndpoint(u)
  <2>1. PICK rows : rows = {i \in DOMAIN db.rewards :
                              db.rewards[i].user = u /\ (FALSE \/ ~db.rewards[i].claimed)}
    OBVIOUS
  <2>2. {i \in rows : ~db.rewards[i].claimed} = OpenRows(u)
    BY <2>1 DEF OpenRows
  <2>3. Reward!userRewardsEndpoint(u).totalUnclaimed = Reward!Stored({i \in rows : ~db.rewards[i].claimed})
    BY <2>1 DEF Reward!userRewardsEndpoint, Reward!getUserRewards
  <2>4. Reward!Stored(OpenRows(u)) = Promised(u) /\ Reward!Amounted(Reward!Unclaimed(u)) = Due(u)
    BY RewardSums DEF Promised, Due
  <2>5. QED
    BY <1>2, <2>2, <2>3, <2>4 DEF Reward!rewardsEndpoint, Reward!getRewards
<1>5. QED
  BY <1>3, <1>4 DEF SerialRewardMirror, Reward!distributorEndpoint

\* Oracle: the rows are the contract's metrics, and a pair's in its last direction.
LEMMA QuietOracle == ASSUME MirrorInv, SerialInv, tidy, Quiet, family = "oracle" PROVE SerialOracleMirror
<1>1. OracleSerial /\ \A j \in Jobs : jobs[j].kind = "idle"
  BY DEF SerialInv, Quiet, Running
<1>2. \A p : IF Oracle!MetricsEvents(p) = {} THEN p \notin DOMAIN db.metrics
             ELSE p \in DOMAIN db.metrics /\ db.metrics[p] = Oracle!getPoolMetrics(p)
  BY <1>1 DEF OracleSerial, MetricsOwed
<1>3. \A p, q : PairOf(p, q) # {} => db.correlations[Latest(PairOf(p, q)).pair] = Latest(PairOf(p, q)).correlation
  BY <1>1 DEF OracleSerial, CorrelationsOwed
<1>4. \A p \in DOMAIN db.metrics : db.metrics[p] = Oracle!getPoolMetrics(p)
  BY <1>2
<1>5. ASSUME NEW p \in DOMAIN Oracle!getAllPoolMetrics
      PROVE  /\ Oracle!getAllPoolMetrics[p] = Oracle!metricsEndpoint(p)
             /\ Oracle!getAllPoolMetrics[p].yieldRate * Oracle!getAllPoolMetrics[p].tvl = Oracle!yieldEndpoint(p)
  <2>1. Oracle!getAllPoolMetrics[p] = Oracle!getPoolMetrics(p)
    BY <1>4, Zenon DEF Oracle!getAllPoolMetrics
  <2>2. QED
    BY <2>1, Zenon DEF Oracle!metricsEndpoint, Oracle!yieldEndpoint, Oracle!getPoolYield
<1>6. \A p \in Pools : Oracle!MetricsEvents(p) # {} => p \in DOMAIN Oracle!getAllPoolMetrics
  BY <1>2 DEF Oracle!getAllPoolMetrics
<1>7. ASSUME NEW p, NEW q, PairOf(p, q) # {}
      PROVE  Oracle!getAllCorrelations[Latest(PairOf(p, q)).pair] = Oracle!correlationEndpoint(p, q)
  <2>1. Oracle!getCorrelation(p, q) = Latest(PairOf(p, q)).correlation
    BY <1>7, OracleIsLatest, Zenon
  <2>2. QED
    BY <1>3, <1>7, <2>1, Zenon DEF Oracle!getAllCorrelations, Oracle!correlationEndpoint
<1>8. \A p, q \in Pools : LET latest == Oracle!PairEvents({<<p, q>>, <<q, p>>}) IN
         latest # {} => Oracle!getAllCorrelations[Latest(latest).pair] = Oracle!correlationEndpoint(p, q)
  BY <1>7, Zenon DEF PairOf
<1>9. QED
  BY <1>5, <1>6, <1>8, Zenon DEF SerialOracleMirror

\* The mirror of every family agrees with its contract once every event was handled alone
\* and to its end: balances and supplies, the limits of pools and the last execution,
\* rewards and distributors, metrics and correlations are what the contract answers with.
THEOREM MirrorFollowsContracts == Spec => []SerialMirror
<1>1. Init => MirrorInv /\ SerialInv
  BY MirrorInitInv, SerialInit
<1>2. MirrorInv /\ SerialInv /\ [Next]_vars => MirrorInv' /\ SerialInv'
  BY MirrorNextInv, SerialNext
<1>3. MirrorInv /\ SerialInv => SerialMirror
  <2> SUFFICES ASSUME MirrorInv, SerialInv PROVE SerialMirror
    OBVIOUS
  <2>1. SerialVaultMirror
    BY QuietVault DEF SerialVaultMirror
  <2>2. SerialRegistryMirror
    BY QuietRegistry DEF SerialRegistryMirror
  <2>3. SerialRewardMirror
    BY QuietRewards DEF SerialRewardMirror
  <2>4. SerialOracleMirror
    BY QuietOracle DEF SerialOracleMirror
  <2>5. QED
    BY <2>1, <2>2, <2>3, <2>4 DEF SerialMirror
<1>4. QED
  BY <1>1, <1>2, <1>3, PTL DEF Spec
=============================================================================
