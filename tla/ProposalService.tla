-------------------------- MODULE ProposalService --------------------------
(***************************************************************************)
(* The backend's off-chain governance: GovernanceService behind            *)
(* GovernanceController, one proposal row, its vote rows and its copies in *)
(* Redis.  Every await of the code is a step, so requests interleave; a    *)
(* copy read back from Redis carries its dates as strings.                 *)
(***************************************************************************)
EXTENDS Naturals, FiniteSets, Functions

CONSTANTS Requests,        \* requests in progress at the same time
          Wallets, Power,  \* voters and their governance token balance
          proposalThreshold, quorum,
          votingPeriod, executionDelay,
          NumActions,      \* on-chain actions of the proposal
          Operations,      \* the endpoints and jobs that are called
          Faults,          \* what may throw: "redis", "database", "action"
          MaxTime,         \* bound on the clock
          MaxArrivals,     \* bound on the number of requests
          MaxSerial,       \* and on it as long as they came one at a time
          None

VARIABLES db, votes,          \* proposals row, and vote rows per wallet and side
          cache, listCache,   \* the two Redis keys
          req, applied,       \* requests, and actions run on Starknet
          now, arrivals,
          serial              \* history: no two requests overlapped, no update was cut short

vars == <<db, votes, cache, listCache, req, applied, now, arrivals, serial>>

Sides == {"yes", "no"}
Endpoints == {"vote", "execute", "cancel"}

\* The columns of a proposal that the service decides on.
Row == [status : {"active", "passed", "rejected", "executed", "cancelled"},
        yes : Nat, no : Nat, end : Nat, executed : BOOLEAN]

ASSUME ProposalAssumption ==
    /\ IsFiniteSet(Wallets) /\ Power \in [Wallets -> Nat]
    /\ proposalThreshold \in Nat /\ quorum \in Nat
    /\ votingPeriod \in Nat /\ executionDelay \in Nat /\ NumActions \in Nat \ {0}
    /\ Operations \subseteq Endpoints \cup {"process", "get", "list"}
    /\ Faults \subseteq {"redis", "database", "action"}
    /\ MaxTime \in Nat /\ MaxArrivals \in Nat /\ MaxSerial \in Nat
    /\ None \notin Row

Idle == [pc |-> "idle", op |-> None, round |-> 0, copy |-> None, cached |-> FALSE,
         wallet |-> None, side |-> None, todo |-> 0]

Init ==
    /\ db = None
    /\ votes = [w \in Wallets |-> [s \in Sides |-> 0]]
    /\ cache = None /\ listCache = None
    /\ req = [r \in Requests |-> Idle]
    /\ applied = 0 /\ now = 0 /\ arrivals = 0
    /\ serial = TRUE

At(r, pc) == req[r].pc = pc
Quiet == \A r \in Requests : At(r, "idle")

\* Request r moves on to pc.
Move(r, pc) == req' = [req EXCEPT ![r].pc = pc]

\* Request r is answered, with a result or with an error.
Finish(r) == req' = [req EXCEPT ![r] = Idle]

\* `new Date() > proposal.endTime`: false when endTime is a string.
Ended(r) == ~req[r].cached /\ now > req[r].copy.end

createProposal(w) ==
    /\ db = None
    /\ Power[w] >= proposalThreshold
    /\ db' = [status |-> "active", yes |-> 0, no |-> 0, end |-> now + votingPeriod,
              executed |-> FALSE]
    /\ UNCHANGED <<votes, cache, listCache, req, applied, now, arrivals, serial>>

Arrive(r, op, w, s) ==
    /\ At(r, "idle") /\ arrivals < IF serial /\ Quiet THEN MaxSerial ELSE MaxArrivals
    /\ arrivals' = arrivals + 1 /\ serial' = (serial /\ Quiet)
    /\ req' = [req EXCEPT ![r] = [Idle EXCEPT
                 !.pc = CASE op = "list" -> "readList" [] op = "process" -> "process"
                          [] OTHER -> "readCache",
                 !.op = op, !.round = 1, !.wallet = w, !.side = s]]
    /\ UNCHANGED <<db, votes, cache, listCache, applied, now>>

----------------------------------------------------------------------------
(* getProposal: each endpoint runs it twice, in the controller and again in *)
(* the service.  A failing read of Redis counts as a miss.                  *)

ReadCache(r) ==
    /\ At(r, "readCache")
    /\ \/ /\ cache # None
          /\ req' = [req EXCEPT ![r].copy = cache, ![r].cached = TRUE, ![r].pc = "got"]
       \/ /\ cache = None \/ "redis" \in Faults
          /\ Move(r, "find")
    /\ UNCHANGED <<db, votes, cache, listCache, applied, now, arrivals, serial>>

FindRow(r) ==
    /\ At(r, "find")
    /\ IF db = None THEN Finish(r)
       ELSE req' = [req EXCEPT ![r].copy = db, ![r].cached = FALSE, ![r].pc = "fill"]
    /\ UNCHANGED <<db, votes, cache, listCache, applied, now, arrivals, serial>>

FillCache(r) ==
    /\ At(r, "fill")
    /\ \/ cache' = req[r].copy /\ Move(r, "got")
       \/ "redis" \in Faults /\ Finish(r) /\ UNCHANGED cache
    /\ UNCHANGED <<db, votes, listCache, applied, now, arrivals, serial>>

\* What the controller requires of the copy it read.
Admitted(r) ==
    LET copy == req[r].copy IN
    CASE req[r].op = "vote"    -> ~Ended(r)
      [] req[r].op = "execute" -> /\ ~copy.executed /\ copy.status # "cancelled"
                                  /\ req[r].cached \/ now > copy.end
      [] req[r].op = "cancel"  -> ~copy.executed /\ copy.status # "cancelled"
      [] OTHER                 -> FALSE  \* a plain read is answered

Admit(r) ==
    /\ At(r, "got") /\ req[r].round = 1
    /\ IF Admitted(r)
       THEN req' = [req EXCEPT ![r].pc = "readCache", ![r].round = 2]
       ELSE Finish(r)
    /\ UNCHANGED <<db, votes, cache, listCache, applied, now, arrivals, serial>>

----------------------------------------------------------------------------
(* vote *)

CheckVote(r) ==
    /\ At(r, "got") /\ req[r].round = 2 /\ req[r].op = "vote"
    /\ IF req[r].copy.status = "active" /\ ~Ended(r) THEN Move(r, "findVote") ELSE Finish(r)
    /\ UNCHANGED <<db, votes, cache, listCache, applied, now, arrivals, serial>>

\* Bug form used by the mutation runs: only a vote for the same side is found.
FindVote_sameSide(r) ==
    /\ At(r, "findVote")
    /\ IF votes[req[r].wallet][req[r].side] = 0 /\ Power[req[r].wallet] > 0
       THEN Move(r, "insert") ELSE Finish(r)
    /\ UNCHANGED <<db, votes, cache, listCache, applied, now, arrivals, serial>>

\* The lookup of an existing vote, then the balance.
FindVote(r) ==
    /\ At(r, "findVote")
    /\ IF (\A s \in Sides : votes[req[r].wallet][s] = 0) /\ Power[req[r].wallet] > 0
       THEN Move(r, "insert") ELSE Finish(r)
    /\ UNCHANGED <<db, votes, cache, listCache, applied, now, arrivals, serial>>

\* Bug form used by the mutation runs: every vote is counted as a yes.
InsertVote_oneSide(r) ==
    LET w == req[r].wallet  s == req[r].side IN
    /\ At(r, "insert")
    /\ \/ /\ votes' = [votes EXCEPT ![w][s] = @ + 1]
          /\ req' = [req EXCEPT ![r].pc = "save", ![r].copy.yes = @ + Power[w]]
       \/ "database" \in Faults /\ Finish(r) /\ UNCHANGED votes
    /\ UNCHANGED <<db, cache, listCache, applied, now, arrivals, serial>>

\* The vote row is saved and its power added to the copy read before.
InsertVote(r) ==
    LET w == req[r].wallet  s == req[r].side  copy == req[r].copy IN
    /\ At(r, "insert")
    /\ \/ /\ votes' = [votes EXCEPT ![w][s] = @ + 1]
          /\ req' = [req EXCEPT ![r].pc = "save",
                       ![r].copy = IF s = "yes" THEN [copy EXCEPT !.yes = @ + Power[w]]
                                   ELSE [copy EXCEPT !.no = @ + Power[w]]]
       \/ "database" \in Faults /\ Finish(r) /\ UNCHANGED votes
    /\ UNCHANGED <<db, cache, listCache, applied, now, arrivals, serial>>

----------------------------------------------------------------------------
(* cancelProposal and processEndedProposals *)

CheckCancel(r) ==
    /\ At(r, "got") /\ req[r].round = 2 /\ req[r].op = "cancel"
    /\ IF req[r].copy.status = "active"
       THEN req' = [req EXCEPT ![r].pc = "save", ![r].copy.status = "cancelled"]
       ELSE Finish(r)
    /\ UNCHANGED <<db, votes, cache, listCache, applied, now, arrivals, serial>>

Outcome(row) ==
    IF row.yes + row.no >= quorum /\ row.yes > row.no THEN "passed" ELSE "rejected"

Process(r) ==
    /\ At(r, "process")
    /\ IF db # None /\ db.status = "active" /\ db.end < now
       THEN req' = [req EXCEPT ![r].pc = "save",
                      ![r].copy = [db EXCEPT !.status = Outcome(db)]]
       ELSE Finish(r)
    /\ UNCHANGED <<db, votes, cache, listCache, applied, now, arrivals, serial>>

----------------------------------------------------------------------------
(* executeProposal *)

\* Bug form used by the mutation runs: the status is not looked at.
CheckExecute_anyStatus(r) ==
    /\ At(r, "got") /\ req[r].round = 2 /\ req[r].op = "execute"
    /\ IF ~req[r].cached /\ now >= req[r].copy.end + executionDelay
       THEN req' = [req EXCEPT ![r].pc = "act", ![r].todo = NumActions]
       ELSE Finish(r)
    /\ UNCHANGED <<db, votes, cache, listCache, applied, now, arrivals, serial>>

\* `endTime.getTime()` throws on a copy whose dates are strings.
CheckExecute(r) ==
    /\ At(r, "got") /\ req[r].round = 2 /\ req[r].op = "execute"
    /\ IF /\ req[r].copy.status = "passed" /\ ~req[r].cached
          /\ now >= req[r].copy.end + executionDelay
       THEN req' = [req EXCEPT ![r].pc = "act", ![r].todo = NumActions]
       ELSE Finish(r)
    /\ UNCHANGED <<db, votes, cache, listCache, applied, now, arrivals, serial>>

\* The copy's verdict, saved next.
Conclude(r, status) ==
    req' = [req EXCEPT ![r].pc = "save", ![r].copy.status = status, ![r].copy.executed = TRUE,
                       ![r].todo = 0]

\* Bug form used by the mutation runs: a failing action is skipped.
ExecuteAction_skips(r) ==
    /\ At(r, "act")
    /\ \/ applied' = applied + 1
       \/ "action" \in Faults /\ UNCHANGED applied
    /\ IF req[r].todo > 1 THEN req' = [req EXCEPT ![r].todo = @ - 1] ELSE Conclude(r, "executed")
    /\ UNCHANGED <<db, votes, cache, listCache, now, arrivals, serial>>

ExecuteAction(r) ==
    /\ At(r, "act")
    /\ \/ /\ applied' = applied + 1
          /\ IF req[r].todo > 1 THEN req' = [req EXCEPT ![r].todo = @ - 1]
             ELSE Conclude(r, "executed")
       \/ "action" \in Faults /\ Conclude(r, "rejected") /\ UNCHANGED applied
    /\ UNCHANGED <<db, votes, cache, listCache, now, arrivals, serial>>

----------------------------------------------------------------------------
(* The last two awaits of every update: save the whole row, drop the key.   *)

\* An exception after the actions ran: executeProposal saves 'rejected'.
Thrown(r) ==
    IF req[r].op = "execute" /\ req[r].copy.status = "executed"
    THEN Conclude(r, "rejected") ELSE Finish(r)

SaveRow(r) ==
    /\ At(r, "save")
    /\ \/ db' = req[r].copy /\ Move(r, "del") /\ UNCHANGED serial
       \/ "database" \in Faults /\ Thrown(r) /\ serial' = FALSE /\ UNCHANGED db
    /\ UNCHANGED <<votes, cache, listCache, applied, now, arrivals>>

\* Bug form used by the mutation runs: the key of the proposal is not deleted.
DropCache_skipped(r) ==
    /\ At(r, "del")
    /\ Finish(r)
    /\ UNCHANGED <<db, votes, cache, listCache, applied, now, arrivals, serial>>

\* The second key, 'governance:proposals', is one no list is stored under.
DropCache(r) ==
    /\ At(r, "del")
    /\ \/ cache' = None /\ Finish(r) /\ UNCHANGED serial
       \/ "redis" \in Faults /\ Thrown(r) /\ serial' = FALSE /\ UNCHANGED cache
    /\ UNCHANGED <<db, votes, listCache, applied, now, arrivals>>

----------------------------------------------------------------------------
(* getProposals: the status column of the list is what matters here. *)

Listed(row) == IF row = None THEN "absent" ELSE row.status

ReadList(r) ==
    /\ At(r, "readList")
    /\ IF listCache # None THEN Finish(r) ELSE Move(r, "findList")
    /\ UNCHANGED <<db, votes, cache, listCache, applied, now, arrivals, serial>>

FindList(r) ==
    /\ At(r, "findList")
    /\ req' = [req EXCEPT ![r].copy = db, ![r].pc = "fillList"]
    /\ UNCHANGED <<db, votes, cache, listCache, applied, now, arrivals, serial>>

FillList(r) ==
    /\ At(r, "fillList")
    /\ listCache' = Listed(req[r].copy) /\ Finish(r)
    /\ UNCHANGED <<db, votes, cache, applied, now, arrivals, serial>>

----------------------------------------------------------------------------
(* Redis drops a key 60 seconds after it was set; the clock advances. *)

Expire ==
    /\ cache # None /\ cache' = None
    /\ UNCHANGED <<db, votes, listCache, req, applied, now, arrivals, serial>>

ExpireList ==
    /\ listCache # None /\ listCache' = None
    /\ UNCHANGED <<db, votes, cache, req, applied, now, arrivals, serial>>

Tick ==
    /\ now < MaxTime /\ now' = now + 1
    /\ UNCHANGED <<db, votes, cache, listCache, req, applied, arrivals, serial>>

Getting(r) == ReadCache(r) \/ FindRow(r) \/ FillCache(r) \/ Admit(r)
Voting(r) == CheckVote(r) \/ FindVote(r) \/ InsertVote(r)
Deciding(r) == CheckCancel(r) \/ Process(r) \/ CheckExecute(r) \/ ExecuteAction(r)
Storing(r) == SaveRow(r) \/ DropCache(r)
Listing(r) == ReadList(r) \/ FindList(r) \/ FillList(r)

Next ==
    \/ \E w \in Wallets : createProposal(w)
    \/ \E r \in Requests :
          \/ "vote" \in Operations /\ \E w \in Wallets, s \in Sides : Arrive(r, "vote", w, s)
          \/ \E op \in Operations \ {"vote"} : Arrive(r, op, None, None)
          \/ Getting(r) \/ Voting(r) \/ Deciding(r) \/ Storing(r) \/ Listing(r)
    \/ Expire \/ ExpireList \/ Tick

Spec == Init /\ [][Next]_vars

----------------------------------------------------------------------------
\* The power of the vote rows of one side.
Cast(side) == SumFunction([w \in Wallets |-> votes[w][side] * Power[w]])

\* However votes interleave, a stored tally never counts power that no vote
\* row of its side has: vote() inserts the row before it adds to the tally,
\* and a stale save can only lose power.
TallyWithinVotes == db # None => db.yes <= Cast("yes") /\ db.no <= Cast("no")

\* Actions run on Starknet only for a proposal whose vote rows reached the
\* quorum, and a passed row has a winning yes tally, whatever stale copies
\* requests carry.
ActionsNeedQuorum ==
    /\ applied > 0 => Cast("yes") + Cast("no") >= quorum
    /\ db # None /\ db.status \in {"passed", "executed"} => db.yes > db.no

\* Between requests, as long as they came one at a time, Redis holds what the
\* proposals table holds: every update ends by dropping the key.
CacheCoherent == serial /\ Quiet /\ cache # None => cache = db

\* As long as requests came one at a time, both tallies are exactly the power
\* of the vote rows, and no wallet has two of them.
SerialTallyExact ==
    serial /\ Quiet /\ db # None =>
        /\ db.yes = Cast("yes") /\ db.no = Cast("no")
        /\ \A w \in Wallets : votes[w]["yes"] + votes[w]["no"] <= 1

\* As long as requests came one at a time, the row says 'executed' exactly when
\* every action ran, and no action runs again.
SerialExecution ==
    serial => /\ applied <= NumActions
              /\ Quiet /\ db # None => (db.status = "executed" <=> applied = NumActions)

\* The actions of a proposal run once: 'Proposal has already been executed'
\* (governance.controller.ts:346).
ActionsRunOnce == applied <= NumActions

=============================================================================
