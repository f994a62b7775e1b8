--------------------------- MODULE CircuitBreaker --------------------------
(***************************************************************************)
(* One circuit of CircuitBreakerService.  Calls of execute() overlap: each *)
(* looks at the circuit when it starts and again when its function has     *)
(* answered or timed out, by when other calls may have moved the circuit.  *)
(***************************************************************************)
EXTENDS Naturals

CONSTANTS Calls,            \* calls in progress at the same time
          failureThreshold, successThreshold,
          resetTimeout,     \* in ticks of the clock
          MaxFailures       \* bound on the counter of failures

VARIABLES state, failures, successes,
          elapsed,          \* time since lastFailure, as far as it matters
          pc,               \* of each call: idle, or waiting for its function
          healthy           \* the protected service has recovered for good

circuitVars == <<state, failures, successes, elapsed, pc, healthy>>
circuit == <<state, failures, successes>>

ASSUME BreakerAssumption ==
    /\ failureThreshold \in Nat \ {0} /\ successThreshold \in Nat \ {0}
    /\ resetTimeout \in Nat /\ MaxFailures \in Nat

CircuitInit ==
    /\ state = "CLOSED" /\ failures = 0 /\ successes = 0
    /\ elapsed = resetTimeout
    /\ pc = [c \in Calls |-> "idle"]
    /\ healthy = FALSE

\* A call that starts once the service is healthy is answered in time.
Begin(c) ==
    /\ pc[c] = "idle"
    /\ pc' = [pc EXCEPT ![c] = IF healthy THEN "served" ELSE "waiting"]

\* Bug form used by the mutation runs: the trial calls of the last half-open
\* period still count.
HalfOpen_keepsSuccesses == state' = "HALF_OPEN" /\ UNCHANGED <<successes, failures>>

HalfOpen == state' = "HALF_OPEN" /\ successes' = 0 /\ UNCHANGED failures

\* Bug form used by the mutation runs: every trial call starts the count again.
Start_restartsCount(c) ==
    /\ Begin(c)
    /\ \/ state # "OPEN" /\ successes' = 0 /\ UNCHANGED <<state, failures>>
       \/ state = "OPEN" /\ elapsed >= resetTimeout /\ HalfOpen
    /\ UNCHANGED <<elapsed, healthy>>

\* execute up to the call of fn: an open circuit rejects the call until the
\* reset timeout is over, then half-opens.
Start(c) ==
    /\ Begin(c)
    /\ \/ state # "OPEN" /\ UNCHANGED circuit
       \/ state = "OPEN" /\ elapsed >= resetTimeout /\ HalfOpen
    /\ UNCHANGED <<elapsed, healthy>>

\* Bug form used by the mutation runs: the failures outlive the closing.
Close_keepsFailures == state' = "CLOSED" /\ UNCHANGED failures /\ successes' = 0

Close == state' = "CLOSED" /\ failures' = 0 /\ successes' = 0

resetCircuit ==
    /\ Close
    /\ UNCHANGED <<elapsed, pc, healthy>>

\* fn answered in time: a success counts in the state the circuit is in now.
Succeed(c) ==
    /\ pc[c] # "idle" /\ pc' = [pc EXCEPT ![c] = "idle"]
    /\ \/ state = "HALF_OPEN" /\ successes + 1 >= successThreshold /\ Close
       \/ /\ state = "HALF_OPEN" /\ successes + 1 < successThreshold
          /\ successes' = successes + 1 /\ UNCHANGED <<state, failures>>
       \/ state = "CLOSED" /\ failures' = 0 /\ UNCHANGED <<state, successes>>
       \/ state = "OPEN" /\ UNCHANGED circuit
    /\ UNCHANGED <<elapsed, healthy>>

\* fn rejected, or the timeout came first: one more failure whatever the state.
Fail(c) ==
    /\ pc[c] = "waiting" /\ pc' = [pc EXCEPT ![c] = "idle"]
    /\ failures < MaxFailures /\ failures' = failures + 1
    /\ elapsed' = 0
    /\ state' = IF failures + 1 >= failureThreshold THEN "OPEN" ELSE state
    /\ UNCHANGED <<successes, healthy>>

Tick ==
    /\ elapsed < resetTimeout /\ elapsed' = elapsed + 1
    /\ UNCHANGED <<circuit, pc, healthy>>

Heal ==
    /\ ~healthy /\ healthy' = TRUE
    /\ UNCHANGED <<circuit, elapsed, pc>>

CircuitNext ==
    \/ \E c \in Calls : Start(c) \/ Succeed(c) \/ Fail(c)
    \/ resetCircuit \/ Tick \/ Heal

CircuitSpec == CircuitInit /\ [][CircuitNext]_circuitVars

\* Time passes, a call is settled by its answer or by its timeout, and callers
\* keep coming: only then can a half-open circuit see its trial calls.
CircuitFairSpec ==
    /\ CircuitSpec
    /\ WF_circuitVars(Tick)
    /\ \A c \in Calls : WF_circuitVars(Succeed(c) \/ Fail(c)) /\ WF_circuitVars(Start(c))

----------------------------------------------------------------------------
\* Type invariant of the circuit and its calls.
CircuitTypeOK ==
    /\ state \in {"CLOSED", "OPEN", "HALF_OPEN"}
    /\ failures \in Nat /\ successes \in Nat
    /\ elapsed \in 0..resetTimeout
    /\ pc \in [Calls -> {"idle", "waiting", "served"}]
    /\ healthy \in BOOLEAN

\* The counters say which state the circuit is in, however late the results of
\* calls from an earlier state arrive: it is closed exactly below the failure
\* threshold, and a half-open circuit lacks at least one trial success.
CountersMatchState ==
    /\ state = "CLOSED" <=> failures < failureThreshold
    /\ state = "CLOSED" => successes = 0
    /\ state = "HALF_OPEN" => successes < successThreshold

\* The breaker behaves like the one of circuit-breaker.service.fixed.ts: it
\* leaves the successes standing when it opens and has no case for a failing
\* trial call, yet no sequence of overlapping calls tells the two apart.
Fixed == INSTANCE CircuitBreakerFixed
           WITH successes <- IF state = "OPEN" THEN 0 ELSE successes

RefinesFixed == Fixed!Spec

\* Once the protected service has recovered the circuit closes and stays
\* closed, whatever failures of earlier calls are still to come.
Recovers == <>healthy => <>[](state = "CLOSED")

============================================================================
