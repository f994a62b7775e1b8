------------------------ MODULE CircuitBreakerFixed ------------------------
(***************************************************************************)
(* One circuit as circuit-breaker.service.fixed.ts defines it, with the    *)
(* default persistent: false.  It says what the state machine of the       *)
(* breaker should be: one failing trial call opens a half-open circuit.    *)
(***************************************************************************)
EXTENDS Naturals

CONSTANTS Calls, failureThreshold, successThreshold, resetTimeout, MaxFailures

VARIABLES state, failures, successes,
          elapsed,          \* time since lastFailure, as far as it matters
          pc,               \* of each call: idle, or waiting for its function
          healthy           \* the protected service has recovered for good

vars == <<state, failures, successes, elapsed, pc, healthy>>
circuit == <<state, failures, successes>>

Init ==
    /\ state = "CLOSED" /\ failures = 0 /\ successes = 0
    /\ elapsed = resetTimeout
    /\ pc = [c \in Calls |-> "idle"]
    /\ healthy = FALSE

\* A call that starts once the service is healthy is answered in time.
Begin(c) ==
    /\ pc[c] = "idle"
    /\ pc' = [pc EXCEPT ![c] = IF healthy THEN "served" ELSE "waiting"]

Start(c) ==
    /\ Begin(c)
    /\ \/ state # "OPEN" /\ UNCHANGED circuit
       \/ state = "OPEN" /\ elapsed >= resetTimeout
          /\ state' = "HALF_OPEN" /\ successes' = 0 /\ UNCHANGED failures
    /\ UNCHANGED <<elapsed, healthy>>

resetCircuit ==
    /\ state' = "CLOSED" /\ failures' = 0 /\ successes' = 0
    /\ UNCHANGED <<elapsed, pc, healthy>>

handleSuccess(c) ==
    /\ pc[c] # "idle" /\ pc' = [pc EXCEPT ![c] = "idle"]
    /\ \/ /\ state = "HALF_OPEN" /\ successes + 1 >= successThreshold
          /\ state' = "CLOSED" /\ failures' = 0 /\ successes' = 0
       \/ /\ state = "HALF_OPEN" /\ successes + 1 < successThreshold
          /\ successes' = successes + 1 /\ UNCHANGED <<state, failures>>
       \/ state = "CLOSED" /\ failures' = 0 /\ UNCHANGED <<state, successes>>
       \/ state = "OPEN" /\ UNCHANGED circuit
    /\ UNCHANGED <<elapsed, healthy>>

Opens == state = "HALF_OPEN" \/ (state = "CLOSED" /\ failures + 1 >= failureThreshold)

handleFailure(c) ==
    /\ pc[c] = "waiting" /\ pc' = [pc EXCEPT ![c] = "idle"]
    /\ failures < MaxFailures /\ failures' = failures + 1
    /\ elapsed' = 0
    /\ state' = IF Opens THEN "OPEN" ELSE state
    /\ successes' = IF Opens THEN 0 ELSE successes
    /\ UNCHANGED healthy

Tick ==
    /\ elapsed < resetTimeout /\ elapsed' = elapsed + 1
    /\ UNCHANGED <<circuit, pc, healthy>>

Heal ==
    /\ ~healthy /\ healthy' = TRUE
    /\ UNCHANGED <<circuit, elapsed, pc>>

Next ==
    \/ \E c \in Calls : Start(c) \/ handleSuccess(c) \/ handleFailure(c)
    \/ resetCircuit \/ Tick \/ Heal

Spec == Init /\ [][Next]_vars

============================================================================
