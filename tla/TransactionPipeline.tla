------------------------ MODULE TransactionPipeline ------------------------
(***************************************************************************)
(* One call of TransactionService.executeTransaction, the rounds of        *)
(* TransactionMonitorService that poll the same table, and the chain.      *)
(* The k-th attempt of the call submits transaction k.  The interval timer *)
(* does not wait for the round before it, so rounds overlap each other and *)
(* the update that the call makes itself.                                  *)
(***************************************************************************)
EXTENDS Naturals, FiniteSets

CONSTANTS maxRetries,        \* TX_MAX_RETRIES of the call
          monitorRetries,    \* TRANSACTION_MAX_RETRIES of the monitor
          maxConfirmations,  \* depth at which a row is CONFIRMED
          confirmations,     \* depth the call waits for
          Rounds,            \* monitor rounds in progress at the same time
          MaxHeight,         \* bound on the chain's height
          MaxRestarts,       \* bound on the restarts of the server
          Faults,            \* the operations that may throw
          Caller, None

VARIABLES chain, height,     \* the transactions on the node, and its head
          table,             \* the transactions table
          call,              \* the call's program counter and attempt
          upd, queue,        \* updateTransactionStatus in progress; rows left in a round
          restarts,
          faults             \* the operations that may throw in this behaviour

vars == <<chain, height, table, call, upd, queue, restarts, faults>>

Hashes == 1 .. maxRetries + 1
Updaters == Rounds \cup {Caller}

Row == [status : {"pending", "confirming", "confirmed", "failed"}, retryCount : Nat]

ASSUME PipelineAssumption ==
    /\ maxRetries \in Nat /\ monitorRetries \in Nat /\ MaxRestarts \in Nat
    /\ confirmations \in Nat \ {0} /\ maxConfirmations \in Nat \ {0} /\ MaxHeight \in Nat
    /\ Faults \subseteq {"prepare", "submit", "lost", "wait", "rpc", "database"}
    /\ Caller \notin Rounds /\ None \notin Row /\ None \notin Hashes

\* The faults after which a transaction may live on although its attempt is over.
AnswerFaults == {"lost", "wait"}

NoUpdate == [pc |-> "idle", hash |-> None, copy |-> None, caught |-> FALSE]

\* updateTransactionStatus begins on a copy of h's row.
Update(h, copy) == [pc |-> "receipt", hash |-> h, copy |-> copy, caught |-> FALSE]

Init ==
    /\ chain = [h \in Hashes |-> [state |-> "unsent", block |-> 0]]
    /\ height = 0
    /\ table = [h \in Hashes |-> None]
    /\ call = [pc |-> "simulate", attempt |-> 0]
    /\ upd = [u \in Updaters |-> NoUpdate]
    /\ queue = [m \in Rounds |-> [h \in Hashes |-> None]]
    /\ restarts = 0
    /\ faults \in {Faults, Faults \ AnswerFaults}

Tx == call.attempt
Depth(h) == height - chain[h].block + 1
Goto(pc) == call' = [call EXCEPT !.pc = pc]

----------------------------------------------------------------------------
(* The node: code outside the repository, as the services use it. *)

\* A pooled transaction is mined, with either result, in a new block; the
\* bound leaves room for the blocks that confirm it.
Mine(h) ==
    /\ chain[h].state = "pooled" /\ height + maxConfirmations <= MaxHeight
    /\ height' = height + 1
    /\ \E s \in {"success", "reverted"} :
          chain' = [chain EXCEPT ![h] = [state |-> s, block |-> height + 1]]
    /\ UNCHANGED <<table, call, upd, queue, restarts>>

\* It is replaced by a cancellation, or priced out, and never mined.
Drop(h) ==
    /\ chain[h].state = "pooled"
    /\ chain' = [chain EXCEPT ![h].state = "dropped"]
    /\ UNCHANGED <<height, table, call, upd, queue, restarts>>

NewBlock ==
    /\ height < MaxHeight /\ height' = height + 1
    /\ UNCHANGED <<chain, table, call, upd, queue, restarts>>

----------------------------------------------------------------------------
(* executeTransaction *)

\* The catch clause: a retryable error starts another attempt while there is
\* one left, any other error is thrown to the caller.
Catch(retryable) ==
    Goto(IF retryable /\ Tx <= maxRetries THEN "prepare" ELSE "thrown")

Simulate ==
    /\ call.pc = "simulate"
    /\ Goto("prepare") \/ ("prepare" \in faults /\ Goto("thrown"))
    /\ UNCHANGED <<chain, height, table, upd, queue, restarts>>

\* attempt++, then the signer, the gas estimate and the gas price.
Prepare ==
    /\ call.pc = "prepare"
    /\ \/ call' = [pc |-> "submit", attempt |-> Tx + 1]
       \/ /\ "prepare" \in faults
          /\ \E retryable \in BOOLEAN :
                call' = [pc |-> IF retryable /\ Tx + 1 <= maxRetries THEN "prepare" ELSE "thrown",
                         attempt |-> Tx + 1]
    /\ UNCHANGED <<chain, height, table, upd, queue, restarts>>

\* The node takes the transaction and answers, refuses it, or takes it and
\* the answer is lost.
Submit ==
    /\ call.pc = "submit"
    /\ LET pooled == [chain EXCEPT ![Tx].state = "pooled"] IN
       \/ chain' = pooled /\ Goto("track")
       \/ "submit" \in faults /\ UNCHANGED chain /\ \E retryable \in BOOLEAN : Catch(retryable)
       \/ "lost" \in faults /\ chain' = pooled /\ Catch(TRUE)
    /\ UNCHANGED <<height, table, upd, queue, restarts>>

\* Bug form used by the mutation runs: a failing insert is retried.
Track_retries ==
    /\ call.pc = "track"
    /\ \/ /\ table' = [table EXCEPT ![Tx] = IF @ = None THEN [status |-> "pending", retryCount |-> 0] ELSE @]
          /\ Goto("wait")
       \/ "database" \in faults /\ Catch(TRUE) /\ UNCHANGED table
    /\ UNCHANGED <<chain, height, upd, queue, restarts>>

\* trackTransaction: find, then insert; a database error is not retryable.
Track ==
    /\ call.pc = "track"
    /\ \/ /\ table' = [table EXCEPT ![Tx] = IF @ = None THEN [status |-> "pending", retryCount |-> 0] ELSE @]
          /\ Goto("wait")
       \/ "database" \in faults /\ Catch(FALSE) /\ UNCHANGED table
    /\ UNCHANGED <<chain, height, upd, queue, restarts>>

\* Bug form used by the mutation runs: the receipt's status is not looked at.
Wait_anyReceipt ==
    /\ call.pc = "wait"
    /\ \/ chain[Tx].state \in {"success", "reverted"} /\ Depth(Tx) >= confirmations /\ Goto("lookup")
       \/ chain[Tx].state = "dropped" /\ \E retryable \in BOOLEAN : Catch(retryable)
       \/ "wait" \in faults /\ Catch(TRUE)
    /\ UNCHANGED <<chain, height, table, upd, queue, restarts>>

\* tx.wait: throws CALL_EXCEPTION for a reverted transaction, TRANSACTION_REPLACED
\* (retryable when canceled) for a dropped one, and any network error.
Wait ==
    /\ call.pc = "wait"
    /\ \/ chain[Tx].state = "success" /\ Depth(Tx) >= confirmations /\ Goto("lookup")
       \/ chain[Tx].state = "reverted" /\ Depth(Tx) >= confirmations /\ Catch(FALSE)
       \/ chain[Tx].state = "dropped" /\ \E retryable \in BOOLEAN : Catch(retryable)
       \/ "wait" \in faults /\ Catch(TRUE)
    /\ UNCHANGED <<chain, height, table, upd, queue, restarts>>

\* getTransaction, then updateTransactionStatus on the row it found.
Lookup ==
    /\ call.pc = "lookup"
    /\ \/ /\ Goto("updating")
          /\ upd' = [upd EXCEPT ![Caller] = Update(Tx, table[Tx])]
       \/ "database" \in faults /\ Catch(FALSE) /\ UNCHANGED upd
    /\ UNCHANGED <<chain, height, table, queue, restarts>>

----------------------------------------------------------------------------
(* updateTransactionStatus, on the copy that the caller or a round read *)

\* Bug form used by the mutation runs: FAILED one check too early.
Missed_early(copy) ==
    [retryCount |-> copy.retryCount + 1,
     status |-> IF copy.retryCount + 1 >= monitorRetries THEN "failed" ELSE copy.status]

\* One more failed check of the row.
Missed(copy) ==
    [retryCount |-> copy.retryCount + 1,
     status |-> IF copy.retryCount + 1 > monitorRetries THEN "failed" ELSE copy.status]

\* Its catch clause: count the error and save, outside any try.
CatchUpdate(u) ==
    upd' = [upd EXCEPT ![u].pc = "save", ![u].copy = Missed(@), ![u].caught = TRUE]

FetchReceipt(u) ==
    /\ upd[u].pc = "receipt"
    /\ \/ /\ chain[upd[u].hash].state \in {"success", "reverted"}
          /\ upd' = [upd EXCEPT ![u].pc = "block"]
       \/ /\ chain[upd[u].hash].state \notin {"success", "reverted"}
          /\ upd' = [upd EXCEPT ![u].pc = "save", ![u].copy = Missed(@)]
       \/ "rpc" \in faults /\ CatchUpdate(u)
    /\ UNCHANGED <<chain, height, table, call, queue, restarts>>

\* Bug form used by the mutation runs: a reverted transaction gets deep enough too.
Verdict_anyResult(h) == IF Depth(h) >= maxConfirmations THEN "confirmed" ELSE "confirming"

\* The status for a mined transaction at the current block number.
Verdict(h) ==
    IF chain[h].state = "reverted" THEN "failed"
    ELSE IF Depth(h) >= maxConfirmations THEN "confirmed" ELSE "confirming"

FetchBlock(u) ==
    /\ upd[u].pc = "block"
    /\ \/ upd' = [upd EXCEPT ![u].pc = "save", ![u].copy.status = Verdict(upd[u].hash)]
       \/ "rpc" \in faults /\ CatchUpdate(u)
    /\ UNCHANGED <<chain, height, table, call, queue, restarts>>

\* The whole row is saved; then the call returns, or the round goes on.
Saved(u) ==
    /\ upd[u].pc = "save"
    /\ table' = [table EXCEPT ![upd[u].hash] = upd[u].copy]
    /\ upd' = [upd EXCEPT ![u] = NoUpdate]
    /\ IF u = Caller THEN Goto("returned") ELSE UNCHANGED call
    /\ UNCHANGED <<chain, height, queue, restarts>>

\* An error of a save in the try is counted; one in the catch is thrown to the
\* call, or ends the round.
SaveFailed(u) ==
    /\ upd[u].pc = "save" /\ "database" \in faults
    /\ IF ~upd[u].caught THEN CatchUpdate(u) /\ UNCHANGED <<call, queue>>
       ELSE /\ upd' = [upd EXCEPT ![u] = NoUpdate]
            /\ IF u = Caller THEN Catch(FALSE) /\ UNCHANGED queue
               ELSE queue' = [queue EXCEPT ![u] = [h \in Hashes |-> None]] /\ UNCHANGED call
    /\ UNCHANGED <<chain, height, table, restarts>>

----------------------------------------------------------------------------
(* checkPendingTransactions, on every tick of the interval timer *)

Open(h) == table[h] # None /\ table[h].status \in {"pending", "confirming"}


\* The rows still open are read at once.
StartRound(m) ==
    /\ upd[m].pc = "idle" /\ \A h \in Hashes : queue[m][h] = None
    /\ \E h \in Hashes : Open(h)
    /\ queue' = [queue EXCEPT ![m] = [h \in Hashes |-> IF Open(h) THEN table[h] ELSE None]]
    /\ UNCHANGED <<chain, height, table, call, upd, restarts>>

\* The loop takes its next copy, however old it is by now.
NextRow(m) ==
    /\ upd[m].pc = "idle"
    /\ \E h \in Hashes :
          /\ queue[m][h] # None /\ \A g \in Hashes : g < h => queue[m][g] = None
          /\ upd' = [upd EXCEPT ![m] = Update(h, queue[m][h])]
          /\ queue' = [queue EXCEPT ![m][h] = None]
    /\ UNCHANGED <<chain, height, table, call, restarts>>

----------------------------------------------------------------------------
\* The server stops and starts again: what it had in memory is gone, the
\* table and the chain are not.
Restart ==
    /\ restarts < MaxRestarts /\ restarts' = restarts + 1
    /\ call' = [call EXCEPT !.pc = IF @ \in {"returned", "thrown"} THEN @ ELSE "lost"]
    /\ upd' = [u \in Updaters |-> NoUpdate]
    /\ queue' = [m \in Rounds |-> [h \in Hashes |-> None]]
    /\ UNCHANGED <<chain, height, table>>

Calling == Simulate \/ Prepare \/ Submit \/ Track \/ Wait \/ Lookup
Updating(u) == FetchReceipt(u) \/ FetchBlock(u) \/ Saved(u) \/ SaveFailed(u)
Polling(m) == StartRound(m) \/ NextRow(m)

Next ==
    /\ UNCHANGED faults
    /\ \/ Calling \/ Restart \/ NewBlock
       \/ \E u \in Updaters : Updating(u)
       \/ \E m \in Rounds : Polling(m)
       \/ \E h \in Hashes : Mine(h) \/ Drop(h)

Spec == Init /\ [][Next]_vars

\* Promises settle, the interval timer keeps firing, the chain keeps producing
\* blocks and a database that is asked again and again answers at last; nothing
\* is assumed of the call or of the mempool.
Fairness ==
    /\ WF_vars(NewBlock /\ UNCHANGED faults)
    /\ \A u \in Updaters :
          WF_vars(Updating(u) /\ UNCHANGED faults) /\ SF_vars(Saved(u) /\ UNCHANGED faults)
    /\ \A m \in Rounds : WF_vars(Polling(m) /\ UNCHANGED faults)

FairSpec == Spec /\ Fairness

----------------------------------------------------------------------------
States == {"unsent", "pooled", "success", "reverted", "dropped"}
CallPcs == {"simulate", "prepare", "submit", "track", "wait", "lookup", "updating",
            "returned", "thrown", "lost"}

\* Type invariant of the chain, the table and the copies in memory: an update
\* in progress holds a copy of a row, and attempts stay within the retries.
TypeOK ==
    /\ chain \in [Hashes -> [state : States, block : Nat]] /\ height \in Nat
    /\ table \in [Hashes -> Row \cup {None}]
    /\ call \in [pc : CallPcs, attempt : 0 .. maxRetries + 1]
    /\ upd \in [Updaters -> [pc : {"idle", "receipt", "block", "save"}, hash : Hashes \cup {None},
                             copy : Row \cup {None}, caught : BOOLEAN]]
    /\ \A u \in Updaters : upd[u].pc # "idle" => upd[u].hash \in Hashes /\ upd[u].copy \in Row
    /\ queue \in [Rounds -> [Hashes -> Row \cup {None}]]
    /\ restarts \in Nat

\* A receipt is returned only for a tracked transaction that succeeded on chain
\* as deep as the caller asked, whatever attempts failed before it.
ReturnedIsMined ==
    call.pc = "returned" =>
        chain[Tx].state = "success" /\ Depth(Tx) >= confirmations /\ table[Tx] # None

\* However rounds and the call overwrite each other's rows, CONFIRMED is only
\* ever said of a successful transaction that is deep enough.
ConfirmedIsDeep ==
    \A h \in Hashes : table[h] # None /\ table[h].status = "confirmed" =>
        chain[h].state = "success" /\ Depth(h) >= maxConfirmations

\* FAILED is said of a reverted transaction or after more than monitorRetries
\* failed checks.
FailedHasCause ==
    \A h \in Hashes : table[h] # None /\ table[h].status = "failed" =>
        chain[h].state = "reverted" \/ table[h].retryCount > monitorRetries

\* The retries of one call take effect at most once: as long as no answer of
\* the node is lost, a new attempt starts only when the last is dead.
OneEffect ==
    faults \cap AnswerFaults = {} =>
        Cardinality({h \in Hashes : chain[h].state \in {"pooled", "success"}}) <= 1


============================================================================
