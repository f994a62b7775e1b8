--------------------- MODULE TransactionPipelineProofs ---------------------
(***************************************************************************)
(* Proofs about the transaction pipeline for any number of retries, checks *)
(* and overlapping rounds.  Stale copies are why the invariant speaks of   *)
(* every copy in memory and not of the table alone: what a copy says of    *)
(* its transaction stays true because a mined transaction stays mined and  *)
(* only gets deeper.  The second part is the circuit breaker in front of   *)
(* the contract calls, and what of it the fixed version promises.          *)
(***************************************************************************)
EXTENDS TransactionPipeline, CircuitBreaker, FiniteSetTheorems, TLAPS

\* What a row, stored or in memory, may say of transaction h.
Honest(h, row) ==
    row # None =>
        /\ row.status = "confirmed" =>
              chain[h].state = "success" /\ Depth(h) >= maxConfirmations
        /\ row.status = "failed" =>
              chain[h].state = "reverted" \/ row.retryCount > monitorRetries

\* A mined transaction has a block no higher than the head.
BlocksBelowHead == \A h \in Hashes : chain[h].block <= height

Honesty ==
    /\ \A h \in Hashes : Honest(h, table[h])
    /\ \A m \in Rounds, h \in Hashes : Honest(h, queue[m][h])
    /\ \A u \in Updaters : upd[u].pc # "idle" => Honest(upd[u].hash, upd[u].copy)
    /\ \A u \in Updaters : upd[u].pc = "block" =>
          chain[upd[u].hash].state \in {"success", "reverted"}

\* Where the call stands, and what it relies on at each point.
CallStands ==
    /\ call.pc = "simulate" => Tx = 0
    /\ call.pc = "prepare" => Tx <= maxRetries
    /\ \A h \in Hashes : h > Tx \/ (h = Tx /\ call.pc = "submit") => chain[h].state = "unsent"
    /\ call.pc \in {"submit", "track", "wait", "lookup", "updating", "returned"} => Tx \in Hashes
    /\ call.pc \in {"wait", "lookup", "updating", "returned"} => table[Tx] # None
    /\ call.pc \in {"lookup", "updating", "returned"} =>
          chain[Tx].state = "success" /\ Depth(Tx) >= confirmations
    /\ upd[Caller].pc # "idle" => call.pc = "updating" /\ upd[Caller].hash = Tx

Inv == TypeOK /\ BlocksBelowHead /\ Honesty /\ CallStands

LEMMA InitInv == Init => Inv
<1> SUFFICES ASSUME Init PROVE Inv
  OBVIOUS
<1> USE PipelineAssumption DEF Init, NoUpdate, Hashes, Updaters
<1>1. TypeOK
  BY DEF TypeOK, States, CallPcs
<1>2. BlocksBelowHead /\ Honesty /\ CallStands
  BY DEF BlocksBelowHead, Honesty, Honest, CallStands, Tx
<1>3. QED
  BY <1>1, <1>2 DEF Inv

\* A row that misses one more check.
LEMMA MissedRow ==
  ASSUME NEW row \in Row
  PROVE  /\ Missed(row) \in Row
         /\ \A h : Honest(h, row) => Honest(h, Missed(row))
  BY PipelineAssumption DEF Row, Missed, Honest

\* The verdict for a mined transaction is an honest status.
LEMMA HonestVerdict ==
  ASSUME TypeOK, NEW h \in Hashes, NEW row \in Row,
         chain[h].state \in {"success", "reverted"}
  PROVE  /\ [row EXCEPT !.status = Verdict(h)] \in Row
         /\ Honest(h, [row EXCEPT !.status = Verdict(h)])
  BY PipelineAssumption DEF TypeOK, Row, Verdict, Honest, Depth

\* Honesty survives whatever the chain may do: pooled transactions are mined or
\* dropped, mined ones keep their block, and the head only rises.
ChainGrows ==
    /\ height' \in Nat /\ height' >= height
    /\ chain' \in [Hashes -> [state : States, block : Nat]]
    /\ \A h \in Hashes : chain[h].state \in {"success", "reverted"} => chain'[h] = chain[h]
    /\ \A h \in Hashes : chain'[h].block <= height'

LEMMA ChainKeepsHonesty ==
  ASSUME Inv, ChainGrows, UNCHANGED <<table, upd, queue, restarts>>
  PROVE  Honesty' /\ BlocksBelowHead'
<1> USE PipelineAssumption
<1>2. ASSUME NEW h \in Hashes, NEW row \in Row \cup {None}, Honest(h, row)
      PROVE  Honest(h, row)'
  BY <1>2 DEF Inv, TypeOK, ChainGrows, Honest, Depth
<1>3. Honesty'
  <2>1. \A h \in Hashes : Honest(h, table[h])'
    BY <1>2 DEF Inv, TypeOK, Honesty, Honest, Depth
  <2>2. \A m \in Rounds, h \in Hashes : Honest(h, queue[m][h])'
    BY <1>2 DEF Inv, TypeOK, Honesty, Honest, Depth
  <2>3. ASSUME NEW u \in Updaters, upd[u].pc # "idle"
        PROVE  Honest(upd[u].hash, upd[u].copy)'
    <3>1. upd[u].hash \in Hashes /\ upd[u].copy \in Row
      BY <2>3 DEF Inv, TypeOK
    <3>2. Honest(upd[u].hash, upd[u].copy)
      BY <2>3 DEF Inv, Honesty
    <3>3. upd' = upd
      OBVIOUS
    <3>4. QED
      BY <1>2, <3>1, <3>2, <3>3 DEF Honest, Depth
  <2>4. QED
    BY <2>1, <2>2, <2>3 DEF Inv, TypeOK, Honesty, ChainGrows
<1>4. BlocksBelowHead'
  BY DEF BlocksBelowHead, ChainGrows
<1>5. QED
  BY <1>3, <1>4

\* A step of the node: what has not been sent stays so.
LEMMA ChainStep ==
  ASSUME Inv, ChainGrows, UNCHANGED <<table, call, upd, queue, restarts>>,
         \A h \in Hashes : chain[h].state = "unsent" => chain'[h].state = "unsent"
  PROVE  Inv'
<1>1. TypeOK'
  BY DEF Inv, TypeOK, ChainGrows
<1>2. CallStands'
  BY PipelineAssumption DEF Inv, TypeOK, CallStands, ChainGrows, Depth, Tx
<1>3. QED
  BY <1>1, <1>2, ChainKeepsHonesty DEF Inv

LEMMA MineStep ==
  ASSUME Inv, NEW h \in Hashes, Mine(h) \/ Drop(h) \/ NewBlock PROVE Inv'
<1> USE PipelineAssumption DEF Inv, TypeOK, BlocksBelowHead, States
<1>1. CASE Mine(h)
  <2>1. height' = height + 1
    BY <1>1 DEF Mine
  <2>2. PICK s \in {"success", "reverted"} :
           chain' = [chain EXCEPT ![h] = [state |-> s, block |-> height + 1]]
    BY <1>1 DEF Mine
  <2>3. ChainGrows /\ \A g \in Hashes : chain[g].state = "unsent" => chain'[g].state = "unsent"
    BY <1>1, <2>1, <2>2 DEF Mine, ChainGrows
  <2>4. QED
    BY <1>1, <2>3, ChainStep DEF Mine
<1>2. CASE Drop(h)
  <2>1. ChainGrows /\ \A g \in Hashes : chain[g].state = "unsent" => chain'[g].state = "unsent"
    BY <1>2 DEF Drop, ChainGrows
  <2>2. QED
    BY <1>2, <2>1, ChainStep DEF Drop
<1>3. CASE NewBlock
  <2>1. ChainGrows /\ \A g \in Hashes : chain[g].state = "unsent" => chain'[g].state = "unsent"
    BY <1>3 DEF NewBlock, ChainGrows
  <2>2. QED
    BY <1>3, <2>1, ChainStep DEF NewBlock
<1>4. QED
  BY <1>1, <1>2, <1>3

\* A step that moves the call and leaves rows, copies and chain alone.
LEMMA OnlyCallMoves ==
  ASSUME Inv, UNCHANGED <<chain, height, table, upd, queue, restarts>>,
         call' \in [pc : CallPcs, attempt : 0 .. maxRetries + 1],
         CallStands'
  PROVE  Inv'
  BY DEF Inv, TypeOK, BlocksBelowHead, Honesty, Honest, Depth

\* The catch clause leaves an attempt for the next one.
LEMMA CatchMoves ==
  ASSUME TypeOK, NEW retryable \in BOOLEAN, Catch(retryable)
  PROVE  /\ call' \in [pc : CallPcs, attempt : 0 .. maxRetries + 1]
         /\ call'.pc \in {"prepare", "thrown"}
         /\ call'.attempt = call.attempt
         /\ call'.pc = "prepare" => call.attempt <= maxRetries
  BY PipelineAssumption DEF Catch, Goto, TypeOK, Tx, CallPcs

LEMMA SimulateStep == ASSUME Inv, Simulate PROVE Inv'
<1>1. call' \in [pc : CallPcs, attempt : 0 .. maxRetries + 1]
  BY DEF Simulate, Goto, Inv, TypeOK, CallPcs
<1>2. CallStands'
  BY PipelineAssumption DEF Simulate, Goto, Inv, TypeOK, CallStands, Tx
<1>3. QED
  BY <1>1, <1>2, OnlyCallMoves DEF Simulate

LEMMA PrepareStep == ASSUME Inv, Prepare PROVE Inv'
<1>1. call' \in [pc : CallPcs, attempt : 0 .. maxRetries + 1]
  BY PipelineAssumption DEF Prepare, Inv, TypeOK, CallStands, CallPcs, Tx
<1>2. CallStands'
  BY PipelineAssumption DEF Prepare, Inv, TypeOK, CallStands, Tx, Hashes
<1>3. QED
  BY <1>1, <1>2, OnlyCallMoves DEF Prepare

LEMMA WaitStep == ASSUME Inv, Wait PROVE Inv'
<1>1. CASE call' = [call EXCEPT !.pc = "lookup"] /\ chain[Tx].state = "success" /\ Depth(Tx) >= confirmations
  <2>1. call' \in [pc : CallPcs, attempt : 0 .. maxRetries + 1]
    BY <1>1 DEF Inv, TypeOK, CallPcs
  <2>2. CallStands'
    BY <1>1, PipelineAssumption DEF Wait, Inv, TypeOK, CallStands, Tx, Depth
  <2>3. QED
    BY <2>1, <2>2, OnlyCallMoves DEF Wait
<1>2. ASSUME NEW retryable \in BOOLEAN, Catch(retryable) PROVE Inv'
  <2>1. CallStands'
    BY <1>2, CatchMoves, PipelineAssumption DEF Wait, Inv, TypeOK, CallStands, Tx, Depth
  <2>2. QED
    BY <1>2, <2>1, CatchMoves, OnlyCallMoves DEF Wait, Inv
<1>3. QED
  BY <1>1, <1>2 DEF Wait, Goto

LEMMA SubmitStep == ASSUME Inv, Submit PROVE Inv'
<1> USE PipelineAssumption
<1>1. Tx \in Hashes /\ chain[Tx].state = "unsent" /\ upd[Caller].pc = "idle"
  BY DEF Submit, Inv, TypeOK, CallStands, Hashes, Updaters
<1>2. ASSUME UNCHANGED chain, NEW retryable \in BOOLEAN, Catch(retryable) PROVE Inv'
  <2>1. CallStands'
    BY <1>1, <1>2, CatchMoves DEF Submit, Inv, TypeOK, CallStands, Tx, Depth
  <2>2. QED
    BY <1>2, <2>1, CatchMoves, OnlyCallMoves DEF Submit, Inv
<1>3. CASE /\ chain' = [chain EXCEPT ![Tx].state = "pooled"]
           /\ Goto("track") \/ Catch(TRUE)
  <2>1. ChainGrows
    BY <1>1, <1>3 DEF Submit, ChainGrows, Inv, TypeOK, BlocksBelowHead, States
  <2>2. /\ call' \in [pc : CallPcs, attempt : 0 .. maxRetries + 1]
        /\ call'.attempt = call.attempt
        /\ call'.pc \in {"track", "prepare", "thrown"}
        /\ call'.pc = "prepare" => call.attempt <= maxRetries
    <3>1. CASE Goto("track")
      BY <3>1 DEF Goto, Inv, TypeOK, CallPcs
    <3>2. CASE Catch(TRUE)
      BY <3>2, CatchMoves DEF Inv
    <3>3. QED
      BY <1>3, <3>1, <3>2
  <2>3. CallStands'
    BY <1>1, <1>3, <2>2 DEF Submit, Inv, TypeOK, CallStands, Tx, Depth, Hashes
  <2>4. TypeOK'
    BY <2>1, <2>2 DEF Submit, Inv, TypeOK, ChainGrows
  <2>5. QED
    BY <2>1, <2>3, <2>4, ChainKeepsHonesty DEF Submit, Inv
<1>4. QED
  BY <1>2, <1>3 DEF Submit

\* A transaction enters the table as a fresh row.
LEMMA TrackStep == ASSUME Inv, Track PROVE Inv'
<1> USE PipelineAssumption
<1>1. Tx \in Hashes /\ upd[Caller].pc = "idle"
  BY DEF Track, Inv, TypeOK, CallStands, Hashes, Updaters
<1>2. CASE Catch(FALSE) /\ UNCHANGED table
  <2>1. CallStands'
    BY <1>1, <1>2, CatchMoves DEF Track, Inv, TypeOK, CallStands, Tx, Depth
  <2>2. QED
    BY <1>2, <2>1, CatchMoves, OnlyCallMoves DEF Track, Inv
<1>3. CASE /\ table' = [table EXCEPT ![Tx] = IF @ = None THEN [status |-> "pending", retryCount |-> 0] ELSE @]
           /\ Goto("wait")
  <2>1. TypeOK'
    BY <1>1, <1>3 DEF Track, Goto, Inv, TypeOK, CallPcs, Row
  <2>2. Honesty'
    BY <1>1, <1>3 DEF Track, Inv, TypeOK, Honesty, Honest, Depth, Row
  <2>3. CallStands' /\ BlocksBelowHead'
    BY <1>1, <1>3 DEF Track, Goto, Inv, TypeOK, CallStands, BlocksBelowHead, Tx, Depth, Row
  <2>4. QED
    BY <2>1, <2>2, <2>3 DEF Inv
<1>4. QED
  BY <1>2, <1>3 DEF Track

\* An update begins on an honest copy of a row.
LEMMA UpdateBegins ==
  ASSUME Inv, NEW u \in Updaters, NEW h \in Hashes, NEW row \in Row, Honest(h, row),
         UNCHANGED <<chain, height, table, restarts>>,
         upd' = [upd EXCEPT ![u] = Update(h, row)],
         queue' \in [Rounds -> [Hashes -> Row \cup {None}]],
         \A m \in Rounds, g \in Hashes : queue'[m][g] \in {None, queue[m][g]},
         call' \in [pc : CallPcs, attempt : 0 .. maxRetries + 1]
  PROVE  TypeOK' /\ Honesty'
<1>1. Update(h, row) \in [pc : {"idle", "receipt", "block", "save"}, hash : Hashes \cup {None},
                          copy : Row \cup {None}, caught : BOOLEAN]
  BY DEF Update
<1>2. TypeOK'
  BY <1>1 DEF Inv, TypeOK, Update
<1>3. Honesty'
  BY DEF Inv, TypeOK, Honesty, Honest, Depth, Update
<1>4. QED
  BY <1>2, <1>3

LEMMA LookupStep == ASSUME Inv, Lookup PROVE Inv'
<1> USE PipelineAssumption
<1>1. /\ Tx \in Hashes /\ upd[Caller].pc = "idle" /\ Caller \in Updaters
      /\ table[Tx] \in Row
  BY DEF Lookup, Inv, TypeOK, CallStands, Updaters
<1>2. CASE Catch(FALSE) /\ UNCHANGED upd
  <2>1. CallStands'
    BY <1>1, <1>2, CatchMoves DEF Lookup, Inv, TypeOK, CallStands, Tx, Depth
  <2>2. QED
    BY <1>2, <2>1, CatchMoves, OnlyCallMoves DEF Lookup, Inv
<1>3. CASE Goto("updating") /\ upd' = [upd EXCEPT ![Caller] = Update(Tx, table[Tx])]
  <2>1. call' = [call EXCEPT !.pc = "updating"] /\ UNCHANGED <<chain, height, table, queue, restarts>>
    BY <1>3 DEF Goto, Lookup
  <2>2. CallStands' /\ BlocksBelowHead'
    BY <1>1, <1>3, <2>1 DEF Lookup, Inv, TypeOK, CallStands, BlocksBelowHead, Tx, Depth, Update
  <2>3. call' \in [pc : CallPcs, attempt : 0 .. maxRetries + 1]
    BY <2>1 DEF Inv, TypeOK, CallPcs
  <2>4. Honest(Tx, table[Tx])
    BY <1>1 DEF Inv, Honesty
  <2>5. /\ queue' \in [Rounds -> [Hashes -> Row \cup {None}]]
        /\ \A m \in Rounds, g \in Hashes : queue'[m][g] \in {None, queue[m][g]}
    BY <2>1 DEF Inv, TypeOK
  <2>6. TypeOK' /\ Honesty'
    BY <1>1, <1>3, <2>1, <2>3, <2>4, <2>5, UpdateBegins DEF Lookup
  <2>7. QED
    BY <2>2, <2>6 DEF Inv
<1>4. QED
  BY <1>2, <1>3 DEF Lookup

\* One updater's copy changes, or its update ends.
LEMMA UpdaterMoves ==
  ASSUME Inv, NEW u \in Updaters, NEW c,
         UNCHANGED <<chain, height, table, call, queue, restarts>>,
         upd' = [upd EXCEPT ![u] = c], upd[u].pc # "idle",
         c \in [pc : {"receipt", "block", "save"}, hash : Hashes, copy : Row, caught : BOOLEAN],
         c.hash = upd[u].hash, Honest(c.hash, c.copy),
         c.pc = "block" => chain[c.hash].state \in {"success", "reverted"}
  PROVE  Inv'
<1>1. TypeOK'
  BY DEF Inv, TypeOK
<1>2. Honesty'
  BY DEF Inv, TypeOK, Honesty, Honest, Depth
<1>3. CallStands' /\ BlocksBelowHead'
  BY PipelineAssumption DEF Inv, TypeOK, CallStands, BlocksBelowHead, Tx, Depth, Updaters
<1>4. QED
  BY <1>1, <1>2, <1>3 DEF Inv

\* An update in progress holds a honest copy of a row.
LEMMA Holding ==
  ASSUME Inv, NEW u \in Updaters, upd[u].pc # "idle"
  PROVE  /\ upd[u].hash \in Hashes /\ upd[u].copy \in Row
         /\ Honest(upd[u].hash, upd[u].copy)
         /\ upd[u].pc = "block" => chain[upd[u].hash].state \in {"success", "reverted"}
         /\ u = Caller \/ u \in Rounds
  BY DEF Inv, TypeOK, Honesty, Updaters

LEMMA CatchUpdateStep ==
  ASSUME Inv, NEW u \in Updaters, upd[u].pc # "idle", CatchUpdate(u),
         UNCHANGED <<chain, height, table, call, queue, restarts>>
  PROVE  Inv'
<1> DEFINE c == [upd[u] EXCEPT !.pc = "save", !.copy = Missed(@), !.caught = TRUE]
<1>1. upd[u] \in [pc : {"receipt", "block", "save"}, hash : Hashes, copy : Row, caught : BOOLEAN]
  BY DEF Inv, TypeOK
<1>2. Missed(upd[u].copy) \in Row /\ Honest(upd[u].hash, Missed(upd[u].copy))
  BY Holding, MissedRow
<1>3. /\ c \in [pc : {"receipt", "block", "save"}, hash : Hashes, copy : Row, caught : BOOLEAN]
      /\ c.hash = upd[u].hash /\ c.copy = Missed(upd[u].copy) /\ c.pc = "save"
  BY <1>1, <1>2
<1>4. upd' = [upd EXCEPT ![u] = c]
  BY <1>1 DEF CatchUpdate, Inv, TypeOK
<1> HIDE DEF c
<1>5. QED
  BY <1>2, <1>3, <1>4, UpdaterMoves

LEMMA FetchReceiptStep == ASSUME Inv, NEW u \in Updaters, FetchReceipt(u) PROVE Inv'
<1>1. upd[u] \in [pc : {"receipt", "block", "save"}, hash : Hashes, copy : Row, caught : BOOLEAN]
  BY DEF FetchReceipt, Inv, TypeOK
<1>2. CASE /\ chain[upd[u].hash].state \in {"success", "reverted"}
           /\ upd' = [upd EXCEPT ![u].pc = "block"]
  <2> DEFINE c == [upd[u] EXCEPT !.pc = "block"]
  <2>1. /\ c \in [pc : {"receipt", "block", "save"}, hash : Hashes, copy : Row, caught : BOOLEAN]
        /\ c.hash = upd[u].hash /\ c.copy = upd[u].copy
    BY <1>1
  <2>2. upd' = [upd EXCEPT ![u] = c]
    BY <1>1, <1>2 DEF Inv, TypeOK
  <2> HIDE DEF c
  <2>3. QED
    BY <1>2, <2>1, <2>2, UpdaterMoves, Holding DEF FetchReceipt
<1>3. CASE upd' = [upd EXCEPT ![u].pc = "save", ![u].copy = Missed(@)]
  <2> DEFINE c == [upd[u] EXCEPT !.pc = "save", !.copy = Missed(@)]
  <2>1. Missed(upd[u].copy) \in Row /\ Honest(upd[u].hash, Missed(upd[u].copy))
    BY Holding, MissedRow DEF FetchReceipt
  <2>2. /\ c \in [pc : {"receipt", "block", "save"}, hash : Hashes, copy : Row, caught : BOOLEAN]
        /\ c.hash = upd[u].hash /\ c.copy = Missed(upd[u].copy) /\ c.pc = "save"
    BY <1>1, <2>1
  <2>3. upd' = [upd EXCEPT ![u] = c]
    BY <1>1, <1>3 DEF Inv, TypeOK
  <2> HIDE DEF c
  <2>4. QED
    BY <2>1, <2>2, <2>3, UpdaterMoves DEF FetchReceipt
<1>4. CASE CatchUpdate(u)
  BY <1>4, CatchUpdateStep DEF FetchReceipt
<1>5. QED
  BY <1>2, <1>3, <1>4 DEF FetchReceipt

LEMMA FetchBlockStep == ASSUME Inv, NEW u \in Updaters, FetchBlock(u) PROVE Inv'
<1>1. upd[u] \in [pc : {"receipt", "block", "save"}, hash : Hashes, copy : Row, caught : BOOLEAN]
  BY DEF FetchBlock, Inv, TypeOK
<1>2. CASE upd' = [upd EXCEPT ![u].pc = "save", ![u].copy.status = Verdict(upd[u].hash)]
  <2> DEFINE row == [upd[u].copy EXCEPT !.status = Verdict(upd[u].hash)]
             c == [upd[u] EXCEPT !.pc = "save", !.copy = row]
  <2>1. row \in Row /\ Honest(upd[u].hash, row)
    BY Holding, HonestVerdict DEF FetchBlock, Inv
  <2>2. /\ c \in [pc : {"receipt", "block", "save"}, hash : Hashes, copy : Row, caught : BOOLEAN]
        /\ c.hash = upd[u].hash /\ c.copy = row /\ c.pc = "save"
    BY <1>1, <2>1
  <2>3. upd' = [upd EXCEPT ![u] = c]
    BY <1>1, <1>2 DEF Inv, TypeOK
  <2> HIDE DEF c, row
  <2>4. QED
    BY <2>1, <2>2, <2>3, UpdaterMoves DEF FetchBlock
<1>3. CASE CatchUpdate(u)
  BY <1>3, CatchUpdateStep DEF FetchBlock
<1>4. QED
  BY <1>2, <1>3 DEF FetchBlock

\* An update ends: what is left of it in memory says nothing.
LEMMA UpdateEnds ==
  ASSUME Inv, NEW u \in Updaters, UNCHANGED <<chain, height, restarts>>,
         upd' = [upd EXCEPT ![u] = NoUpdate],
         table' \in [Hashes -> Row \cup {None}],
         \A h \in Hashes : Honest(h, table'[h]),
         queue' \in [Rounds -> [Hashes -> Row \cup {None}]],
         \A m \in Rounds, h \in Hashes : queue'[m][h] \in {None, queue[m][h]},
         call' \in [pc : CallPcs, attempt : 0 .. maxRetries + 1]
  PROVE  TypeOK' /\ Honesty' /\ BlocksBelowHead'
<1>1. TypeOK'
  BY DEF Inv, TypeOK, NoUpdate
<1>2. Honesty'
  BY DEF Inv, TypeOK, Honesty, Honest, Depth, NoUpdate
<1>3. QED
  BY <1>1, <1>2 DEF Inv, BlocksBelowHead

LEMMA SavedStep == ASSUME Inv, NEW u \in Updaters, Saved(u) PROVE Inv'
<1> USE PipelineAssumption
<1>h. /\ upd[u].hash \in Hashes /\ upd[u].copy \in Row
      /\ Honest(upd[u].hash, upd[u].copy)
      /\ u = Caller \/ u \in Rounds
  BY Holding DEF Saved
<1>u. u = Caller => call.pc = "updating" /\ upd[u].hash = Tx
  BY DEF Saved, Inv, CallStands
<1>1. /\ table' \in [Hashes -> Row \cup {None}]
      /\ \A h \in Hashes : Honest(h, table'[h])
      /\ \A h \in Hashes : table[h] # None => table'[h] # None
  BY <1>h DEF Saved, Inv, TypeOK, Honesty
<1>2. call' \in [pc : CallPcs, attempt : 0 .. maxRetries + 1]
  BY DEF Saved, Inv, TypeOK, CallPcs, Goto
<1>3. CallStands'
  BY <1>h, <1>u, <1>1 DEF Saved, Goto, Inv, TypeOK, CallStands, NoUpdate, Tx, Depth, Updaters
<1>4. /\ queue' \in [Rounds -> [Hashes -> Row \cup {None}]]
      /\ \A m \in Rounds, h \in Hashes : queue'[m][h] \in {None, queue[m][h]}
  BY DEF Saved, Inv, TypeOK
<1>5. TypeOK' /\ Honesty' /\ BlocksBelowHead'
  BY <1>1, <1>2, <1>4, UpdateEnds DEF Saved
<1>6. QED
  BY <1>3, <1>5 DEF Inv

LEMMA SaveFailedStep == ASSUME Inv, NEW u \in Updaters, SaveFailed(u) PROVE Inv'
<1> USE PipelineAssumption
<1>h. /\ upd[u].hash \in Hashes /\ upd[u].copy \in Row
      /\ Honest(upd[u].hash, upd[u].copy)
      /\ u = Caller \/ u \in Rounds
  BY Holding DEF SaveFailed
<1>u. u = Caller => call.pc = "updating" /\ upd[u].hash = Tx
  BY DEF SaveFailed, Inv, CallStands
<1>1. CASE ~upd[u].caught
  BY <1>1, CatchUpdateStep DEF SaveFailed
<1>2. CASE /\ upd' = [upd EXCEPT ![u] = NoUpdate]
           /\ IF u = Caller THEN Catch(FALSE) /\ UNCHANGED queue
              ELSE queue' = [queue EXCEPT ![u] = [h \in Hashes |-> None]] /\ UNCHANGED call
           /\ UNCHANGED <<chain, height, table, restarts>>
  <2>1. call' \in [pc : CallPcs, attempt : 0 .. maxRetries + 1]
    BY <1>2, CatchMoves DEF Inv, TypeOK
  <2>2. CallStands'
    BY <1>2, <1>h, <1>u, CatchMoves DEF Inv, TypeOK, CallStands, NoUpdate, Tx, Depth, Updaters
  <2>3. /\ queue' \in [Rounds -> [Hashes -> Row \cup {None}]]
        /\ \A m \in Rounds, h \in Hashes : queue'[m][h] \in {None, queue[m][h]}
    <3>1. CASE u = Caller
      BY <1>2, <3>1 DEF Inv, TypeOK
    <3>2. CASE u # Caller
      <4>1. u \in Rounds /\ queue' = [queue EXCEPT ![u] = [h \in Hashes |-> None]]
        BY <1>2, <1>h, <3>2
      <4>2. [h \in Hashes |-> None] \in [Hashes -> Row \cup {None}]
        OBVIOUS
      <4>3. queue' \in [Rounds -> [Hashes -> Row \cup {None}]]
        BY <4>1, <4>2 DEF Inv, TypeOK
      <4>4. \A m \in Rounds, h \in Hashes : queue'[m][h] \in {None, queue[m][h]}
        BY <4>1 DEF Inv, TypeOK
      <4>5. QED
        BY <4>3, <4>4
    <3>3. QED
      BY <3>1, <3>2
  <2>4. table' \in [Hashes -> Row \cup {None}] /\ \A h \in Hashes : Honest(h, table'[h])
    BY <1>2 DEF Inv, TypeOK, Honesty
  <2>5. TypeOK' /\ Honesty' /\ BlocksBelowHead'
    BY <1>2, <2>1, <2>3, <2>4, UpdateEnds
  <2>6. QED
    BY <2>2, <2>5 DEF Inv
<1>3. QED
  BY <1>1, <1>2 DEF SaveFailed

LEMMA StartRoundStep == ASSUME Inv, NEW m \in Rounds, StartRound(m) PROVE Inv'
<1>1. TypeOK'
  BY DEF StartRound, Inv, TypeOK
<1>2. Honesty'
  BY DEF StartRound, Inv, TypeOK, Honesty, Honest, Depth
<1>3. CallStands' /\ BlocksBelowHead'
  BY DEF StartRound, Inv, CallStands, BlocksBelowHead, Tx, Depth
<1>4. QED
  BY <1>1, <1>2, <1>3 DEF Inv

LEMMA NextRowStep == ASSUME Inv, NEW m \in Rounds, NextRow(m) PROVE Inv'
<1>1. PICK h \in Hashes :
         /\ queue[m][h] # None
         /\ upd' = [upd EXCEPT ![m] = Update(h, queue[m][h])]
         /\ queue' = [queue EXCEPT ![m][h] = None]
  BY DEF NextRow
<1>2. m \in Updaters /\ queue[m][h] \in Row /\ Honest(h, queue[m][h])
  BY <1>1 DEF Inv, TypeOK, Honesty, Updaters
<1>3. /\ queue' \in [Rounds -> [Hashes -> Row \cup {None}]]
      /\ \A n \in Rounds, g \in Hashes : queue'[n][g] \in {None, queue[n][g]}
  BY <1>1 DEF Inv, TypeOK
<1>4. call' \in [pc : CallPcs, attempt : 0 .. maxRetries + 1]
  BY DEF NextRow, Inv, TypeOK
<1>5. TypeOK' /\ Honesty'
  BY <1>1, <1>2, <1>3, <1>4, UpdateBegins DEF NextRow
<1>6. CallStands' /\ BlocksBelowHead'
  BY <1>1, PipelineAssumption DEF NextRow, Inv, TypeOK, CallStands, BlocksBelowHead, Tx, Depth, Updaters
<1>7. QED
  BY <1>5, <1>6 DEF Inv

LEMMA RestartStep == ASSUME Inv, Restart PROVE Inv'
<1>1. TypeOK'
  BY DEF Restart, Inv, TypeOK, NoUpdate, CallPcs
<1>2. Honesty'
  BY DEF Restart, Inv, TypeOK, Honesty, Honest, Depth, NoUpdate
<1>3. CallStands' /\ BlocksBelowHead'
  BY PipelineAssumption DEF Restart, Inv, TypeOK, CallStands, BlocksBelowHead, Tx, Depth, NoUpdate, Updaters
<1>4. QED
  BY <1>1, <1>2, <1>3 DEF Inv

LEMMA NextInv == Inv /\ [Next]_vars => Inv'
<1> SUFFICES ASSUME Inv, [Next]_vars PROVE Inv'
  OBVIOUS
<1>1. CASE Calling
  BY <1>1, SimulateStep, PrepareStep, SubmitStep, TrackStep, WaitStep, LookupStep DEF Calling
<1>2. ASSUME NEW u \in Updaters, Updating(u) PROVE Inv'
  BY <1>2, FetchReceiptStep, FetchBlockStep, SavedStep, SaveFailedStep DEF Updating
<1>3. ASSUME NEW m \in Rounds, Polling(m) PROVE Inv'
  BY <1>3, StartRoundStep, NextRowStep DEF Polling
<1>4. ASSUME NEW h \in Hashes, Mine(h) \/ Drop(h) PROVE Inv'
  BY <1>4, MineStep
<1>5. CASE NewBlock
  <2>1. PICK h \in Hashes : TRUE
    BY PipelineAssumption DEF Hashes
  <2>2. QED
    BY <1>5, <2>1, MineStep
<1>6. CASE Restart
  BY <1>6, RestartStep
<1>7. CASE UNCHANGED vars
  BY <1>7 DEF vars, Inv, TypeOK, BlocksBelowHead, Honesty, Honest, CallStands, Tx, Depth
<1>8. QED
  BY <1>1, <1>2, <1>3, <1>4, <1>5, <1>6, <1>7 DEF Next

\* Chain, table and copies keep their types; attempts stay within the retries.
THEOREM TypeCorrect == Spec => []TypeOK
<1>1. Inv => TypeOK
  BY DEF Inv
<1>2. QED
  BY InitInv, NextInv, <1>1, PTL DEF Spec

\* No overlap of rounds, errors and restarts confirms a transaction that is not
\* a successful one at full depth.
THEOREM ConfirmedRowsAreDeep == Spec => []ConfirmedIsDeep
<1>1. Inv => ConfirmedIsDeep
  BY DEF Inv, Honesty, Honest, ConfirmedIsDeep
<1>2. QED
  BY InitInv, NextInv, <1>1, PTL DEF Spec

\* A row fails only for a reverted transaction or after its checks ran out.
THEOREM FailedRowsHaveCause == Spec => []FailedHasCause
<1>1. Inv => FailedHasCause
  BY DEF Inv, Honesty, Honest, FailedHasCause
<1>2. QED
  BY InitInv, NextInv, <1>1, PTL DEF Spec

\* A call that returns a receipt has a tracked, successful transaction.
THEOREM ReturnedReceiptsAreMined == Spec => []ReturnedIsMined
<1>1. Inv => ReturnedIsMined
  BY DEF Inv, CallStands, ReturnedIsMined
<1>2. QED
  BY InitInv, NextInv, <1>1, PTL DEF Spec


\* While no answer is lost, the attempts before the current one cannot take
\* effect any more; at "prepare" neither can the current one.
AttemptsDead ==
    faults \cap AnswerFaults = {} =>
        \A h \in Hashes : h < Tx \/ (h = Tx /\ call.pc = "prepare") =>
            chain[h].state \notin {"pooled", "success"}

\* A step of the node cannot revive what is not in the pool.
LEMMA NodeKeepsDead ==
  ASSUME Inv, AttemptsDead, UNCHANGED faults,
         NEW h \in Hashes, Mine(h) \/ Drop(h) \/ NewBlock
  PROVE  AttemptsDead'
<1> USE DEF AttemptsDead, Tx, Inv, TypeOK
<1>1. CASE Mine(h)
  BY <1>1 DEF Mine
<1>2. CASE Drop(h)
  BY <1>2 DEF Drop
<1>3. CASE NewBlock
  BY <1>3 DEF NewBlock
<1>4. QED
  BY <1>1, <1>2, <1>3

\* The call goes back to "prepare" only over a dead attempt.
LEMMA CallKeepsDead ==
  ASSUME Inv, AttemptsDead, UNCHANGED faults, Calling
  PROVE  AttemptsDead'
<1> USE PipelineAssumption DEF AttemptsDead, Tx, Inv, TypeOK, Hashes
<1>1. CASE Simulate
  BY <1>1 DEF Simulate, Goto, CallStands
<1>2. CASE Prepare
  BY <1>2 DEF Prepare, CallStands
<1>3. CASE Submit
  <2>1. Tx \in Hashes /\ chain[Tx].state = "unsent"
    BY <1>3 DEF Submit, CallStands
  <2>2. CASE chain' = [chain EXCEPT ![Tx].state = "pooled"] /\ Goto("track")
    BY <2>1, <2>2 DEF Goto
  <2>3. CASE UNCHANGED chain /\ \E retryable \in BOOLEAN : Catch(retryable)
    BY <2>1, <2>3 DEF Catch, Goto
  <2>4. CASE "lost" \in faults
    BY <2>4 DEF AnswerFaults
  <2>5. QED
    BY <1>3, <2>2, <2>3, <2>4 DEF Submit
<1>4. CASE Track
  BY <1>4 DEF Track, Catch, Goto
<1>5. CASE Wait
  <2>1. CASE "wait" \in faults
    BY <2>1 DEF AnswerFaults
  <2>2. CASE chain[Tx].state = "dropped" /\ \E retryable \in BOOLEAN : Catch(retryable)
    BY <1>5, <2>2 DEF Wait, Catch, Goto
  <2>3. CASE Goto("lookup") \/ Catch(FALSE)
    BY <1>5, <2>3 DEF Wait, Catch, Goto
  <2>4. QED
    BY <1>5, <2>1, <2>2, <2>3 DEF Wait
<1>6. CASE Lookup
  BY <1>6 DEF Lookup, Catch, Goto
<1>7. QED
  BY <1>1, <1>2, <1>3, <1>4, <1>5, <1>6 DEF Calling

LEMMA NextKeepsDead == Inv /\ AttemptsDead /\ [Next]_vars => AttemptsDead'
<1> SUFFICES ASSUME Inv, AttemptsDead, [Next]_vars PROVE AttemptsDead'
  OBVIOUS
<1> USE DEF AttemptsDead, Tx
<1>1. CASE UNCHANGED vars
  BY <1>1 DEF vars
<1> SUFFICES ASSUME Next PROVE AttemptsDead'
  BY <1>1
<1>0. UNCHANGED faults
  BY DEF Next
<1>2. CASE Calling
  BY <1>0, <1>2, CallKeepsDead
<1>3. ASSUME NEW u \in Updaters, Updating(u) PROVE AttemptsDead'
  <2>1. call' = call \/ call' = [call EXCEPT !.pc = "returned"] \/ call' = [call EXCEPT !.pc = "thrown"]
    BY <1>3 DEF Updating, FetchReceipt, FetchBlock, Saved, SaveFailed, Catch, Goto
  <2>2. call'.attempt = call.attempt /\ (call'.pc = "prepare" => call.pc = "prepare")
    BY <2>1 DEF Inv, TypeOK
  <2>3. UNCHANGED chain
    BY <1>3 DEF Updating, FetchReceipt, FetchBlock, Saved, SaveFailed, CatchUpdate
  <2>4. QED
    BY <1>0, <2>2, <2>3
<1>4. ASSUME NEW m \in Rounds, Polling(m) PROVE AttemptsDead'
  BY <1>0, <1>4 DEF Polling, StartRound, NextRow
<1>5. ASSUME NEW h \in Hashes, Mine(h) \/ Drop(h) PROVE AttemptsDead'
  BY <1>0, <1>5, NodeKeepsDead
<1>6. CASE NewBlock
  BY <1>0, <1>6 DEF NewBlock
<1>7. CASE Restart
  BY <1>0, <1>7 DEF Restart, Inv, TypeOK
<1>8. QED
  BY <1>2, <1>3, <1>4, <1>5, <1>6, <1>7 DEF Next

\* However often a call is retried, at most one of its transactions is in the
\* pool or has succeeded, unless an answer of the node was lost.
THEOREM RetriesTakeEffectOnce == Spec => []OneEffect
<1>1. Init => AttemptsDead
  BY PipelineAssumption DEF Init, AttemptsDead, Tx, Hashes
<1>2. Inv /\ AttemptsDead => OneEffect
  <2> SUFFICES ASSUME Inv, AttemptsDead, faults \cap AnswerFaults = {}
               PROVE  Cardinality({h \in Hashes : chain[h].state \in {"pooled", "success"}}) <= 1
    BY DEF OneEffect
  <2> DEFINE live == {h \in Hashes : chain[h].state \in {"pooled", "success"}}
  <2>1. ASSUME NEW h \in live PROVE h = Tx
    BY PipelineAssumption DEF Inv, TypeOK, CallStands, AttemptsDead, Tx, Hashes
  <2>2. live \in SUBSET {Tx}
    BY <2>1
  <2>3. Cardinality(live) <= Cardinality({Tx}) /\ Cardinality({Tx}) = 1
    BY <2>2, FS_Singleton, FS_Subset
  <2>4. QED
    BY <2>3
<1>3. QED
  BY InitInv, NextInv, NextKeepsDead, <1>1, <1>2, PTL DEF Spec

-----------------------------------------------------------------------------
\* The circuit breaker, for any thresholds and any number of overlapping calls: with its
\* types, what its counters say of the state it is in.
CircuitInv == CircuitTypeOK /\ CountersMatchState

\* The type invariant and the reading of the counters hold initially.
LEMMA CircuitInitInv == CircuitInit => CircuitInv
<1> SUFFICES ASSUME CircuitInit PROVE CircuitInv
  OBVIOUS
<1>1. CircuitTypeOK
  <2>1. healthy \in BOOLEAN
    BY DEF CircuitInit
  <2>2. QED
    BY <2>1, BreakerAssumption DEF CircuitInit, CircuitTypeOK
<1>2. CountersMatchState
  BY BreakerAssumption DEF CircuitInit, CountersMatchState
<1>3. QED
  BY <1>1, <1>2 DEF CircuitInv

\* Every step of a call, of the operator and of the clock preserves them: a
\* result that arrives late moves counters and state together.
LEMMA CircuitNextInv == CircuitInv /\ [CircuitNext]_circuitVars => CircuitInv'
<1> SUFFICES ASSUME CircuitInv, [CircuitNext]_circuitVars PROVE CircuitInv'
  OBVIOUS
<1> USE BreakerAssumption DEF CircuitInv, CircuitTypeOK, CountersMatchState, circuit
<1>1. ASSUME NEW c \in Calls, Start(c) PROVE CircuitInv'
  <2>1. CASE state # "OPEN" /\ UNCHANGED circuit
    BY <1>1, <2>1 DEF Start, Begin
  <2>2. CASE state = "OPEN" /\ HalfOpen
    BY <1>1, <2>2 DEF Start, Begin, HalfOpen
  <2>3. QED
    BY <1>1, <2>1, <2>2 DEF Start
<1>2. ASSUME NEW c \in Calls, Succeed(c) PROVE CircuitInv'
  <2>1. CASE state = "HALF_OPEN" /\ Close
    BY <1>2, <2>1 DEF Succeed, Close
  <2>2. CASE state = "HALF_OPEN" /\ successes + 1 < successThreshold /\ successes' = successes + 1
             /\ UNCHANGED <<state, failures>>
    BY <1>2, <2>2 DEF Succeed
  <2>3. CASE state = "CLOSED" /\ failures' = 0 /\ UNCHANGED <<state, successes>>
    BY <1>2, <2>3 DEF Succeed
  <2>4. CASE state = "OPEN" /\ UNCHANGED circuit
    BY <1>2, <2>4 DEF Succeed
  <2>5. QED
    BY <1>2, <2>1, <2>2, <2>3, <2>4 DEF Succeed
<1>3. ASSUME NEW c \in Calls, Fail(c) PROVE CircuitInv'
  BY <1>3 DEF Fail
<1>4. CASE resetCircuit
  BY <1>4 DEF resetCircuit, Close
<1>5. CASE Tick
  BY <1>5 DEF Tick
<1>6. CASE Heal
  BY <1>6 DEF Heal
<1>7. CASE UNCHANGED circuitVars
  BY <1>7 DEF circuitVars
<1>8. QED
  BY <1>1, <1>2, <1>3, <1>4, <1>5, <1>6, <1>7 DEF CircuitNext

\* The circuit is closed exactly while its failures are below the threshold,
\* and a half-open one still lacks a trial success.
THEOREM CountersDetermineState == CircuitSpec => []CountersMatchState
<1>1. CircuitInv => CountersMatchState
  BY DEF CircuitInv
<1>2. QED
  BY CircuitInitInv, CircuitNextInv, <1>1, PTL DEF CircuitSpec

\* A step of the breaker is a step, or a stutter, of the fixed breaker.
LEMMA CircuitSimulation == CircuitInv /\ [CircuitNext]_circuitVars => [Fixed!Next]_(Fixed!vars)
<1> SUFFICES ASSUME CircuitInv, [CircuitNext]_circuitVars PROVE [Fixed!Next]_(Fixed!vars)
  OBVIOUS
<1> USE BreakerAssumption DEF CircuitInv, CircuitTypeOK, CountersMatchState, circuit, Fixed!circuit
<1>1. ASSUME NEW c \in Calls, Start(c) PROVE Fixed!Start(c)
  <2>1. CASE state # "OPEN" /\ UNCHANGED circuit
    BY <1>1, <2>1 DEF Start, Begin, Fixed!Start, Fixed!Begin
  <2>2. CASE state = "OPEN" /\ elapsed >= resetTimeout /\ HalfOpen
    BY <1>1, <2>2 DEF Start, Begin, HalfOpen, Fixed!Start, Fixed!Begin
  <2>3. QED
    BY <1>1, <2>1, <2>2 DEF Start
<1>2. ASSUME NEW c \in Calls, Succeed(c) PROVE Fixed!handleSuccess(c)
  BY <1>2 DEF Succeed, Close, Fixed!handleSuccess
<1>3. ASSUME NEW c \in Calls, Fail(c) PROVE Fixed!handleFailure(c)
  BY <1>3 DEF Fail, Fixed!handleFailure, Fixed!Opens
<1>4. CASE resetCircuit
  BY <1>4 DEF resetCircuit, Close, Fixed!resetCircuit, Fixed!Next
<1>5. CASE Tick
  BY <1>5 DEF Tick, Fixed!Tick, Fixed!Next
<1>6. CASE Heal
  BY <1>6 DEF Heal, Fixed!Heal, Fixed!Next
<1>7. CASE UNCHANGED circuitVars
  BY <1>7 DEF circuitVars, Fixed!vars
<1>8. QED
  BY <1>1, <1>2, <1>3, <1>4, <1>5, <1>6, <1>7 DEF CircuitNext, Fixed!Next

\* The breaker in use implements the breaker of the fixed file.
THEOREM ImplementsFixed == CircuitSpec => RefinesFixed
<1>1. CircuitInit => Fixed!Init
  BY DEF CircuitInit, Fixed!Init
<1>2. QED
  BY CircuitInitInv, CircuitNextInv, CircuitSimulation, <1>1, PTL DEF CircuitSpec, RefinesFixed, Fixed!Spec
=============================================================================
