----------------------- MODULE ProposalServiceProofs -----------------------
(***************************************************************************)
(* What the backend's governance gets right, for any number of requests,   *)
(* wallets and actions.  While `serial' holds only one request is in       *)
(* progress, so what it read is still what the proposals table says when   *)
(* it decides; IInv follows that copy through the request.  RowsSound says *)
(* what survives however requests race, and VotesCounted what the tallies  *)
(* are when they do not.                                                   *)
(***************************************************************************)
EXTENDS ProposalService, Sums

Pcs == {"idle", "readCache", "find", "fill", "got", "findVote", "insert", "process",
        "act", "save", "del", "readList", "findList", "fillList"}
Request == [pc : Pcs, op : Operations \cup {"vote", None}, round : {0, 1, 2},
            copy : Row \cup {None}, cached : BOOLEAN, wallet : Wallets \cup {None},
            side : Sides \cup {None}, todo : Nat]

\* What is left of the row is still to be read, and what is done to it.
Unchanged == {"fill", "got", "findVote", "insert", "act"}
Holding == Unchanged \cup {"save", "del"}

\* A request past its read holds a copy, a vote has a wallet and a side.
RequestOK(q) ==
    /\ q \in Request
    /\ q.pc \in Holding => q.copy \in Row
    /\ q.pc # "idle" /\ q.op = "vote" => q.wallet \in Wallets /\ q.side \in Sides
    /\ q.pc \in {"findVote", "insert"} => q.op = "vote"

\* Type invariant of the row, its copies and the requests.
TypeOK ==
    /\ db \in Row \cup {None} /\ cache \in Row \cup {None}
    /\ votes \in [Wallets -> [Sides -> Nat]]
    /\ req \in [Requests -> Request] /\ \A r \in Requests : RequestOK(req[r])
    /\ applied \in Nat /\ now \in Nat /\ serial \in BOOLEAN

\* Requests that came one at a time do not overlap.
OneAtATime ==
    serial => \A r, q \in Requests : ~At(r, "idle") /\ ~At(q, "idle") => r = q

\* Until the request drops the key, Redis holds the row or nothing.
CacheFollows ==
    serial /\ (\A r \in Requests : ~At(r, "del")) => cache \in {None, db}

\* What a request has read and not yet changed is the row.
CopyIsRow ==
    serial => \A r \in Requests : req[r].pc \in Unchanged => db # None /\ req[r].copy = db

\* What a status says of the number n of actions that ran.
Tells(status, n) ==
    /\ status = "executed" => n = NumActions
    /\ status = "rejected" => n < NumActions
    /\ status \in {"active", "passed", "cancelled"} => n = 0

\* The row accounts for the actions, or the request in progress will.
ActionsCounted ==
    serial =>
        /\ \A r \in Requests : At(r, "act") => req[r].todo > 0 /\ applied + req[r].todo = NumActions
        /\ \A r \in Requests : At(r, "save") => Tells(req[r].copy.status, applied)
        /\ db = None => applied = 0
        /\ db # None /\ (\A r \in Requests : ~At(r, "act") /\ ~At(r, "save")) =>
              Tells(db.status, applied)

IInv == TypeOK /\ OneAtATime /\ CacheFollows /\ CopyIsRow /\ ActionsCounted

LEMMA InitIInv == Init => IInv
<1> SUFFICES ASSUME Init PROVE IInv
  OBVIOUS
<1> USE ProposalAssumption DEF Init
<1>1. RequestOK(Idle)
  BY DEF RequestOK, Request, Idle, Pcs, Holding, Unchanged
<1>2. TypeOK
  BY <1>1 DEF TypeOK, RequestOK
<1>3. OneAtATime /\ CacheFollows /\ CopyIsRow /\ ActionsCounted
  BY DEF OneAtATime, CacheFollows, CopyIsRow, ActionsCounted, At, Idle, Unchanged
<1>4. QED
  BY <1>2, <1>3 DEF IInv

\* What the invariant says of the only request in progress.
Alone(q, d, c, n) ==
    /\ q.pc \in Unchanged => d # None /\ q.copy = d
    /\ q.pc # "del" => c \in {None, d}
    /\ q.pc = "act" => q.todo > 0 /\ n + q.todo = NumActions
    /\ q.pc = "save" => Tells(q.copy.status, n)
    /\ d = None => n = 0
    /\ d # None /\ q.pc \notin {"act", "save"} => Tells(d.status, n)

LEMMA AloneNow ==
  ASSUME IInv, serial, NEW r \in Requests, ~At(r, "idle")
  PROVE  Alone(req[r], db, cache, applied)
<1>1. \A q \in Requests : q # r => At(q, "idle")
  BY DEF IInv, OneAtATime
<1>2. At(r, "del") \/ cache \in {None, db}
  BY <1>1 DEF IInv, CacheFollows, At
<1>3. At(r, "act") \/ At(r, "save") \/ db = None \/ Tells(db.status, applied)
  BY <1>1 DEF IInv, ActionsCounted, At
<1>4. QED
  BY <1>2, <1>3 DEF IInv, CopyIsRow, ActionsCounted, Alone, At

\* A step that sets a request keeps the invariant if it leaves the request
\* well-formed and, while requests come one at a time, alone and as Alone says.
LEMMA SoleRequestStep ==
  ASSUME IInv, NEW r \in Requests, NEW q, RequestOK(q),
         req' = [req EXCEPT ![r] = q],
         db' \in Row \cup {None}, cache' \in Row \cup {None},
         votes' \in [Wallets -> [Sides -> Nat]], applied' \in Nat, now' = now,
         serial' \in BOOLEAN, serial' => serial,
         serial' => \A p \in Requests : p # r => At(p, "idle"),
         serial' => Alone(q, db', cache', applied')
  PROVE  IInv'
<1>1. req \in [Requests -> Request] /\ q \in Request
  BY DEF IInv, TypeOK, RequestOK
<1>2. req'[r] = q /\ \A p \in Requests : p # r => req'[p] = req[p]
  BY <1>1
<1>3. TypeOK'
  <2>1. req' \in [Requests -> Request]
    BY <1>1
  <2>2. \A p \in Requests : RequestOK(req'[p])
    BY <1>2 DEF IInv, TypeOK
  <2>3. now' \in Nat
    BY DEF IInv, TypeOK
  <2>4. QED
    BY <2>1, <2>2, <2>3 DEF TypeOK, RequestOK
<1>4. ASSUME serial' PROVE \A p \in Requests : p # r => req'[p].pc = "idle"
  BY <1>2, <1>4 DEF At
<1>5. OneAtATime'
  BY <1>4 DEF OneAtATime, At
<1>6. CacheFollows'
  BY <1>2 DEF CacheFollows, Alone, At
<1>7. CopyIsRow'
  BY <1>2, <1>4 DEF CopyIsRow, Alone, Unchanged
<1>8. ActionsCounted'
  BY <1>2, <1>4 DEF ActionsCounted, Alone, At
<1>9. QED
  BY <1>3, <1>5, <1>6, <1>7, <1>8 DEF IInv

\* The same for a step of a request in progress.
LEMMA RequestStep ==
  ASSUME IInv, NEW r \in Requests, ~At(r, "idle"), NEW q, RequestOK(q),
         req' = [req EXCEPT ![r] = q],
         db' \in Row \cup {None}, cache' \in Row \cup {None},
         votes' \in [Wallets -> [Sides -> Nat]], applied' \in Nat, now' = now,
         serial' \in BOOLEAN, serial' => serial,
         serial' => Alone(q, db', cache', applied')
  PROVE  IInv'
<1>1. serial' => \A p \in Requests : p # r => At(p, "idle")
  BY DEF IInv, OneAtATime
<1>2. QED
  BY <1>1, SoleRequestStep

\* A request that is answered without having changed anything, or that gives
\* up half-way.
LEMMA FinishStep ==
  ASSUME IInv, NEW r \in Requests, ~At(r, "idle"), Finish(r),
         cache' \in {cache, None}, UNCHANGED <<db, votes, applied, now>>,
         \/ serial' = FALSE
         \/ serial' = serial /\ req[r].pc \notin {"act", "save"}
                             /\ (At(r, "del") => cache' = None)
  PROVE  IInv'
<1>1. RequestOK(Idle) /\ Idle.pc = "idle"
  BY ProposalAssumption DEF RequestOK, Request, Idle, Pcs, Holding, Unchanged
<1>2. ASSUME serial' PROVE Alone(Idle, db', cache', applied')
  <2>1. Alone(req[r], db, cache, applied)
    BY <1>2, AloneNow
  <2>2. QED
    BY <1>1, <1>2, <2>1 DEF Alone, Unchanged, At
<1>3. /\ db' \in Row \cup {None} /\ cache' \in Row \cup {None} /\ applied' \in Nat
      /\ votes' \in [Wallets -> [Sides -> Nat]]
  BY DEF IInv, TypeOK
<1>4. serial' \in BOOLEAN /\ (serial' => serial)
  <2>1. serial \in BOOLEAN
    BY DEF IInv, TypeOK
  <2>2. CASE serial' = FALSE
    BY <2>2
  <2>3. CASE serial' = serial
    BY <2>1, <2>3
  <2>4. QED
    BY <2>2, <2>3
<1>5. QED
  BY <1>1, <1>2, <1>3, <1>4, RequestStep DEF Finish

\* A step that moves or changes the request and touches nothing else.
LEMMA RequestMoves ==
  ASSUME IInv, NEW r \in Requests, ~At(r, "idle"), NEW q, RequestOK(q),
         req' = [req EXCEPT ![r] = q],
         UNCHANGED <<db, cache, votes, applied, now, serial>>,
         Alone(req[r], db, cache, applied) => Alone(q, db, cache, applied)
  PROVE  IInv'
<1>1. /\ db' \in Row \cup {None} /\ cache' \in Row \cup {None} /\ applied' \in Nat
      /\ votes' \in [Wallets -> [Sides -> Nat]]
  BY DEF IInv, TypeOK
<1>2. serial' \in BOOLEAN /\ (serial' => serial)
  BY Zenon DEF IInv, TypeOK
<1>3. serial' => Alone(q, db', cache', applied')
  BY AloneNow
<1>4. QED
  BY <1>1, <1>2, <1>3, RequestStep

\* Moving to a point at which the same is known of the copy.
LEMMA MoveStep ==
  ASSUME IInv, NEW r \in Requests, NEW pc \in Pcs, Move(r, pc),
         req[r].pc \notin {"idle", "act", "save", "del"},
         pc \notin {"idle", "act", "save", "del"},
         pc \in Holding => req[r].pc \in Unchanged,
         pc \in {"findVote", "insert"} => req[r].op = "vote",
         UNCHANGED <<db, cache, votes, applied, now, serial>>
  PROVE  IInv'
<1> DEFINE q == [req[r] EXCEPT !.pc = pc]
<1>1. req[r] \in Request /\ RequestOK(req[r])
  BY DEF IInv, TypeOK
<1>2. q \in Request /\ q.pc = pc /\ q.copy = req[r].copy /\ q.op = req[r].op
      /\ q.wallet = req[r].wallet /\ q.side = req[r].side
  BY <1>1 DEF Request
<1>3. req' = [req EXCEPT ![r] = q]
  BY DEF Move, IInv, TypeOK
<1> HIDE DEF q
<1>4. RequestOK(q)
  BY <1>1, <1>2 DEF RequestOK, Holding, Unchanged
<1>5. Alone(req[r], db, cache, applied) => Alone(q, db, cache, applied)
  BY <1>2 DEF Alone, Unchanged, Holding
<1>6. QED
  BY <1>3, <1>4, <1>5, RequestMoves DEF At

LEMMA ReadCacheStep == ASSUME IInv, NEW r \in Requests, ReadCache(r) PROVE IInv'
<1>1. CASE cache # None /\ req' = [req EXCEPT ![r].copy = cache, ![r].cached = TRUE, ![r].pc = "got"]
  <2> DEFINE q == [req[r] EXCEPT !.copy = cache, !.cached = TRUE, !.pc = "got"]
  <2>1. req[r] \in Request /\ RequestOK(req[r]) /\ cache \in Row
    BY <1>1 DEF IInv, TypeOK
  <2>2. q \in Request /\ q.pc = "got" /\ q.copy = cache /\ q.op = req[r].op
        /\ q.wallet = req[r].wallet /\ q.side = req[r].side
    BY <2>1 DEF Request, Pcs
  <2>3. req' = [req EXCEPT ![r] = q]
    BY <1>1 DEF IInv, TypeOK
  <2> HIDE DEF q
  <2>4. RequestOK(q)
    BY <2>1, <2>2 DEF RequestOK, ReadCache, At
  <2>5. Alone(req[r], db, cache, applied) => Alone(q, db, cache, applied)
    BY <1>1, <2>2 DEF Alone, Unchanged, ReadCache, At
  <2>6. QED
    BY <2>3, <2>4, <2>5, RequestMoves DEF ReadCache, At
<1>2. CASE Move(r, "find")
  BY <1>2, MoveStep DEF ReadCache, At, Pcs, Holding, Unchanged
<1>3. QED
  BY <1>1, <1>2 DEF ReadCache

LEMMA FindRowStep == ASSUME IInv, NEW r \in Requests, FindRow(r) PROVE IInv'
<1>1. CASE db = None
  BY <1>1, FinishStep DEF FindRow, At
<1>2. CASE db # None
  <2> DEFINE q == [req[r] EXCEPT !.copy = db, !.cached = FALSE, !.pc = "fill"]
  <2>1. req[r] \in Request /\ RequestOK(req[r]) /\ db \in Row
    BY <1>2 DEF IInv, TypeOK
  <2>2. q \in Request /\ q.pc = "fill" /\ q.copy = db /\ q.op = req[r].op
        /\ q.wallet = req[r].wallet /\ q.side = req[r].side
    BY <2>1 DEF Request, Pcs
  <2>3. req' = [req EXCEPT ![r] = q]
    BY <1>2 DEF FindRow, IInv, TypeOK
  <2> HIDE DEF q
  <2>4. RequestOK(q)
    BY <2>1, <2>2 DEF RequestOK, FindRow, At
  <2>5. Alone(req[r], db, cache, applied) => Alone(q, db, cache, applied)
    BY <1>2, <2>2 DEF Alone, Unchanged, FindRow, At
  <2>6. QED
    BY <2>3, <2>4, <2>5, RequestMoves DEF FindRow, At
<1>3. QED
  BY <1>1, <1>2

LEMMA FillCacheStep == ASSUME IInv, NEW r \in Requests, FillCache(r) PROVE IInv'
<1>1. CASE cache' = req[r].copy /\ Move(r, "got")
  <2> DEFINE q == [req[r] EXCEPT !.pc = "got"]
  <2>1. req[r] \in Request /\ RequestOK(req[r])
    BY DEF IInv, TypeOK
  <2>2. req[r].copy \in Row
    BY <2>1 DEF RequestOK, Holding, Unchanged, FillCache, At
  <2>3. q \in Request /\ q.pc = "got" /\ q.copy = req[r].copy /\ q.op = req[r].op
        /\ q.wallet = req[r].wallet /\ q.side = req[r].side
    BY <2>1 DEF Request, Pcs
  <2>4. req' = [req EXCEPT ![r] = q]
    BY <1>1 DEF Move, IInv, TypeOK
  <2> HIDE DEF q
  <2>5. RequestOK(q)
    BY <2>1, <2>2, <2>3 DEF RequestOK, FillCache, At
  <2>6. ASSUME serial' PROVE Alone(q, db', cache', applied')
    <3>1. Alone(req[r], db, cache, applied)
      BY <2>6, AloneNow DEF FillCache, At
    <3>2. QED
      BY <1>1, <2>3, <3>1 DEF Alone, Unchanged, FillCache, At
  <2>7. /\ db' \in Row \cup {None} /\ cache' \in Row \cup {None} /\ applied' \in Nat
        /\ votes' \in [Wallets -> [Sides -> Nat]]
    BY <1>1, <2>2 DEF FillCache, IInv, TypeOK
  <2>8. serial' \in BOOLEAN /\ (serial' => serial)
    BY Zenon DEF FillCache, IInv, TypeOK
  <2>9. QED
    BY <2>4, <2>5, <2>6, <2>7, <2>8, RequestStep DEF FillCache, At
<1>2. CASE Finish(r) /\ UNCHANGED cache
  BY <1>2, FinishStep DEF FillCache, At
<1>3. QED
  BY <1>1, <1>2 DEF FillCache

LEMMA AdmitStep == ASSUME IInv, NEW r \in Requests, Admit(r) PROVE IInv'
<1>1. CASE req' = [req EXCEPT ![r].pc = "readCache", ![r].round = 2]
  <2> DEFINE q == [req[r] EXCEPT !.pc = "readCache", !.round = 2]
  <2>1. req[r] \in Request /\ RequestOK(req[r])
    BY DEF IInv, TypeOK
  <2>2. q \in Request /\ q.pc = "readCache" /\ q.op = req[r].op
        /\ q.wallet = req[r].wallet /\ q.side = req[r].side
    BY <2>1 DEF Request, Pcs
  <2>3. req' = [req EXCEPT ![r] = q]
    BY <1>1 DEF IInv, TypeOK
  <2> HIDE DEF q
  <2>4. RequestOK(q)
    BY <2>1, <2>2 DEF RequestOK, Holding, Unchanged, Admit, At
  <2>5. Alone(req[r], db, cache, applied) => Alone(q, db, cache, applied)
    BY <2>2 DEF Alone, Unchanged, Admit, At
  <2>6. QED
    BY <2>3, <2>4, <2>5, RequestMoves DEF Admit, At
<1>2. CASE Finish(r)
  BY <1>2, FinishStep DEF Admit, At
<1>3. QED
  BY <1>1, <1>2 DEF Admit

LEMMA CheckVoteStep == ASSUME IInv, NEW r \in Requests, CheckVote(r) PROVE IInv'
<1>1. CASE Move(r, "findVote")
  BY <1>1, MoveStep DEF CheckVote, At, Pcs, Holding, Unchanged
<1>2. CASE Finish(r)
  BY <1>2, FinishStep DEF CheckVote, At
<1>3. QED
  BY <1>1, <1>2 DEF CheckVote

LEMMA FindVoteStep == ASSUME IInv, NEW r \in Requests, FindVote(r) PROVE IInv'
<1>0. req[r].op = "vote"
  BY DEF FindVote, At, IInv, TypeOK, RequestOK
<1>1. CASE Move(r, "insert")
  BY <1>0, <1>1, MoveStep DEF FindVote, At, Pcs, Holding, Unchanged
<1>2. CASE Finish(r)
  BY <1>2, FinishStep DEF FindVote, At
<1>3. QED
  BY <1>1, <1>2 DEF FindVote

LEMMA InsertVoteStep == ASSUME IInv, NEW r \in Requests, InsertVote(r) PROVE IInv'
<1> DEFINE w == req[r].wallet
           s == req[r].side
           row == IF s = "yes" THEN [req[r].copy EXCEPT !.yes = @ + Power[w]]
                  ELSE [req[r].copy EXCEPT !.no = @ + Power[w]]
           q == [req[r] EXCEPT !.pc = "save", !.copy = row]
<1>1. /\ req[r] \in Request /\ RequestOK(req[r]) /\ req[r].copy \in Row
      /\ w \in Wallets /\ s \in Sides /\ Power[w] \in Nat
  BY ProposalAssumption DEF InsertVote, At, IInv, TypeOK, RequestOK, Holding, Unchanged
<1>2. CASE votes' = [votes EXCEPT ![w][s] = @ + 1] /\ req' = [req EXCEPT ![r] = q]
  <2>1. row \in Row /\ row.status = req[r].copy.status
    BY <1>1 DEF Row
  <2> HIDE DEF row
  <2>2. q \in Request /\ q.pc = "save" /\ q.copy = row /\ q.op = req[r].op
        /\ q.wallet = w /\ q.side = s
    BY <1>1, <2>1 DEF Request, Pcs
  <2> HIDE DEF q
  <2>3. RequestOK(q)
    BY <1>1, <2>1, <2>2 DEF RequestOK
  <2>4. votes' \in [Wallets -> [Sides -> Nat]]
    BY <1>1, <1>2 DEF IInv, TypeOK
  <2>5. ASSUME serial' PROVE Alone(q, db', cache', applied')
    <3>1. Alone(req[r], db, cache, applied)
      BY <2>5, AloneNow DEF InsertVote, At
    <3>2. QED
      BY <2>1, <2>2, <3>1 DEF Alone, Unchanged, InsertVote, At
  <2>6. /\ db' \in Row \cup {None} /\ cache' \in Row \cup {None} /\ applied' \in Nat
    BY DEF InsertVote, IInv, TypeOK
  <2>7. serial' \in BOOLEAN /\ (serial' => serial)
    BY Zenon DEF InsertVote, IInv, TypeOK
  <2>8. QED
    BY <1>2, <2>3, <2>4, <2>5, <2>6, <2>7, RequestStep DEF InsertVote, At
<1>3. CASE Finish(r) /\ UNCHANGED votes
  BY <1>3, FinishStep DEF InsertVote, At
<1>4. req' = [req EXCEPT ![r].pc = "save", ![r].copy = row] => req' = [req EXCEPT ![r] = q]
  <2> HIDE DEF row
  <2>1. QED
    BY <1>1 DEF IInv, TypeOK
<1>5. QED
  BY <1>2, <1>3, <1>4 DEF InsertVote

\* A request goes to the save with a new verdict on its copy, or on the row.
LEMMA DecideStep ==
  ASSUME IInv, NEW r \in Requests, ~At(r, "idle"), ~At(r, "del"), NEW row \in Row,
         NEW q \in Request, q.pc = "save", q.copy = row, q.op = req[r].op,
         q.wallet = req[r].wallet, q.side = req[r].side,
         req' = [req EXCEPT ![r] = q],
         UNCHANGED <<db, cache, votes, now, serial>>, applied' \in Nat,
         Alone(req[r], db, cache, applied) =>
            Tells(row.status, applied') /\ (db = None => applied' = 0)
  PROVE  IInv'
<1>1. RequestOK(req[r])
  BY DEF IInv, TypeOK
<1>2. RequestOK(q)
  BY <1>1 DEF RequestOK, At
<1>3. ASSUME serial' PROVE Alone(q, db', cache', applied')
  <2>1. Alone(req[r], db, cache, applied)
    BY <1>3, AloneNow
  <2>2. QED
    BY <2>1 DEF Alone, Unchanged, At
<1>4. /\ db' \in Row \cup {None} /\ cache' \in Row \cup {None}
      /\ votes' \in [Wallets -> [Sides -> Nat]]
  BY DEF IInv, TypeOK
<1>5. serial' \in BOOLEAN /\ (serial' => serial)
  BY Zenon DEF IInv, TypeOK
<1>6. QED
  BY <1>2, <1>3, <1>4, <1>5, RequestStep

LEMMA CheckCancelStep == ASSUME IInv, NEW r \in Requests, CheckCancel(r) PROVE IInv'
<1>1. CASE req[r].copy.status = "active"
  <2> DEFINE row == [req[r].copy EXCEPT !.status = "cancelled"]
             q == [req[r] EXCEPT !.pc = "save", !.copy = row]
  <2>1. req[r] \in Request /\ req[r].copy \in Row
    BY DEF CheckCancel, At, IInv, TypeOK, RequestOK, Holding, Unchanged
  <2>2. row \in Row /\ row.status = "cancelled"
    BY <2>1 DEF Row
  <2>3. req' = [req EXCEPT ![r] = q]
    <3> DEFINE c == [req[r] EXCEPT !.pc = "save", !.copy.status = "cancelled"]
    <3>1. req' = [req EXCEPT ![r] = c]
      BY <1>1, <2>1 DEF CheckCancel, IInv, TypeOK
    <3>2. c = q
      BY <2>1 DEF Request
    <3>3. QED
      BY <3>1, <3>2
  <2> HIDE DEF row
  <2>4. q \in Request /\ q.pc = "save" /\ q.copy = row /\ q.op = req[r].op
        /\ q.wallet = req[r].wallet /\ q.side = req[r].side
    BY <2>1, <2>2 DEF Request, Pcs
  <2> HIDE DEF q
  <2>5. Alone(req[r], db, cache, applied) => Tells(row.status, applied) /\ (db = None => applied = 0)
    BY <1>1, <2>2 DEF Alone, Unchanged, CheckCancel, At, Tells
  <2>6. applied' = applied /\ applied \in Nat
    BY DEF CheckCancel, IInv, TypeOK
  <2>7. QED
    BY <2>2, <2>3, <2>4, <2>5, <2>6, DecideStep DEF CheckCancel, At
<1>2. CASE Finish(r)
  BY <1>2, FinishStep DEF CheckCancel, At
<1>3. QED
  BY <1>1, <1>2 DEF CheckCancel

LEMMA ProcessStep == ASSUME IInv, NEW r \in Requests, Process(r) PROVE IInv'
<1>1. CASE db # None /\ db.status = "active" /\ db.end < now
  <2> DEFINE row == [db EXCEPT !.status = Outcome(db)]
             q == [req[r] EXCEPT !.pc = "save", !.copy = row]
  <2>1. req[r] \in Request /\ db \in Row /\ Outcome(db) \in {"passed", "rejected"}
    BY <1>1 DEF IInv, TypeOK, Outcome
  <2>2. row \in Row /\ row.status \in {"passed", "rejected"}
    BY <2>1 DEF Row
  <2>3. req' = [req EXCEPT ![r] = q]
    BY <1>1, <2>1 DEF Process, IInv, TypeOK
  <2> HIDE DEF row
  <2>4. q \in Request /\ q.pc = "save" /\ q.copy = row /\ q.op = req[r].op
        /\ q.wallet = req[r].wallet /\ q.side = req[r].side
    BY <2>1, <2>2 DEF Request, Pcs
  <2> HIDE DEF q
  <2>5. Alone(req[r], db, cache, applied) => Tells(row.status, applied) /\ (db = None => applied = 0)
    BY <1>1, <2>2, ProposalAssumption DEF Alone, Process, At, Tells
  <2>6. applied' = applied /\ applied \in Nat
    BY DEF Process, IInv, TypeOK
  <2>7. QED
    BY <2>2, <2>3, <2>4, <2>5, <2>6, DecideStep DEF Process, At
<1>2. CASE Finish(r)
  BY <1>2, FinishStep DEF Process, At
<1>3. QED
  BY <1>1, <1>2 DEF Process

LEMMA CheckExecuteStep == ASSUME IInv, NEW r \in Requests, CheckExecute(r) PROVE IInv'
<1>1. CASE /\ req[r].copy.status = "passed"
           /\ req' = [req EXCEPT ![r].pc = "act", ![r].todo = NumActions]
  <2> DEFINE q == [req[r] EXCEPT !.pc = "act", !.todo = NumActions]
  <2>1. req[r] \in Request /\ RequestOK(req[r]) /\ req[r].copy \in Row
    BY DEF CheckExecute, At, IInv, TypeOK, RequestOK, Holding, Unchanged
  <2>2. q \in Request /\ q.pc = "act" /\ q.copy = req[r].copy /\ q.op = req[r].op
        /\ q.wallet = req[r].wallet /\ q.side = req[r].side /\ q.todo = NumActions
    BY <2>1, ProposalAssumption DEF Request, Pcs
  <2>3. req' = [req EXCEPT ![r] = q]
    BY <1>1 DEF IInv, TypeOK
  <2> HIDE DEF q
  <2>4. RequestOK(q)
    BY <2>1, <2>2 DEF RequestOK, CheckExecute, At
  <2>5. Alone(req[r], db, cache, applied) => Alone(q, db, cache, applied)
    BY <1>1, <2>2, ProposalAssumption DEF Alone, Unchanged, CheckExecute, At, Tells
  <2>6. QED
    BY <2>3, <2>4, <2>5, RequestMoves DEF CheckExecute, At
<1>2. CASE Finish(r)
  BY <1>2, FinishStep DEF CheckExecute, At
<1>3. QED
  BY <1>1, <1>2 DEF CheckExecute

\* What Conclude leaves of a request that holds a copy.
LEMMA ConcludedRequest ==
  ASSUME IInv, NEW r \in Requests, req[r].copy \in Row,
         NEW st \in {"rejected", "executed"}, Conclude(r, st)
  PROVE  \E row \in Row, q \in Request :
            /\ req' = [req EXCEPT ![r] = q]
            /\ q.pc = "save" /\ q.copy = row /\ row.status = st /\ q.op = req[r].op
            /\ q.wallet = req[r].wallet /\ q.side = req[r].side
<1> DEFINE row == [req[r].copy EXCEPT !.status = st, !.executed = TRUE]
           q == [req[r] EXCEPT !.pc = "save", !.copy = row, !.todo = 0]
<1>1. req[r] \in Request
  BY DEF IInv, TypeOK
<1>2. row \in Row /\ row.status = st
  BY DEF Row
<1>3. req' = [req EXCEPT ![r] = q]
  <2> DEFINE c == [req[r] EXCEPT !.pc = "save", !.copy.status = st, !.copy.executed = TRUE, !.todo = 0]
  <2>1. req' = [req EXCEPT ![r] = c]
    BY <1>1 DEF Conclude, IInv, TypeOK
  <2>2. c = q
    BY <1>1 DEF Request
  <2>3. QED
    BY <2>1, <2>2
<1> HIDE DEF row
<1>4. q \in Request /\ q.pc = "save" /\ q.copy = row /\ q.op = req[r].op
      /\ q.wallet = req[r].wallet /\ q.side = req[r].side
  BY <1>1, <1>2 DEF Request, Pcs
<1> HIDE DEF q
<1>5. QED
  BY <1>2, <1>3, <1>4

\* Each action counts once; the last one, or a failing one, decides the verdict.
LEMMA ExecuteActionStep == ASSUME IInv, NEW r \in Requests, ExecuteAction(r) PROVE IInv'
<1>1. /\ req[r] \in Request /\ RequestOK(req[r]) /\ req[r].copy \in Row
      /\ applied \in Nat /\ req[r].todo \in Nat
  BY DEF ExecuteAction, At, IInv, TypeOK, RequestOK, Holding, Unchanged, Request
<1>2. ASSUME Alone(req[r], db, cache, applied)
      PROVE  db # None /\ req[r].todo > 0 /\ applied + req[r].todo = NumActions
  BY <1>2 DEF Alone, Unchanged, ExecuteAction, At
<1>3. CASE applied' = applied + 1 /\ req[r].todo > 1 /\ req' = [req EXCEPT ![r].todo = @ - 1]
  <2> DEFINE q == [req[r] EXCEPT !.todo = req[r].todo - 1]
  <2>1. /\ q \in Request /\ q.pc = req[r].pc /\ q.copy = req[r].copy /\ q.op = req[r].op
        /\ q.wallet = req[r].wallet /\ q.side = req[r].side /\ q.todo = req[r].todo - 1
    BY <1>1, <1>3 DEF Request
  <2>2. req' = [req EXCEPT ![r] = q]
    BY <1>1, <1>3 DEF IInv, TypeOK
  <2> HIDE DEF q
  <2>3. RequestOK(q)
    BY <1>1, <2>1 DEF RequestOK
  <2>4. ASSUME serial' PROVE Alone(q, db', cache', applied')
    <3>1. Alone(req[r], db, cache, applied)
      BY <2>4, AloneNow DEF ExecuteAction, At
    <3>2. applied' + q.todo = NumActions /\ q.todo > 0 /\ q.pc = "act"
      BY <1>1, <1>2, <1>3, <2>1, <3>1 DEF ExecuteAction, At
    <3>3. QED
      BY <1>2, <2>1, <3>1, <3>2 DEF Alone, Unchanged, ExecuteAction, At
  <2>5. /\ db' \in Row \cup {None} /\ cache' \in Row \cup {None}
        /\ votes' \in [Wallets -> [Sides -> Nat]] /\ applied' \in Nat
    BY <1>1, <1>3 DEF ExecuteAction, IInv, TypeOK
  <2>6. serial' \in BOOLEAN /\ (serial' => serial)
    BY Zenon DEF ExecuteAction, IInv, TypeOK
  <2>7. QED
    BY <2>2, <2>3, <2>4, <2>5, <2>6, RequestStep DEF ExecuteAction, At
<1>4. ASSUME NEW st \in {"rejected", "executed"}, Conclude(r, st), applied' \in Nat,
             Alone(req[r], db, cache, applied) => Tells(st, applied')
      PROVE  IInv'
  <2>1. PICK row \in Row, q \in Request :
            /\ req' = [req EXCEPT ![r] = q]
            /\ q.pc = "save" /\ q.copy = row /\ row.status = st /\ q.op = req[r].op
            /\ q.wallet = req[r].wallet /\ q.side = req[r].side
    BY <1>1, <1>4, ConcludedRequest
  <2>2. Alone(req[r], db, cache, applied) =>
           Tells(row.status, applied') /\ (db = None => applied' = 0)
    BY <1>2, <1>4, <2>1
  <2>3. QED
    BY <1>4, <2>1, <2>2, DecideStep DEF ExecuteAction, At
<1>5. CASE applied' = applied + 1 /\ ~(req[r].todo > 1) /\ Conclude(r, "executed")
  <2>1. Alone(req[r], db, cache, applied) => Tells("executed", applied')
    BY <1>1, <1>2, <1>5, ProposalAssumption DEF Tells
  <2>2. QED
    BY <1>1, <1>4, <1>5, <2>1
<1>6. CASE applied' = applied /\ Conclude(r, "rejected")
  <2>1. Alone(req[r], db, cache, applied) => Tells("rejected", applied')
    BY <1>1, <1>2, <1>6, ProposalAssumption DEF Tells
  <2>2. QED
    BY <1>1, <1>4, <1>6, <2>1
<1>7. QED
  BY <1>3, <1>5, <1>6 DEF ExecuteAction

\* A failing save or delete ends the run of requests that came one at a time.
LEMMA ThrownStep ==
  ASSUME IInv, NEW r \in Requests, req[r].pc \in {"save", "del"}, Thrown(r), serial' = FALSE,
         UNCHANGED <<db, votes, cache, applied, now>>
  PROVE  IInv'
<1>1. CASE Finish(r)
  BY <1>1, FinishStep DEF At
<1>2. CASE Conclude(r, "rejected")
  <2>1. RequestOK(req[r]) /\ req[r].copy \in Row
    BY DEF IInv, TypeOK, RequestOK, Holding
  <2>2. PICK row \in Row, q \in Request :
            /\ req' = [req EXCEPT ![r] = q]
            /\ q.pc = "save" /\ q.copy = row /\ row.status = "rejected" /\ q.op = req[r].op
            /\ q.wallet = req[r].wallet /\ q.side = req[r].side
    BY <1>2, <2>1, ConcludedRequest
  <2>3. RequestOK(q)
    BY <2>1, <2>2 DEF RequestOK
  <2>4. /\ db' \in Row \cup {None} /\ cache' \in Row \cup {None} /\ applied' \in Nat
        /\ votes' \in [Wallets -> [Sides -> Nat]]
    BY DEF IInv, TypeOK
  <2>5. QED
    BY <2>2, <2>3, <2>4, RequestStep DEF At
<1>3. QED
  BY <1>1, <1>2 DEF Thrown

LEMMA SaveRowStep == ASSUME IInv, NEW r \in Requests, SaveRow(r) PROVE IInv'
<1>1. CASE db' = req[r].copy /\ Move(r, "del") /\ UNCHANGED serial
  <2> DEFINE q == [req[r] EXCEPT !.pc = "del"]
  <2>1. req[r] \in Request /\ RequestOK(req[r]) /\ req[r].copy \in Row
    BY DEF SaveRow, At, IInv, TypeOK, RequestOK, Holding
  <2>2. q \in Request /\ q.pc = "del" /\ q.copy = req[r].copy /\ q.op = req[r].op
        /\ q.wallet = req[r].wallet /\ q.side = req[r].side
    BY <2>1 DEF Request, Pcs
  <2>3. req' = [req EXCEPT ![r] = q]
    BY <1>1 DEF Move, IInv, TypeOK
  <2> HIDE DEF q
  <2>4. RequestOK(q)
    BY <2>1, <2>2 DEF RequestOK, SaveRow, At
  <2>5. ASSUME serial' PROVE Alone(q, db', cache', applied')
    <3>1. Alone(req[r], db, cache, applied)
      BY <1>1, <2>5, AloneNow DEF SaveRow, At
    <3>2. Tells(req[r].copy.status, applied)
      BY <3>1 DEF Alone, SaveRow, At
    <3>3. db' # None
      BY <1>1, <2>1, ProposalAssumption
    <3>4. QED
      BY <1>1, <2>2, <3>2, <3>3 DEF Alone, Unchanged, SaveRow
  <2>6. /\ db' \in Row \cup {None} /\ cache' \in Row \cup {None} /\ applied' \in Nat
        /\ votes' \in [Wallets -> [Sides -> Nat]]
    BY <1>1, <2>1 DEF SaveRow, IInv, TypeOK
  <2>7. serial' \in BOOLEAN /\ (serial' => serial)
    BY <1>1, Zenon DEF IInv, TypeOK
  <2>8. QED
    BY <2>3, <2>4, <2>5, <2>6, <2>7, RequestStep DEF SaveRow, At
<1>2. CASE Thrown(r) /\ serial' = FALSE /\ UNCHANGED db
  BY <1>2, ThrownStep DEF SaveRow, At
<1>3. QED
  BY <1>1, <1>2 DEF SaveRow

LEMMA DropCacheStep == ASSUME IInv, NEW r \in Requests, DropCache(r) PROVE IInv'
<1>1. CASE cache' = None /\ Finish(r) /\ UNCHANGED serial
  BY <1>1, FinishStep DEF DropCache, At
<1>2. CASE Thrown(r) /\ serial' = FALSE /\ UNCHANGED cache
  BY <1>2, ThrownStep DEF DropCache, At
<1>3. QED
  BY <1>1, <1>2 DEF DropCache

LEMMA ListingStep == ASSUME IInv, NEW r \in Requests, Listing(r) PROVE IInv'
<1>1. CASE ReadList(r)
  <2>1. CASE Finish(r)
    BY <1>1, <2>1, FinishStep DEF ReadList, At
  <2>2. CASE Move(r, "findList")
    BY <1>1, <2>2, MoveStep DEF ReadList, At, Pcs, Holding, Unchanged
  <2>3. QED
    BY <1>1, <2>1, <2>2 DEF ReadList
<1>2. CASE FindList(r)
  <2> DEFINE q == [req[r] EXCEPT !.copy = db, !.pc = "fillList"]
  <2>1. req[r] \in Request /\ RequestOK(req[r]) /\ db \in Row \cup {None}
    BY DEF IInv, TypeOK
  <2>2. q \in Request /\ q.pc = "fillList" /\ q.op = req[r].op
        /\ q.wallet = req[r].wallet /\ q.side = req[r].side
    BY <2>1 DEF Request, Pcs
  <2>3. req' = [req EXCEPT ![r] = q]
    BY <1>2 DEF FindList, IInv, TypeOK
  <2> HIDE DEF q
  <2>4. RequestOK(q)
    BY <1>2, <2>1, <2>2 DEF RequestOK, Holding, Unchanged, FindList, At
  <2>5. Alone(req[r], db, cache, applied) => Alone(q, db, cache, applied)
    BY <1>2, <2>2 DEF Alone, Unchanged, FindList, At
  <2>6. QED
    BY <1>2, <2>3, <2>4, <2>5, RequestMoves DEF FindList, At
<1>3. CASE FillList(r)
  BY <1>3, FinishStep DEF FillList, At
<1>4. QED
  BY <1>1, <1>2, <1>3 DEF Listing

\* Whoever arrives while another request is in progress ends the run of
\* requests that came one at a time.
LEMMA ArriveStep ==
  ASSUME IInv, NEW r \in Requests, NEW op \in Operations \cup {"vote"},
         NEW w \in Wallets \cup {None}, NEW s \in Sides \cup {None}, Arrive(r, op, w, s),
         op = "vote" => w \in Wallets /\ s \in Sides
  PROVE  IInv'
<1> DEFINE pc == CASE op = "list" -> "readList" [] op = "process" -> "process"
                   [] OTHER -> "readCache"
           q == [Idle EXCEPT !.pc = pc, !.op = op, !.round = 1, !.wallet = w, !.side = s]
<1>1. pc \in {"readList", "process", "readCache"}
  OBVIOUS
<1>2. req' = [req EXCEPT ![r] = q]
  BY DEF Arrive
<1> HIDE DEF pc
<1>3. Idle \in Request
  BY DEF Idle, Request, Pcs
<1>4. q \in Request /\ q.pc = pc /\ q.op = op /\ q.wallet = w /\ q.side = s
  BY <1>1, <1>3 DEF Request, Pcs
<1> HIDE DEF q
<1>5. RequestOK(q)
  BY <1>1, <1>4 DEF RequestOK, Holding, Unchanged
<1>6. serial' = (serial /\ Quiet)
  BY DEF Arrive
<1>7. serial' => Quiet /\ serial
  BY <1>6
<1>8. ASSUME serial' PROVE Alone(q, db', cache', applied')
  BY <1>1, <1>4, <1>7, <1>8
  DEF IInv, CacheFollows, ActionsCounted, Alone, Unchanged, Quiet, At, Arrive
<1>9. serial' => \A p \in Requests : p # r => At(p, "idle")
  BY <1>7 DEF Quiet
<1>10. serial' \in BOOLEAN
  BY <1>6
<1>11. /\ db' \in Row \cup {None} /\ cache' \in Row \cup {None} /\ applied' \in Nat
       /\ votes' \in [Wallets -> [Sides -> Nat]] /\ now' = now
  BY DEF Arrive, IInv, TypeOK
<1>12. QED
  BY <1>2, <1>5, <1>7, <1>8, <1>9, <1>10, <1>11, SoleRequestStep

\* A proposal is created only where there was none, so nothing has run.
LEMMA CreateStep == ASSUME IInv, NEW w \in Wallets, createProposal(w) PROVE IInv'
<1> DEFINE row == [status |-> "active", yes |-> 0, no |-> 0, end |-> now + votingPeriod,
                   executed |-> FALSE]
<1>1. db = None /\ db' = row /\ UNCHANGED <<votes, cache, req, applied, now, serial>>
  BY DEF createProposal
<1>2. row \in Row
  BY ProposalAssumption DEF IInv, TypeOK, Row
<1>3. row.status = "active"
  OBVIOUS
<1> HIDE DEF row
<1>4. TypeOK'
  BY <1>1, <1>2 DEF IInv, TypeOK
<1>5. OneAtATime' /\ CacheFollows' /\ CopyIsRow'
  BY <1>1 DEF IInv, OneAtATime, CacheFollows, CopyIsRow, At
<1>6. ActionsCounted'
  BY <1>1, <1>2, <1>3, ProposalAssumption DEF IInv, ActionsCounted, Tells, At
<1>7. QED
  BY <1>4, <1>5, <1>6 DEF IInv

\* A key expires, the clock advances, or nothing happens.
LEMMA ElsewhereStep ==
  ASSUME IInv, UNCHANGED <<db, votes, req, applied, serial>>,
         cache' \in {cache, None}, now' \in Nat
  PROVE  IInv'
<1>1. TypeOK'
  BY DEF IInv, TypeOK
<1>2. OneAtATime' /\ CacheFollows' /\ CopyIsRow' /\ ActionsCounted'
  BY DEF IInv, OneAtATime, CacheFollows, CopyIsRow, ActionsCounted, At
<1>3. QED
  BY <1>1, <1>2 DEF IInv

LEMMA NextIInv == IInv /\ [Next]_vars => IInv'
<1> SUFFICES ASSUME IInv, [Next]_vars PROVE IInv'
  OBVIOUS
<1>1. ASSUME NEW w \in Wallets, createProposal(w) PROVE IInv'
  BY <1>1, CreateStep
<1>2. ASSUME NEW r \in Requests, NEW w \in Wallets, NEW s \in Sides, Arrive(r, "vote", w, s)
      PROVE  IInv'
  BY <1>2, ArriveStep
<1>3. ASSUME NEW r \in Requests, NEW op \in Operations \ {"vote"}, Arrive(r, op, None, None)
      PROVE  IInv'
  BY <1>3, ArriveStep
<1>4. ASSUME NEW r \in Requests,
             Getting(r) \/ Voting(r) \/ Deciding(r) \/ Storing(r) \/ Listing(r)
      PROVE  IInv'
  BY <1>4, ReadCacheStep, FindRowStep, FillCacheStep, AdmitStep, CheckVoteStep, FindVoteStep,
     InsertVoteStep, CheckCancelStep, ProcessStep, CheckExecuteStep, ExecuteActionStep,
     SaveRowStep, DropCacheStep, ListingStep
  DEF Getting, Voting, Deciding, Storing
<1>5. now \in Nat
  BY DEF IInv, TypeOK
<1>6. CASE Expire \/ ExpireList \/ Tick \/ UNCHANGED vars
  BY <1>5, <1>6, ElsewhereStep DEF Expire, ExpireList, Tick, vars
<1>7. QED
  BY <1>1, <1>2, <1>3, <1>4, <1>6 DEF Next

\* The row, its copies and the requests keep their types, however requests race.
THEOREM TypeCorrect == Spec => []TypeOK
<1>1. IInv => TypeOK
  BY DEF IInv
<1>2. QED
  BY InitIInv, NextIInv, <1>1, PTL DEF Spec

\* Between requests that came one at a time, Redis holds the row or nothing,
\* whichever reads of Redis and actions failed.
THEOREM CacheFollowsRow == Spec => []CacheCoherent
<1>1. IInv => CacheCoherent
  BY DEF IInv, CacheFollows, CacheCoherent, Quiet, At
<1>2. QED
  BY InitIInv, NextIInv, <1>1, PTL DEF Spec

\* While requests come one at a time no action runs twice, and the row says
\* 'executed' exactly when all of them ran.
THEOREM ActionsRunOnceSerially == Spec => []SerialExecution
<1>1. IInv => SerialExecution
  <2> SUFFICES ASSUME IInv, serial
               PROVE  /\ applied <= NumActions
                      /\ Quiet /\ db # None => (db.status = "executed" <=> applied = NumActions)
    BY DEF SerialExecution
  <2>0. applied \in Nat /\ NumActions \in Nat \ {0}
    BY ProposalAssumption DEF IInv, TypeOK
  <2>1. ASSUME NEW row \in Row, Tells(row.status, applied)
        PROVE  applied <= NumActions /\ (row.status = "executed" <=> applied = NumActions)
    BY <2>0, <2>1 DEF Row, Tells
  <2>2. CASE Quiet
    <3>1. db # None => db \in Row /\ Tells(db.status, applied)
      BY <2>2 DEF IInv, TypeOK, ActionsCounted, Quiet, At
    <3>2. db = None => applied = 0
      BY DEF IInv, ActionsCounted
    <3>3. QED
      BY <2>0, <2>1, <3>1, <3>2
  <2>3. CASE ~Quiet
    <3>1. PICK r \in Requests : ~At(r, "idle")
      BY <2>3 DEF Quiet
    <3>2. Alone(req[r], db, cache, applied)
      BY <3>1, AloneNow
    <3>3. RequestOK(req[r]) /\ req[r] \in Request /\ db \in Row \cup {None}
      BY DEF IInv, TypeOK
    <3>4. CASE At(r, "act")
      BY <2>0, <2>3, <3>2, <3>3, <3>4 DEF Alone, At, Request
    <3>5. CASE At(r, "save")
      BY <2>1, <2>3, <3>2, <3>3, <3>5 DEF Alone, At, RequestOK, Holding
    <3>6. CASE ~At(r, "act") /\ ~At(r, "save")
      BY <2>0, <2>1, <2>3, <3>2, <3>3, <3>6 DEF Alone, At
    <3>7. QED
      BY <3>4, <3>5, <3>6
  <2>4. QED
    BY <2>2, <2>3
<1>2. QED
  BY InitIInv, NextIInv, <1>1, PTL DEF Spec

-----------------------------------------------------------------------------
(* The tallies.  A stale copy can only lose power, never invent it, and only *)
(* a row that was won is ever called so: RowsSound says it of every copy     *)
(* there is.  VotesCounted adds what holds while requests come one at a time. *)

\* A row counts no power that no vote row has, and says 'passed' or 'executed'
\* only if it was won with a quorum.
Sound(row, yes, no) ==
    /\ row.yes <= yes /\ row.no <= no
    /\ row.status \in {"passed", "executed"} => row.yes > row.no /\ row.yes + row.no >= quorum

\* The same of the copy of a request; a vote is counted in an active one, and
\* actions run for a passed one.
SoundRequest(q, yes, no) ==
    /\ q.copy # None => Sound(q.copy, yes, no)
    /\ q.pc \in {"findVote", "insert"} => q.copy.status = "active"
    /\ q.pc = "act" => q.copy.status = "passed"

RowsSound ==
    /\ db # None => Sound(db, Cast("yes"), Cast("no"))
    /\ cache # None => Sound(cache, Cast("yes"), Cast("no"))
    /\ \A r \in Requests : SoundRequest(req[r], Cast("yes"), Cast("no"))
    /\ applied > 0 => Cast("yes") + Cast("no") >= quorum

\* The tallies of a row are the power of the vote rows.
Exact(row, yes, no) == row.yes = yes /\ row.no = no

\* While requests come one at a time, the row is exact or about to be replaced
\* by an exact one, and no wallet votes twice.
VotesCounted ==
    serial =>
        /\ \A w \in Wallets : votes[w]["yes"] + votes[w]["no"] <= 1
        /\ \A r \in Requests : At(r, "insert") => \A s \in Sides : votes[req[r].wallet][s] = 0
        /\ \A r \in Requests : At(r, "save") => Exact(req[r].copy, Cast("yes"), Cast("no"))
        /\ db = None => \A w \in Wallets, s \in Sides : votes[w][s] = 0
        /\ db # None /\ (\A r \in Requests : ~At(r, "save")) => Exact(db, Cast("yes"), Cast("no"))

Others(r) == \A p \in Requests \ {r} : req'[p] = req[p]

\* A step that saves nothing and hands out no verdict: the request ends up with
\* a copy that was there before.
Harmless(r) ==
    /\ UNCHANGED <<votes, applied, db>> /\ Others(r)
    /\ cache' \in {cache, None, req[r].copy}
    /\ req'[r].copy \in {req[r].copy, db, cache, None}
    /\ req'[r].pc \notin {"findVote", "insert", "act", "save"}
    /\ serial' => serial /\ ~At(r, "save")

\* Reads of Redis and of the table, and the controller's checks, are such steps.
LEMMA HarmlessReads ==
  ASSUME IInv, NEW r \in Requests, ReadCache(r) \/ FindRow(r) \/ FillCache(r) \/ Admit(r) \/ Listing(r)
  PROVE  Harmless(r)
<1>1. req \in [Requests -> Request] /\ req[r] \in Request
  BY DEF IInv, TypeOK
<1>2. Idle.pc = "idle" /\ Idle.copy = None
  BY DEF Idle
<1>3. CASE ReadCache(r)
  BY <1>1, <1>3 DEF ReadCache, Move, Harmless, Others, At, Request
<1>4. CASE FindRow(r)
  BY <1>1, <1>2, <1>4 DEF FindRow, Finish, Harmless, Others, At, Request
<1>5. CASE FillCache(r)
  BY <1>1, <1>2, <1>5 DEF FillCache, Move, Finish, Harmless, Others, At, Request
<1>6. CASE Admit(r)
  BY <1>1, <1>2, <1>6 DEF Admit, Finish, Harmless, Others, At, Request
<1>7. CASE Listing(r)
  BY <1>1, <1>2, <1>7 DEF Listing, ReadList, FindList, FillList, Move, Finish, Harmless, Others, At, Request
<1>8. QED
  BY <1>3, <1>4, <1>5, <1>6, <1>7

\* A request that ends without saving anything more.
LEMMA HarmlessFinish ==
  ASSUME IInv, NEW r \in Requests, Finish(r), UNCHANGED <<votes, applied, db>>,
         cache' \in {cache, None}, serial' => serial /\ ~At(r, "save")
  PROVE  Harmless(r)
<1>1. req \in [Requests -> Request]
  BY DEF IInv, TypeOK
<1>2. Idle.pc = "idle" /\ Idle.copy = None
  BY DEF Idle
<1>3. QED
  BY <1>1, <1>2 DEF Finish, Harmless, Others

\* So is the arrival of a request.
LEMMA HarmlessArrive ==
  ASSUME IInv, NEW r \in Requests, NEW op, NEW w, NEW s, Arrive(r, op, w, s)
  PROVE  Harmless(r)
<1> DEFINE pc == CASE op = "list" -> "readList" [] op = "process" -> "process"
                   [] OTHER -> "readCache"
           q == [Idle EXCEPT !.pc = pc, !.op = op, !.round = 1, !.wallet = w, !.side = s]
<1>1. pc \in {"readList", "process", "readCache"}
  OBVIOUS
<1>2. req' = [req EXCEPT ![r] = q]
  BY DEF Arrive
<1> HIDE DEF pc
<1>3. q.pc = pc /\ q.copy = None
  BY DEF Idle
<1> HIDE DEF q
<1>4. req \in [Requests -> Request]
  BY DEF IInv, TypeOK
<1>5. serial' => serial /\ ~At(r, "save")
  <2>1. serial' => serial
    BY Zenon DEF Arrive
  <2>2. ~At(r, "save")
    BY DEF Arrive, At
  <2>3. QED
    BY <2>1, <2>2
<1>6. QED
  BY <1>1, <1>2, <1>3, <1>4, <1>5 DEF Harmless, Others, Arrive

\* Casts depend on the vote rows alone, and are numbers.
LEMMA CastType ==
  ASSUME votes \in [Wallets -> [Sides -> Nat]], NEW side \in Sides
  PROVE  Cast(side) \in Nat
<1> DEFINE f == [w \in Wallets |-> votes[w][side] * Power[w]]
<1>1. \A w \in Wallets : f[w] \in Nat
  BY ProposalAssumption
<1>2. DOMAIN f = Wallets
  OBVIOUS
<1> HIDE DEF f
<1>3. SumFunctionOnSet(f, Wallets) \in Nat
  BY <1>1, SumNat, ProposalAssumption
<1>4. QED
  BY <1>2, <1>3 DEF f, Cast, SumFunction

\* One vote more is the wallet's power more.
LEMMA PowerOnce == ASSUME NEW p \in Nat, NEW n \in Nat PROVE (n + 1) * p = n * p + p
  OBVIOUS

\* A new vote row adds its wallet's power to its side.
LEMMA CastGrows ==
  ASSUME votes \in [Wallets -> [Sides -> Nat]], NEW w \in Wallets, NEW s \in Sides,
         votes' = [votes EXCEPT ![w][s] = @ + 1], NEW side \in Sides
  PROVE  Cast(side)' = Cast(side) + (IF side = s THEN Power[w] ELSE 0)
<1> DEFINE f == [v \in Wallets |-> votes[v][side] * Power[v]]
           g == [v \in Wallets |-> votes'[v][side] * Power[v]]
<1>1. \A v \in Wallets, t \in Sides :
         votes'[v][t] = IF v = w /\ t = s THEN votes[v][t] + 1 ELSE votes[v][t]
  OBVIOUS
<1>2. \A v \in Wallets : /\ votes[v][side] \in Nat /\ votes'[v][side] \in Nat /\ Power[v] \in Nat
                         /\ f[v] \in Int /\ g[v] \in Int
  <2>1. ASSUME NEW v \in Wallets PROVE votes[v][side] \in Nat /\ Power[v] \in Nat
    BY ProposalAssumption
  <2>2. ASSUME NEW v \in Wallets PROVE votes'[v][side] \in Nat
    BY <1>1, <2>1
  <2>3. ASSUME NEW m \in Nat, NEW n \in Nat PROVE m * n \in Nat
    OBVIOUS
  <2>4. ASSUME NEW v \in Wallets PROVE f[v] \in Int /\ g[v] \in Int
    BY <2>1, <2>2, <2>3
  <2>5. QED
    BY <2>1, <2>2, <2>4
<1>3. \A v \in Wallets \ {w} : f[v] = g[v]
  BY <1>1
<1>4. g[w] = f[w] + (IF side = s THEN Power[w] ELSE 0)
  <2>1. CASE side = s
    <3>1. votes'[w][side] = votes[w][side] + 1
      BY <1>1, <2>1
    <3>2. (votes[w][side] + 1) * Power[w] = votes[w][side] * Power[w] + Power[w]
      BY <1>2, PowerOnce
    <3>3. QED
      BY <2>1, <3>1, <3>2
  <2>2. CASE side # s
    <3>1. votes'[w][side] = votes[w][side]
      BY <1>1, <2>2
    <3>2. QED
      BY <1>2, <2>2, <3>1
  <2>3. QED
    BY <2>1, <2>2
<1>5. DOMAIN f = Wallets /\ DOMAIN g = Wallets
  OBVIOUS
<1>6. Cast(side) = SumFunctionOnSet(f, Wallets) /\ Cast(side)' = SumFunctionOnSet(g, Wallets)
  BY <1>5 DEF Cast, SumFunction
<1> HIDE DEF f, g
<1>7. SumFunctionOnSet(g, Wallets) = SumFunctionOnSet(f, Wallets) + g[w] - f[w]
  BY <1>2, <1>3, SumChange, ProposalAssumption
<1>8. SumFunctionOnSet(f, Wallets) \in Int /\ f[w] \in Int /\ Power[w] \in Nat
  BY <1>2, SumInt, ProposalAssumption
<1>9. QED
  BY <1>4, <1>6, <1>7, <1>8

\* The sums of the vote rows are numbers, and only grow.
LEMMA CastsGrow ==
  ASSUME IInv,
         \/ votes' = votes
         \/ \E w \in Wallets, s \in Sides : votes' = [votes EXCEPT ![w][s] = @ + 1]
  PROVE  \A side \in Sides : Cast(side) \in Nat /\ Cast(side)' \in Nat /\ Cast(side) <= Cast(side)'
<1> SUFFICES ASSUME NEW side \in Sides
             PROVE  Cast(side) \in Nat /\ Cast(side)' \in Nat /\ Cast(side) <= Cast(side)'
  OBVIOUS
<1>1. votes \in [Wallets -> [Sides -> Nat]]
  BY DEF IInv, TypeOK
<1>2. Cast(side) \in Nat
  BY <1>1, CastType
<1>3. CASE votes' = votes
  <2>1. Cast(side)' = Cast(side)
    BY <1>3 DEF Cast
  <2>2. QED
    BY <1>2, <2>1
<1>4. ASSUME NEW w \in Wallets, NEW s \in Sides, votes' = [votes EXCEPT ![w][s] = @ + 1]
      PROVE  Cast(side)' \in Nat /\ Cast(side) <= Cast(side)'
  <2>1. Cast(side)' = Cast(side) + (IF side = s THEN Power[w] ELSE 0)
    BY <1>1, <1>4, CastGrows
  <2>2. Power[w] \in Nat
    BY ProposalAssumption
  <2>3. QED
    BY <1>2, <2>1, <2>2
<1>5. QED
  BY <1>2, <1>3, <1>4

\* More vote rows leave a sound row, and a sound request, sound.
LEMMA SoundKept ==
  ASSUME NEW y \in Nat, NEW n \in Nat, NEW yy \in Nat, NEW nn \in Nat, y <= yy, n <= nn
  PROVE  /\ \A row \in Row : Sound(row, y, n) => Sound(row, yy, nn)
         /\ \A q \in Request : SoundRequest(q, y, n) => SoundRequest(q, yy, nn)
<1>1. ASSUME NEW row \in Row, Sound(row, y, n) PROVE Sound(row, yy, nn)
  BY <1>1 DEF Sound, Row
<1>2. QED
  BY <1>1 DEF SoundRequest, Request

\* A step of one request that stores a row it has, and leaves the request sound.
LEMMA RowsSoundStep ==
  ASSUME IInv, RowsSound, NEW r \in Requests, Others(r),
         \/ votes' = votes
         \/ \E w \in Wallets, s \in Sides : votes' = [votes EXCEPT ![w][s] = @ + 1],
         db' \in {db, req[r].copy}, cache' \in {cache, None, req[r].copy},
         SoundRequest(req'[r], Cast("yes")', Cast("no")'),
         applied' > 0 => applied > 0 \/ Cast("yes") + Cast("no") >= quorum
  PROVE  RowsSound'
<1> DEFINE y == Cast("yes")   yy == Cast("yes")'   n == Cast("no")   nn == Cast("no")'
<1>1. y \in Nat /\ yy \in Nat /\ n \in Nat /\ nn \in Nat /\ y <= yy /\ n <= nn
  BY CastsGrow DEF Sides
<1>2. /\ db # None => db \in Row /\ Sound(db, y, n)
      /\ cache # None => cache \in Row /\ Sound(cache, y, n)
      /\ \A p \in Requests : req[p] \in Request /\ SoundRequest(req[p], y, n)
      /\ req[r].copy # None => req[r].copy \in Row /\ Sound(req[r].copy, y, n)
  BY DEF IInv, TypeOK, RowsSound, SoundRequest, Request
<1>3. applied' > 0 => y + n >= quorum
  BY DEF RowsSound
<1>4. SoundRequest(req'[r], yy, nn)
  OBVIOUS
<1>5. quorum \in Nat
  BY ProposalAssumption
<1> HIDE DEF y, yy, n, nn
<1>6. db' # None => Sound(db', yy, nn)
  BY <1>1, <1>2, SoundKept
<1>7. cache' # None => Sound(cache', yy, nn)
  BY <1>1, <1>2, SoundKept
<1>8. \A p \in Requests : SoundRequest(req'[p], yy, nn)
  BY <1>1, <1>2, <1>4, SoundKept DEF Others
<1>9. applied' > 0 => yy + nn >= quorum
  BY <1>1, <1>3, <1>5
<1>10. QED
  BY <1>6, <1>7, <1>8, <1>9 DEF RowsSound, y, yy, n, nn

\* A step that stores nothing and saves nothing keeps the count of the votes.
LEMMA VotesCountedStep ==
  ASSUME VotesCounted, NEW r \in Requests, Others(r), UNCHANGED <<votes, db>>,
         serial' => serial /\ ~At(r, "save"), req'[r].pc # "save",
         req'[r].pc = "insert" => \A s \in Sides : votes[req'[r].wallet][s] = 0
  PROVE  VotesCounted'
<1> SUFFICES ASSUME serial' PROVE VotesCounted'
  BY DEF VotesCounted
<1> DEFINE y == Cast("yes")   n == Cast("no")
<1>1. Cast("yes")' = y /\ Cast("no")' = n
  BY DEF Cast
<1>2. /\ \A w \in Wallets : votes[w]["yes"] + votes[w]["no"] <= 1
      /\ \A p \in Requests : At(p, "insert") => \A s \in Sides : votes[req[p].wallet][s] = 0
      /\ \A p \in Requests : At(p, "save") => Exact(req[p].copy, y, n)
      /\ db = None => \A w \in Wallets, s \in Sides : votes[w][s] = 0
      /\ db # None /\ (\A p \in Requests : ~At(p, "save")) => Exact(db, y, n)
  BY DEF VotesCounted
<1> HIDE DEF y, n
<1>3. \A p \in Requests : req'[p].pc = "insert" => \A s \in Sides : votes[req'[p].wallet][s] = 0
  BY <1>2 DEF Others, At
<1>4. \A p \in Requests : req'[p].pc = "save" => Exact(req'[p].copy, y, n)
  BY <1>2 DEF Others, At
<1>5. db # None /\ (\A p \in Requests : req'[p].pc # "save") => Exact(db, y, n)
  BY <1>2 DEF Others, At
<1>6. QED
  BY <1>1, <1>2, <1>3, <1>4, <1>5 DEF VotesCounted, At

\* Neither the copies nor the votes notice such a step.
LEMMA HarmlessStep ==
  ASSUME IInv, RowsSound, VotesCounted, NEW r \in Requests, Harmless(r)
  PROVE  RowsSound' /\ VotesCounted'
<1>1. Cast("yes")' = Cast("yes") /\ Cast("no")' = Cast("no")
  BY DEF Harmless, Cast
<1>2. SoundRequest(req'[r], Cast("yes"), Cast("no"))
  BY DEF Harmless, RowsSound, SoundRequest
<1>3. RowsSound'
  BY <1>1, <1>2, RowsSoundStep DEF Harmless
<1>4. VotesCounted'
  BY VotesCountedStep DEF Harmless
<1>5. QED
  BY <1>3, <1>4

\* A request goes on with the copy it has, which nothing is said of yet, or to
\* look for a vote, to count one or to run the actions.
LEMMA PassStep ==
  ASSUME IInv, RowsSound, VotesCounted, NEW r \in Requests, Others(r),
         UNCHANGED <<votes, db, cache>>, serial' => serial, req[r].pc # "save",
         req'[r].copy = req[r].copy, req'[r].pc # "save",
         req'[r].pc \in {"findVote", "insert"} => req[r].copy.status = "active",
         req'[r].pc = "act" => req[r].copy.status = "passed",
         req'[r].pc = "insert" => \A s \in Sides : votes[req'[r].wallet][s] = 0,
         applied' > 0 => applied > 0 \/ Cast("yes") + Cast("no") >= quorum
  PROVE  RowsSound' /\ VotesCounted'
<1>1. Cast("yes")' = Cast("yes") /\ Cast("no")' = Cast("no")
  BY DEF Cast
<1>2. SoundRequest(req'[r], Cast("yes"), Cast("no"))
  BY DEF RowsSound, SoundRequest
<1>3. RowsSound'
  BY <1>1, <1>2, RowsSoundStep
<1>4. VotesCounted'
  BY VotesCountedStep DEF At
<1>5. QED
  BY <1>3, <1>4

\* A request goes to the save with a sound row, which has the tallies of the
\* table's row while requests come one at a time.
LEMMA VerdictStep ==
  ASSUME IInv, RowsSound, VotesCounted, NEW r \in Requests, Others(r), ~At(r, "idle"),
         UNCHANGED <<votes, db, cache>>, serial' => serial /\ ~At(r, "save"),
         req'[r].pc = "save", Sound(req'[r].copy, Cast("yes"), Cast("no")),
         serial' => db # None /\ req'[r].copy.yes = db.yes /\ req'[r].copy.no = db.no,
         applied' > 0 => applied > 0 \/ Cast("yes") + Cast("no") >= quorum
  PROVE  RowsSound' /\ VotesCounted'
<1> DEFINE y == Cast("yes")   n == Cast("no")
<1>1. Cast("yes")' = y /\ Cast("no")' = n
  BY DEF Cast
<1>2. SoundRequest(req'[r], y, n)
  BY DEF SoundRequest
<1>3. RowsSound'
  BY <1>1, <1>2, RowsSoundStep
<1>4. ASSUME serial' PROVE VotesCounted'
  <2>1. /\ \A w \in Wallets : votes[w]["yes"] + votes[w]["no"] <= 1
        /\ db # None /\ (\A p \in Requests : ~At(p, "save")) => Exact(db, y, n)
    BY <1>4 DEF VotesCounted
  <2>2. \A p \in Requests : p # r => req[p].pc = "idle"
    BY <1>4 DEF IInv, OneAtATime, At
  <2>3. db # None /\ ~At(r, "save")
    BY <1>4
  <2> HIDE DEF y, n
  <2>4. \A p \in Requests : ~At(p, "save")
    BY <2>2, <2>3 DEF At
  <2>5. Exact(req'[r].copy, y, n)
    BY <1>4, <2>1, <2>3, <2>4 DEF Exact
  <2>6. \A p \in Requests : p # r => req'[p].pc = "idle"
    BY <2>2 DEF Others
  <2>7. QED
    BY <1>1, <2>1, <2>3, <2>5, <2>6 DEF VotesCounted, At
<1>5. VotesCounted'
  BY <1>4 DEF VotesCounted
<1>6. QED
  BY <1>3, <1>5

\* What Move changes of a request.
LEMMA Moved ==
  ASSUME IInv, NEW r \in Requests, NEW pc, Move(r, pc)
  PROVE  /\ Others(r) /\ req'[r].pc = pc /\ req'[r].copy = req[r].copy
         /\ req'[r].wallet = req[r].wallet
<1>1. req \in [Requests -> Request] /\ req[r] \in Request
  BY DEF IInv, TypeOK
<1>2. QED
  BY <1>1 DEF Move, Others, Request

\* The checks of a vote pass on an active row, and, alone, for a new voter.
LEMMA VoteChecksCount ==
  ASSUME IInv, RowsSound, VotesCounted, NEW r \in Requests, CheckVote(r) \/ FindVote(r)
  PROVE  RowsSound' /\ VotesCounted'
<1>1. UNCHANGED <<votes, db, cache, applied>> /\ req[r].pc \in {"got", "findVote"}
  BY DEF CheckVote, FindVote, At
<1>2. serial' => serial
  BY Zenon DEF CheckVote, FindVote
<1>3. CASE Finish(r)
  <2>1. Harmless(r)
    BY <1>1, <1>2, <1>3, HarmlessFinish DEF At
  <2>2. QED
    BY <2>1, HarmlessStep
<1>4. CASE CheckVote(r) /\ Move(r, "findVote") /\ req[r].copy.status = "active"
  <2>1. Others(r) /\ req'[r].pc = "findVote" /\ req'[r].copy = req[r].copy
    BY <1>4, Moved
  <2>2. QED
    BY <1>1, <1>2, <1>4, <2>1, PassStep
<1>5. CASE FindVote(r) /\ Move(r, "insert") /\ \A s \in Sides : votes[req[r].wallet][s] = 0
  <2>1. /\ Others(r) /\ req'[r].pc = "insert" /\ req'[r].copy = req[r].copy
        /\ req'[r].wallet = req[r].wallet
    BY <1>5, Moved
  <2>2. req[r].copy.status = "active"
    BY <1>5 DEF FindVote, At, RowsSound, SoundRequest
  <2>3. QED
    BY <1>1, <1>2, <1>5, <2>1, <2>2, PassStep
<1>6. ASSUME CheckVote(r), ~Finish(r)
      PROVE  Move(r, "findVote") /\ req[r].copy.status = "active"
  <2>1. req[r].copy.status = "active" /\ ~Ended(r)
    BY <1>6 DEF CheckVote
  <2>2. QED
    BY <1>6, <2>1 DEF CheckVote
<1>7. ASSUME FindVote(r), ~Finish(r)
      PROVE  Move(r, "insert") /\ \A s \in Sides : votes[req[r].wallet][s] = 0
  <2>1. (\A s \in Sides : votes[req[r].wallet][s] = 0) /\ Power[req[r].wallet] > 0
    BY <1>7 DEF FindVote
  <2>2. QED
    BY <1>7, <2>1 DEF FindVote
<1>8. QED
  BY <1>3, <1>4, <1>5, <1>6, <1>7

\* What a counted vote does to the request.
LEMMA VoteInserted ==
  ASSUME IInv, NEW r \in Requests, InsertVote(r), ~(Finish(r) /\ votes' = votes)
  PROVE  /\ req[r].copy \in Row /\ req[r].wallet \in Wallets /\ req[r].side \in Sides
         /\ votes' = [votes EXCEPT ![req[r].wallet][req[r].side] = @ + 1]
         /\ Others(r) /\ req'[r].pc = "save" /\ req'[r].copy \in Row
         /\ req'[r].copy.status = req[r].copy.status
         /\ req'[r].copy.yes = req[r].copy.yes +
               (IF "yes" = req[r].side THEN Power[req[r].wallet] ELSE 0)
         /\ req'[r].copy.no = req[r].copy.no +
               (IF "no" = req[r].side THEN Power[req[r].wallet] ELSE 0)
<1> DEFINE w == req[r].wallet
           s == req[r].side
           row == IF s = "yes" THEN [req[r].copy EXCEPT !.yes = @ + Power[w]]
                  ELSE [req[r].copy EXCEPT !.no = @ + Power[w]]
<1>1. /\ req[r] \in Request /\ RequestOK(req[r]) /\ req[r].copy \in Row
      /\ w \in Wallets /\ s \in Sides /\ Power[w] \in Nat /\ req \in [Requests -> Request]
  BY ProposalAssumption DEF InsertVote, At, IInv, TypeOK, RequestOK, Holding, Unchanged
<1>2. /\ votes' = [votes EXCEPT ![w][s] = @ + 1]
      /\ req' = [req EXCEPT ![r].pc = "save", ![r].copy = row]
  BY DEF InsertVote
<1>3. /\ row \in Row /\ row.status = req[r].copy.status
      /\ row.yes = req[r].copy.yes + (IF "yes" = s THEN Power[w] ELSE 0)
      /\ row.no = req[r].copy.no + (IF "no" = s THEN Power[w] ELSE 0)
  <2>1. CASE s = "yes"
    BY <1>1, <2>1 DEF Row
  <2>2. CASE s = "no"
    BY <1>1, <2>2 DEF Row
  <2>3. QED
    BY <1>1, <2>1, <2>2 DEF Sides
<1> HIDE DEF row
<1>4. Others(r) /\ req'[r].pc = "save" /\ req'[r].copy = row
  BY <1>1, <1>2 DEF Others, Request
<1> HIDE DEF w, s
<1>5. QED
  BY <1>1, <1>2, <1>3, <1>4 DEF w, s

\* A vote's power goes to the tally of the copy and to the vote rows alike, and
\* alone it is the wallet's first.
LEMMA InsertVoteCounts ==
  ASSUME IInv, RowsSound, VotesCounted, NEW r \in Requests, InsertVote(r)
  PROVE  RowsSound' /\ VotesCounted'
<1>1. UNCHANGED <<db, cache, applied>> /\ req[r].pc = "insert"
  BY DEF InsertVote, At
<1>2. serial' => serial
  BY Zenon DEF InsertVote
<1>3. CASE Finish(r) /\ votes' = votes
  <2>1. Harmless(r)
    BY <1>1, <1>2, <1>3, HarmlessFinish DEF At
  <2>2. QED
    BY <2>1, HarmlessStep
<1>4. CASE ~(Finish(r) /\ votes' = votes)
  <2>0. PICK w \in Wallets, s \in Sides : w = req[r].wallet /\ s = req[r].side
    BY <1>4, VoteInserted
  <2> DEFINE y == Cast("yes")
             yy == Cast("yes")'
             n == Cast("no")
             nn == Cast("no")'
             c == req[r].copy
             cc == req'[r].copy
  <2>1. /\ c \in Row /\ votes' = [votes EXCEPT ![w][s] = @ + 1]
        /\ Others(r) /\ req'[r].pc = "save" /\ cc \in Row /\ cc.status = c.status
        /\ cc.yes = c.yes + (IF "yes" = s THEN Power[w] ELSE 0)
        /\ cc.no = c.no + (IF "no" = s THEN Power[w] ELSE 0)
    BY <1>4, <2>0, VoteInserted
  <2>2. votes \in [Wallets -> [Sides -> Nat]] /\ Power[w] \in Nat
    BY <2>1, ProposalAssumption DEF IInv, TypeOK
  <2>3. /\ yy = y + (IF "yes" = s THEN Power[w] ELSE 0)
        /\ nn = n + (IF "no" = s THEN Power[w] ELSE 0)
    <3>1. "yes" \in Sides /\ "no" \in Sides
      BY DEF Sides
    <3>2. \A side \in Sides : Cast(side)' = Cast(side) + (IF side = s THEN Power[w] ELSE 0)
      BY <2>1, <2>2, CastGrows
    <3>3. QED
      BY <3>1, <3>2
  <2>4. y \in Nat /\ n \in Nat
    BY <2>2, CastType DEF Sides
  <2>5. c # None /\ Sound(c, y, n) /\ c.status = "active"
    BY <1>1, <2>1, ProposalAssumption DEF RowsSound, SoundRequest
  <2>6. SoundRequest(req'[r], yy, nn)
    <3> HIDE DEF y, yy, n, nn, c
    <3>1. cc.yes <= yy /\ cc.no <= nn
      BY <2>1, <2>2, <2>3, <2>4, <2>5 DEF Sound, Row
    <3>2. cc.status = "active"
      BY <2>1, <2>5
    <3>3. QED
      BY <2>1, <3>1, <3>2 DEF SoundRequest, Sound
  <2>7. RowsSound'
    BY <1>1, <2>1, <2>6, RowsSoundStep
  <2>8. ASSUME serial' PROVE VotesCounted'
    <3>1. /\ \A v \in Wallets : votes[v]["yes"] + votes[v]["no"] <= 1
          /\ \A t \in Sides : votes[w][t] = 0
          /\ db # None /\ c = db
      BY <1>1, <1>2, <2>0, <2>8 DEF VotesCounted, At, IInv, CopyIsRow, Unchanged
    <3>2. \A p \in Requests : p # r => req[p].pc = "idle"
      BY <1>1, <1>2, <2>8 DEF IInv, OneAtATime, At
    <3>3. Exact(c, y, n)
      BY <1>1, <1>2, <2>8, <3>1, <3>2 DEF VotesCounted, At
    <3>4. \A p \in Requests : p # r => req'[p].pc = "idle"
      BY <2>1, <3>2 DEF Others
    <3> HIDE DEF y, yy, n, nn, c, cc
    <3>5. Exact(cc, yy, nn)
      BY <2>1, <2>3, <3>3 DEF Exact
    <3>6. \A v \in Wallets, t \in Sides :
             votes'[v][t] = IF v = w /\ t = s THEN votes[v][t] + 1 ELSE votes[v][t]
      BY <2>1, <2>2
    <3>7. ASSUME NEW v \in Wallets PROVE votes'[v]["yes"] + votes'[v]["no"] <= 1
      <4>1. "yes" \in Sides /\ "no" \in Sides /\ (s = "yes" \/ s = "no")
        BY <2>1 DEF Sides
      <4>2. votes[v]["yes"] \in Nat /\ votes[v]["no"] \in Nat
        BY <2>2, <4>1
      <4>3. CASE v = w
        BY <3>1, <3>6, <4>1, <4>2, <4>3
      <4>4. CASE v # w
        BY <3>1, <3>6, <4>1, <4>2, <4>4
      <4>5. QED
        BY <4>3, <4>4
    <3>8. QED
      BY <1>1, <2>1, <3>1, <3>4, <3>5, <3>7 DEF VotesCounted, At, y, yy, n, nn, cc
  <2>9. VotesCounted'
    BY <2>8 DEF VotesCounted
  <2>10. QED
    BY <2>7, <2>9
<1>5. QED
  BY <1>3, <1>4

\* A verdict changes the status of the copy, and never its tallies.
LEMMA Ruled ==
  ASSUME IInv, NEW r \in Requests, req[r].copy \in Row,
         \/ Conclude(r, "executed") \/ Conclude(r, "rejected")
         \/ req' = [req EXCEPT ![r].pc = "save", ![r].copy.status = "cancelled"]
  PROVE  /\ Others(r) /\ req'[r].pc = "save"
         /\ req'[r].copy.yes = req[r].copy.yes /\ req'[r].copy.no = req[r].copy.no
<1>1. req \in [Requests -> Request] /\ req[r] \in Request
  BY DEF IInv, TypeOK
<1>2. ASSUME NEW st, Conclude(r, st)
      PROVE  /\ Others(r) /\ req'[r].pc = "save"
             /\ req'[r].copy.yes = req[r].copy.yes /\ req'[r].copy.no = req[r].copy.no
  <2> DEFINE q == [req[r] EXCEPT !.pc = "save", !.copy.status = st, !.copy.executed = TRUE, !.todo = 0]
  <2>1. req'[r] = q /\ Others(r)
    BY <1>1, <1>2 DEF Conclude, Others
  <2>2. q.pc = "save" /\ q.copy.yes = req[r].copy.yes /\ q.copy.no = req[r].copy.no
    BY <1>1 DEF Request, Row
  <2>3. QED
    BY <2>1, <2>2
<1>3. CASE req' = [req EXCEPT ![r].pc = "save", ![r].copy.status = "cancelled"]
  <2> DEFINE q == [req[r] EXCEPT !.pc = "save", !.copy.status = "cancelled"]
  <2>1. req'[r] = q /\ Others(r)
    BY <1>1, <1>3 DEF Others
  <2>2. q.pc = "save" /\ q.copy.yes = req[r].copy.yes /\ q.copy.no = req[r].copy.no
    BY <1>1 DEF Request, Row
  <2>3. QED
    BY <2>1, <2>2
<1>4. QED
  BY <1>2, <1>3

\* cancelProposal saves a row that won nothing, processEndedProposals one that
\* says what its own tallies do.
LEMMA VerdictsCount ==
  ASSUME IInv, RowsSound, VotesCounted, NEW r \in Requests, CheckCancel(r) \/ Process(r)
  PROVE  RowsSound' /\ VotesCounted'
<1>1. UNCHANGED <<votes, db, cache, applied>> /\ req[r].pc \in {"got", "process"}
  BY DEF CheckCancel, Process, At
<1>2. serial' => serial
  BY Zenon DEF CheckCancel, Process
<1>3. CASE Finish(r)
  <2>1. Harmless(r)
    BY <1>1, <1>2, <1>3, HarmlessFinish DEF At
  <2>2. QED
    BY <2>1, HarmlessStep
<1>4. CASE CheckCancel(r) /\ ~Finish(r)
  <2>1. req' = [req EXCEPT ![r].pc = "save", ![r].copy.status = "cancelled"] /\ req[r].pc = "got"
    BY <1>4 DEF CheckCancel, At
  <2>2. req[r].copy \in Row /\ Sound(req[r].copy, Cast("yes"), Cast("no"))
    BY <2>1, ProposalAssumption
    DEF IInv, TypeOK, RequestOK, Holding, Unchanged, RowsSound, SoundRequest
  <2>3. /\ Others(r) /\ req'[r].pc = "save"
        /\ req'[r].copy.yes = req[r].copy.yes /\ req'[r].copy.no = req[r].copy.no
    BY <2>1, <2>2, Ruled
  <2>4. req'[r].copy.status = "cancelled"
    <3>1. req \in [Requests -> Request] /\ req[r] \in Request
      BY DEF IInv, TypeOK
    <3>2. QED
      BY <2>1, <2>2, <3>1 DEF Request, Row
  <2>5. Sound(req'[r].copy, Cast("yes"), Cast("no"))
    BY <2>2, <2>3, <2>4 DEF Sound
  <2>6. serial' => db # None /\ req[r].copy = db
    BY <1>2, <2>1 DEF IInv, CopyIsRow, Unchanged
  <2>7. QED
    BY <1>1, <1>2, <2>1, <2>3, <2>5, <2>6, VerdictStep DEF At
<1>5. CASE Process(r) /\ ~Finish(r)
  <2> DEFINE row == [db EXCEPT !.status = Outcome(db)]
  <2>1. db # None /\ req' = [req EXCEPT ![r].pc = "save", ![r].copy = row] /\ req[r].pc = "process"
    BY <1>5 DEF Process, At
  <2>2. db \in Row /\ Sound(db, Cast("yes"), Cast("no"))
    BY <2>1 DEF IInv, TypeOK, RowsSound
  <2>3. row.yes = db.yes /\ row.no = db.no /\ row.status = Outcome(db)
    BY <2>2 DEF Row
  <2>4. Outcome(db) \in {"passed", "executed"} => db.yes > db.no /\ db.yes + db.no >= quorum
    BY DEF Outcome
  <2> HIDE DEF row
  <2>5. Sound(row, Cast("yes"), Cast("no"))
    BY <2>2, <2>3, <2>4 DEF Sound
  <2>6. Others(r) /\ req'[r].pc = "save" /\ req'[r].copy = row
    <3>1. req \in [Requests -> Request] /\ req[r] \in Request
      BY DEF IInv, TypeOK
    <3>2. QED
      BY <2>1, <3>1 DEF Others, Request
  <2>7. QED
    BY <1>1, <1>2, <2>1, <2>3, <2>5, <2>6, VerdictStep DEF At
<1>6. QED
  BY <1>3, <1>4, <1>5

\* Actions run only for a passed copy, whose tallies reached the quorum and
\* count no power that was not cast.
LEMMA ExecuteCounts ==
  ASSUME IInv, RowsSound, VotesCounted, NEW r \in Requests, CheckExecute(r) \/ ExecuteAction(r)
  PROVE  RowsSound' /\ VotesCounted'
<1>1. UNCHANGED <<votes, db, cache>> /\ req[r].pc \in {"got", "act"}
  BY DEF CheckExecute, ExecuteAction, At
<1>2. serial' => serial
  BY Zenon DEF CheckExecute, ExecuteAction
<1>3. req \in [Requests -> Request] /\ req[r] \in Request /\ RequestOK(req[r])
  BY DEF IInv, TypeOK
<1>4. req[r].copy \in Row /\ Sound(req[r].copy, Cast("yes"), Cast("no"))
  BY <1>1, ProposalAssumption
  DEF IInv, TypeOK, RequestOK, Holding, Unchanged, RowsSound, SoundRequest
<1>5. CASE CheckExecute(r)
  <2>1. applied' = applied /\ req[r].pc = "got"
    BY <1>5 DEF CheckExecute, At
  <2>2. CASE Finish(r)
    <3>1. Harmless(r)
      BY <1>1, <1>2, <2>1, <2>2, HarmlessFinish DEF At
    <3>2. QED
      BY <3>1, HarmlessStep
  <2>3. CASE ~Finish(r)
    <3>1. req[r].copy.status = "passed" /\ req' = [req EXCEPT ![r].pc = "act", ![r].todo = NumActions]
      BY <1>5, <2>3 DEF CheckExecute
    <3>2. Others(r) /\ req'[r].pc = "act" /\ req'[r].copy = req[r].copy
      BY <1>3, <3>1 DEF Others, Request
    <3>3. QED
      BY <1>1, <1>2, <2>1, <3>1, <3>2, PassStep
  <2>4. QED
    BY <2>2, <2>3
<1>6. CASE ExecuteAction(r)
  <2>1. req[r].pc = "act" /\ req[r].copy.status = "passed"
    BY <1>6, <1>4, ProposalAssumption DEF ExecuteAction, At, RowsSound, SoundRequest
  <2>2. Cast("yes") + Cast("no") >= quorum
    <3>1. votes \in [Wallets -> [Sides -> Nat]] /\ quorum \in Nat
      BY ProposalAssumption DEF IInv, TypeOK
    <3>2. Cast("yes") \in Nat /\ Cast("no") \in Nat
      BY <3>1, CastType DEF Sides
    <3>3. QED
      BY <1>4, <2>1, <3>1, <3>2 DEF Sound, Row
  <2>3. CASE req' = [req EXCEPT ![r].todo = @ - 1]
    <3>1. Others(r) /\ req'[r].pc = "act" /\ req'[r].copy = req[r].copy
      BY <1>3, <2>1, <2>3 DEF Others, Request
    <3>2. QED
      BY <1>1, <1>2, <2>1, <2>2, <3>1, PassStep
  <2>4. CASE Conclude(r, "executed") \/ Conclude(r, "rejected")
    <3>1. /\ Others(r) /\ req'[r].pc = "save"
          /\ req'[r].copy.yes = req[r].copy.yes /\ req'[r].copy.no = req[r].copy.no
      BY <1>4, <2>4, Ruled
    <3>2. Sound(req'[r].copy, Cast("yes"), Cast("no"))
      BY <1>4, <2>1, <3>1 DEF Sound
    <3>3. serial' => db # None /\ req[r].copy = db
      BY <1>2, <2>1 DEF IInv, CopyIsRow, Unchanged
    <3>4. QED
      BY <1>1, <1>2, <2>1, <2>2, <3>1, <3>2, <3>3, VerdictStep DEF At
  <2>5. QED
    BY <1>6, <2>3, <2>4 DEF ExecuteAction
<1>7. QED
  BY <1>5, <1>6


\* A thrown execution saves 'rejected' next; others end. It ends the run of
\* requests that came one at a time.
LEMMA ThrownCounts ==
  ASSUME IInv, RowsSound, VotesCounted, NEW r \in Requests, req[r].pc \in {"save", "del"},
         Thrown(r), serial' = FALSE, UNCHANGED <<db, votes, cache, applied>>
  PROVE  RowsSound' /\ VotesCounted'
<1>1. CASE Finish(r)
  <2>1. Harmless(r)
    BY <1>1, HarmlessFinish
  <2>2. QED
    BY <2>1, HarmlessStep
<1>2. CASE Conclude(r, "rejected")
  <2>1. req[r].copy \in Row /\ Sound(req[r].copy, Cast("yes"), Cast("no"))
    BY ProposalAssumption DEF IInv, TypeOK, RequestOK, Holding, RowsSound, SoundRequest
  <2>2. /\ Others(r) /\ req'[r].pc = "save"
        /\ req'[r].copy.yes = req[r].copy.yes /\ req'[r].copy.no = req[r].copy.no
    BY <1>2, <2>1, Ruled
  <2>3. req'[r].copy.status = "rejected"
    <3>1. req \in [Requests -> Request] /\ req[r] \in Request
      BY DEF IInv, TypeOK
    <3>2. QED
      BY <1>2, <2>1, <3>1 DEF Conclude, Request, Row
  <2>4. Sound(req'[r].copy, Cast("yes"), Cast("no"))
    BY <2>1, <2>2, <2>3 DEF Sound
  <2>5. QED
    BY <2>2, <2>4, VerdictStep DEF At
<1>3. QED
  BY <1>1, <1>2 DEF Thrown

\* The row saved is one whose tallies the vote rows back; alone it is exact.
LEMMA SaveRowCounts ==
  ASSUME IInv, RowsSound, VotesCounted, NEW r \in Requests, SaveRow(r)
  PROVE  RowsSound' /\ VotesCounted'
<1>1. UNCHANGED <<votes, cache, applied>> /\ req[r].pc = "save"
  BY DEF SaveRow, At
<1>2. CASE Thrown(r) /\ serial' = FALSE /\ UNCHANGED db
  BY <1>1, <1>2, ThrownCounts
<1>3. CASE db' = req[r].copy /\ Move(r, "del") /\ UNCHANGED serial
  <2> DEFINE y == Cast("yes")   n == Cast("no")
  <2>1. Cast("yes")' = y /\ Cast("no")' = n
    BY <1>1 DEF Cast
  <2>2. Others(r) /\ req'[r].pc = "del" /\ req'[r].copy = req[r].copy
    BY <1>3, Moved
  <2>3. SoundRequest(req'[r], y, n)
    BY <2>2 DEF RowsSound, SoundRequest
  <2>4. RowsSound'
    BY <1>1, <1>3, <2>1, <2>2, <2>3, RowsSoundStep
  <2>5. ASSUME serial' PROVE VotesCounted'
    <3>1. serial
      BY <1>3, <2>5
    <3>2. /\ \A w \in Wallets : votes[w]["yes"] + votes[w]["no"] <= 1
          /\ Exact(req[r].copy, y, n)
      BY <1>1, <3>1 DEF VotesCounted, At
    <3>3. \A p \in Requests : p # r => req[p].pc = "idle"
      BY <1>1, <3>1 DEF IInv, OneAtATime, At
    <3>4. req[r].copy # None
      BY <1>1, ProposalAssumption DEF IInv, TypeOK, RequestOK, Holding
    <3> HIDE DEF y, n
    <3>5. \A p \in Requests : req'[p].pc \notin {"insert", "save"}
      BY <2>2, <3>3 DEF Others
    <3>6. QED
      BY <1>1, <1>3, <2>1, <3>2, <3>4, <3>5 DEF VotesCounted, At
  <2>6. VotesCounted'
    BY <2>5 DEF VotesCounted
  <2>7. QED
    BY <2>4, <2>6
<1>4. QED
  BY <1>2, <1>3 DEF SaveRow

\* Dropping the key ends the request.
LEMMA DropCacheCounts ==
  ASSUME IInv, RowsSound, VotesCounted, NEW r \in Requests, DropCache(r)
  PROVE  RowsSound' /\ VotesCounted'
<1>1. UNCHANGED <<db, votes, applied>> /\ req[r].pc = "del"
  BY DEF DropCache, At
<1>2. CASE Thrown(r) /\ serial' = FALSE /\ UNCHANGED cache
  BY <1>1, <1>2, ThrownCounts
<1>3. CASE cache' = None /\ Finish(r) /\ UNCHANGED serial
  <2>1. Harmless(r)
    BY <1>1, <1>3, HarmlessFinish DEF At
  <2>2. QED
    BY <2>1, HarmlessStep
<1>4. QED
  BY <1>2, <1>3 DEF DropCache

\* A new row has no votes, and none were cast before it.
LEMMA CreateCounts ==
  ASSUME IInv, RowsSound, VotesCounted, NEW w \in Wallets, createProposal(w)
  PROVE  RowsSound' /\ VotesCounted'
<1> DEFINE y == Cast("yes")   n == Cast("no")
<1>1. /\ db = None /\ UNCHANGED <<votes, cache, req, applied>> /\ (serial' => serial)
      /\ db'.status = "active" /\ db'.yes = 0 /\ db'.no = 0
  BY Zenon DEF createProposal
<1>2. Cast("yes")' = y /\ Cast("no")' = n
  BY <1>1 DEF Cast
<1>3. votes \in [Wallets -> [Sides -> Nat]]
  BY DEF IInv, TypeOK
<1>4. y \in Nat /\ n \in Nat
  BY <1>3, CastType DEF Sides
<1>5. ASSUME serial, NEW side \in Sides PROVE Cast(side) = 0
  <2> DEFINE f == [v \in Wallets |-> votes[v][side] * Power[v]]
  <2>1. \A v \in Wallets : votes[v][side] = 0 /\ Power[v] \in Nat
    BY <1>1, <1>5, ProposalAssumption DEF VotesCounted
  <2>2. DOMAIN f = Wallets /\ \A v \in Wallets : f[v] = 0
    BY <2>1
  <2> HIDE DEF f
  <2>3. SumFunctionOnSet(f, Wallets) = 0
    BY <2>2, SumZero, ProposalAssumption
  <2>4. QED
    BY <2>2, <2>3 DEF f, Cast, SumFunction
<1>6. serial => y = 0 /\ n = 0
  BY <1>5 DEF Sides
<1>7. /\ cache # None => Sound(cache, y, n)
      /\ \A r \in Requests : SoundRequest(req[r], y, n)
      /\ applied > 0 => y + n >= quorum
  BY DEF RowsSound
<1>8. serial => /\ \A v \in Wallets : votes[v]["yes"] + votes[v]["no"] <= 1
                /\ \A r \in Requests : At(r, "insert") => \A s \in Sides : votes[req[r].wallet][s] = 0
                /\ \A r \in Requests : At(r, "save") => Exact(req[r].copy, y, n)
                /\ \A v \in Wallets, s \in Sides : votes[v][s] = 0
  BY <1>1 DEF VotesCounted
<1> HIDE DEF y, n
<1>9. Sound(db', y, n) /\ (serial => Exact(db', y, n))
  BY <1>1, <1>4, <1>6 DEF Sound, Exact
<1>10. RowsSound'
  BY <1>1, <1>2, <1>7, <1>9 DEF RowsSound
<1>11. VotesCounted'
  BY <1>1, <1>2, <1>8, <1>9 DEF VotesCounted, At
<1>12. QED
  BY <1>10, <1>11

\* The clock, an expiry or no step at all: less is stored, nothing else changes.
LEMMA ElsewhereCounts ==
  ASSUME RowsSound, VotesCounted, UNCHANGED <<db, votes, req, applied, serial>>,
         cache' \in {cache, None}
  PROVE  RowsSound' /\ VotesCounted'
<1> DEFINE y == Cast("yes")   n == Cast("no")
<1>1. Cast("yes")' = y /\ Cast("no")' = n
  BY DEF Cast
<1>2. RowsSound'
  BY <1>1 DEF RowsSound
<1>3. VotesCounted'
  BY <1>1 DEF VotesCounted, At
<1>4. QED
  BY <1>2, <1>3

LEMMA InitCounts == Init => RowsSound /\ VotesCounted
<1> SUFFICES ASSUME Init PROVE RowsSound /\ VotesCounted
  OBVIOUS
<1>1. /\ db = None /\ cache = None /\ applied = 0 /\ req = [r \in Requests |-> Idle]
      /\ votes = [w \in Wallets |-> [s \in Sides |-> 0]]
  BY DEF Init
<1>2. Idle.pc = "idle" /\ Idle.copy = None
  BY DEF Idle
<1>3. \A r \in Requests : SoundRequest(req[r], Cast("yes"), Cast("no"))
  BY <1>1, <1>2 DEF SoundRequest
<1>4. \A w \in Wallets, s \in Sides : votes[w][s] = 0
  BY <1>1
<1>5. RowsSound
  BY <1>1, <1>3 DEF RowsSound
<1>6. VotesCounted
  BY <1>1, <1>2, <1>4 DEF VotesCounted, At, Sides
<1>7. QED
  BY <1>5, <1>6

LEMMA NextCounts == IInv /\ RowsSound /\ VotesCounted /\ [Next]_vars => RowsSound' /\ VotesCounted'
<1> SUFFICES ASSUME IInv, RowsSound, VotesCounted, [Next]_vars
             PROVE  RowsSound' /\ VotesCounted'
  OBVIOUS
<1>1. ASSUME NEW w \in Wallets, createProposal(w) PROVE RowsSound' /\ VotesCounted'
  BY <1>1, CreateCounts
<1>2. ASSUME NEW r \in Requests, NEW op, NEW w, NEW s, Arrive(r, op, w, s)
      PROVE  RowsSound' /\ VotesCounted'
  BY <1>2, HarmlessArrive, HarmlessStep
<1>3. ASSUME NEW r \in Requests, Getting(r) \/ Listing(r) PROVE RowsSound' /\ VotesCounted'
  BY <1>3, HarmlessReads, HarmlessStep DEF Getting
<1>4. ASSUME NEW r \in Requests, Voting(r) \/ Deciding(r) \/ Storing(r)
      PROVE  RowsSound' /\ VotesCounted'
  BY <1>4, VoteChecksCount, InsertVoteCounts, VerdictsCount, ExecuteCounts, SaveRowCounts,
     DropCacheCounts
  DEF Voting, Deciding, Storing
<1>5. CASE Expire \/ ExpireList \/ Tick \/ UNCHANGED vars
  BY <1>5, ElsewhereCounts DEF Expire, ExpireList, Tick, vars
<1>6. QED
  BY <1>1, <1>2, <1>3, <1>4, <1>5 DEF Next

\* The tallies, for every interleaving: what is known of every copy of the row.
LEMMA CountsHold == Spec => [](IInv /\ RowsSound /\ VotesCounted)
BY InitIInv, NextIInv, InitCounts, NextCounts, PTL DEF Spec

\* A stored tally never counts power that no vote row of its side has, however
\* the saves of votes overtake each other.
THEOREM TalliesAreBacked == Spec => []TallyWithinVotes
<1>1. RowsSound => TallyWithinVotes
  BY DEF RowsSound, Sound, TallyWithinVotes
<1>2. QED
  BY CountsHold, <1>1, PTL

\* No action runs on Starknet and no row is won without the votes for it,
\* whatever stale copies are read, judged and saved.
THEOREM ActionsAreVotedFor == Spec => []ActionsNeedQuorum
<1>1. RowsSound => ActionsNeedQuorum
  BY DEF RowsSound, Sound, ActionsNeedQuorum
<1>2. QED
  BY CountsHold, <1>1, PTL

\* While requests come one at a time both tallies are the power of the vote
\* rows, and no wallet has two of them.
THEOREM SerialTalliesAreExact == Spec => []SerialTallyExact
<1>1. VotesCounted => SerialTallyExact
  BY DEF VotesCounted, SerialTallyExact, Exact, Quiet, At
<1>2. QED
  BY CountsHold, <1>1, PTL
=============================================================================
