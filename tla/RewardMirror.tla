---------------------------- MODULE RewardMirror ----------------------------
(* RewardDistributorService and its controller: rows of rewards and of       *)
(* authorized distributors, both with generated ids.                         *)
EXTENDS MirrorDatabase

RewardEvent(name, u, a) == [name |-> name, user |-> u, amount |-> a]
Named(name) == {i \in DOMAIN log : log[i].name = name}
OfUser(name, u) == {i \in Named(name) : log[i].user = u}

\* What the events at some positions, or some rows, amount to.
Amounted(events) == SumFunction([i \in events |-> log[i].amount])
Stored(rows) == SumFunction([i \in rows |-> db.rewards[i].amount])

\* The rewards of u since u's last claim.
Unclaimed(u) ==
  {i \in OfUser("RewardDistributed", u) : \A k \in OfUser("RewardClaimed", u) : k < i}

-----------------------------------------------------------------------------
\* Reads of the contract.
getRewards(u) == Amounted(Unclaimed(u))
getTotalDistributed == Amounted(Named("RewardDistributed"))
isAuthorizedDistributor(d) ==
  \E i \in OfUser("DistributorAuthorized", d) : \A k \in OfUser("DistributorRevoked", d) : k < i

\* Reads of the tables.
getUserRewards(u, includeHistory) ==
  LET rows == {i \in DOMAIN db.rewards :
                 db.rewards[i].user = u /\ (includeHistory \/ ~db.rewards[i].claimed)}
  IN  [rewards |-> rows, onChainRewards |-> getRewards(u),
       totalUnclaimed |-> Stored({i \in rows : ~db.rewards[i].claimed})]
getAuthorizedDistributors == {i \in DOMAIN db.distributors : db.distributors[i].authorized}
getRewardStats ==
  [totalDistributed |-> getTotalDistributed,
   totalClaimed     |-> Stored({i \in DOMAIN db.rewards : db.rewards[i].claimed}),
   totalUnclaimed   |-> Stored({i \in DOMAIN db.rewards : ~db.rewards[i].claimed})]

userRewardsEndpoint(u) == getUserRewards(u, FALSE)
rewardsEndpoint(u) == getRewards(u)
totalDistributedEndpoint == getTotalDistributed
distributorsEndpoint == {db.distributors[i].user : i \in getAuthorizedDistributors}
distributorEndpoint(d) == isAuthorizedDistributor(d)

-----------------------------------------------------------------------------
\* Handlers of one statement each.
onRewardDistributed(j) ==
  LET e == jobs[j].ev IN
  /\ At(j, "onRewardDistributed", "save")
  /\ Writes(j, "rewards", Append(db.rewards, [user |-> e.user, amount |-> e.amount, claimed |-> FALSE]))

onRewardClaimed(j) ==
  /\ At(j, "onRewardClaimed", "update")
  /\ Writes(j, "rewards", [i \in DOMAIN db.rewards |->
       IF db.rewards[i].user = jobs[j].ev.user THEN [db.rewards[i] EXCEPT !.claimed = TRUE]
                                               ELSE db.rewards[i]])

\* The ids of a distributor's rows, and the first of them: what findOne finds.
RowsOf(d) == {i \in DOMAIN db.distributors : db.distributors[i].user = d}
FirstRow(d) == IF RowsOf(d) = {} THEN <<>> ELSE <<CHOOSE i \in RowsOf(d) : \A k \in RowsOf(d) : i <= k>>

\* findOne, then save of the row found or of a new one; the same in the handler and
\* in the endpoint.
FindDistributor(j) == Reads(j, "saveDistributor", FirstRow(jobs[j].ev.user))
SaveDistributor(j) ==
  LET found == jobs[j].found IN
  Writes(j, "distributors",
    IF found = <<>> THEN Append(db.distributors, [user |-> jobs[j].ev.user, authorized |-> TRUE])
                    ELSE [db.distributors EXCEPT ![found[1]].authorized = TRUE])
\* Bug form used by a mutation run: only the first row is revoked.
RevokeRows_first(j) ==
  LET first == FirstRow(jobs[j].ev.user) IN
  IF first = <<>> THEN Ends(j)
  ELSE Writes(j, "distributors", [db.distributors EXCEPT ![first[1]].authorized = FALSE])

RevokeRows(j) ==
  Writes(j, "distributors", [i \in DOMAIN db.distributors |->
    IF i \in RowsOf(jobs[j].ev.user) THEN [db.distributors[i] EXCEPT !.authorized = FALSE]
                                     ELSE db.distributors[i]])

onDistributorAuthorized(j) ==
  \/ At(j, "onDistributorAuthorized", "findDistributor") /\ FindDistributor(j)
  \/ At(j, "onDistributorAuthorized", "saveDistributor") /\ SaveDistributor(j)
onDistributorRevoked(j) == At(j, "onDistributorRevoked", "update") /\ RevokeRows(j)

-----------------------------------------------------------------------------
\* Endpoints that end with their transaction.
distributeReward(u, a) == Emits(RewardEvent("RewardDistributed", u, a), "onRewardDistributed", "save", TRUE)
claimRewards(u) ==
  /\ getRewards(u) > 0
  /\ Emits(RewardEvent("RewardClaimed", u, 0), "onRewardClaimed", "update", TRUE)

distributeEndpoint(u, a) == distributeReward(u, a)
claimEndpoint(u) == claimRewards(u)

\* Endpoints that write the table themselves after the transaction.
authorizeDistributorEndpoint(d) ==
  Calls(RewardEvent("DistributorAuthorized", d, 0), "authorizeDistributor", "tx")
authorizeDistributor(c) ==
  \/ At(c, "authorizeDistributor", "tx")
     /\ Transacts(c, "onDistributorAuthorized", "findDistributor", "findDistributor")
  \/ At(c, "authorizeDistributor", "findDistributor") /\ FindDistributor(c)
  \/ At(c, "authorizeDistributor", "saveDistributor") /\ SaveDistributor(c)

revokeDistributorEndpoint(d) ==
  Calls(RewardEvent("DistributorRevoked", d, 0), "revokeDistributor", "tx")
revokeDistributor(c) ==
  \/ At(c, "revokeDistributor", "tx") /\ Transacts(c, "onDistributorRevoked", "update", "update")
  \/ At(c, "revokeDistributor", "update") /\ RevokeRows(c)
=============================================================================
