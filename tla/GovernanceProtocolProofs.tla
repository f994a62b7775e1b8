--------------------- MODULE GovernanceProtocolProofs ----------------------
(***************************************************************************)
(* Theorems about the governance contract and the reward distributor, for  *)
(* every number of accounts and proposals, quorum, voting period and       *)
(* reward.                                                                 *)
(***************************************************************************)
EXTENDS GovernanceProtocol, Sums

USE DEF ProposalIds, vars, governanceVars, rewardVars

\* A KNT transfer between two holders keeps the ledger's type.
LEMMA TransferType ==
    ASSUME token_balance \in [Tokens -> [Holders -> Nat]],
           NEW from \in Holders, NEW to \in Holders, NEW a \in Nat,
           Token!transferFrom(Knt, from, to, a)
    PROVE  token_balance' \in [Tokens -> [Holders -> Nat]]
  <1>1. Token!Moved(token_balance[Knt], from, to, a) \in [Holders -> Nat]
    BY DEF Token!Moved, Token!transferFrom, Tokens
  <1>. QED
    BY <1>1 DEF Token!transferFrom

\* Adding a reward keeps the distributor's type.
LEMMA DistributeType ==
    ASSUME RD!RewardTypeOK, NEW d, NEW u \in Accounts, NEW a \in 0..MaxU256,
           RD!distribute_reward(d, u, a)
    PROVE  RD!RewardTypeOK'
  <1>1. rewards[u] + a \in 0..MaxU256 /\ total_distributed + a \in 0..MaxU256
    BY GovernanceAssumption DEF RD!RewardTypeOK, RD!distribute_reward
  <1>. QED
    BY <1>1 DEF RD!RewardTypeOK, RD!distribute_reward

\* What a vote writes: a typed, non-empty ballot in the voter's empty slot and,
\* in the proposal's, the same open proposal with its tallies raised.
LEMMA VoteEffect ==
    ASSUME TypeOK, NEW u \in Accounts, NEW i \in ProposalIds, NEW support \in BOOLEAN,
           CastVote(u, i, support)
    PROVE  \E p \in Gov!Proposal, b \in Gov!Vote :
              /\ proposals' = [proposals EXCEPT ![i] = p]
              /\ votes' = [votes EXCEPT ![i][u] = b]
              /\ proposal_count' = proposal_count
              /\ p.proposer = proposals[i].proposer /\ p.end_time = proposals[i].end_time
              /\ ~p.executed /\ ~p.canceled
              /\ votes[i][u].votes = 0 /\ b.votes > 0
              /\ now <= proposals[i].end_time
              /\ p.for_votes = proposals[i].for_votes + (IF b.support THEN b.votes ELSE 0)
              /\ p.against_votes = proposals[i].against_votes + (IF b.support THEN 0 ELSE b.votes)
  <1>1. proposals[i] \in Gov!Proposal
    BY DEF TypeOK, Gov!GovernanceTypeOK
  <1>2. Balance(u) \in Nat
    BY DEF TypeOK, Balance, Token!balance_of, Holders, Tokens
  <1> DEFINE b == Balance(u)
             p == Gov!Tallied(proposals[i], support, b)
             v == [support |-> support, votes |-> b]
  <1>3. Gov!cast_vote(u, i, support, b, now)
    BY DEF CastVote
  <1> HIDE DEF b
  <1>4. b \in Nat
    BY <1>2 DEF b
  <1>5. v \in Gov!Vote /\ v.votes > 0
    BY <1>1, <1>3, <1>4, GovernanceAssumption DEF Gov!cast_vote, Gov!Proposal, Gov!Vote
  <1>6. /\ p \in Gov!Proposal
        /\ p.proposer = proposals[i].proposer /\ p.end_time = proposals[i].end_time
        /\ ~p.executed /\ ~p.canceled
        /\ p.for_votes = proposals[i].for_votes + (IF v.support THEN v.votes ELSE 0)
        /\ p.against_votes = proposals[i].against_votes + (IF v.support THEN 0 ELSE v.votes)
    <2>1. CASE support
      <3>1. proposals[i].for_votes + b \in 0..MaxU256
        BY <1>1, <1>3, <1>4, <2>1, GovernanceAssumption DEF Gov!cast_vote, Gov!Proposal
      <3>. QED
        BY <1>1, <1>3, <1>4, <2>1, <3>1, GovernanceAssumption DEF Gov!cast_vote, Gov!Tallied, Gov!Open, Gov!Proposal
    <2>2. CASE ~support
      <3>1. proposals[i].against_votes + b \in 0..MaxU256
        BY <1>1, <1>3, <1>4, <2>2, GovernanceAssumption DEF Gov!cast_vote, Gov!Proposal
      <3>. QED
        BY <1>1, <1>3, <1>4, <2>2, <3>1, GovernanceAssumption DEF Gov!cast_vote, Gov!Tallied, Gov!Open, Gov!Proposal
    <2>. QED  BY <2>1, <2>2
  <1>7. /\ proposals' = [proposals EXCEPT ![i] = p]
        /\ votes' = [votes EXCEPT ![i][u] = v]
        /\ proposal_count' = proposal_count
        /\ votes[i][u].votes = 0
        /\ now <= proposals[i].end_time
    BY <1>3 DEF Gov!cast_vote
  <1> HIDE DEF p, v
  <1>. QED  BY <1>5, <1>6, <1>7

\* What a proposal writes: one fresh record in the next slot.
LEMMA ProposeEffect ==
    ASSUME TypeOK, NEW u \in Accounts, Propose(u)
    PROVE  \E p \in Gov!Proposal :
              /\ proposals' = [proposals EXCEPT ![proposal_count] = p]
              /\ proposal_count \in ProposalIds
              /\ proposal_count' = proposal_count + 1
              /\ votes' = votes
              /\ p.proposer = u /\ ~p.executed
              /\ p.for_votes = 0 /\ p.against_votes = 0
  <1> DEFINE p == [Gov!NoProposal EXCEPT !.proposer = u, !.start_time = now,
                                         !.end_time = now + voting_period]
  <1>1. now + voting_period \in Nat /\ now \in Nat
    BY GovernanceAssumption DEF TypeOK
  <1>2. /\ Gov!NoProposal \in Gov!Proposal /\ ~Gov!NoProposal.executed
        /\ Gov!NoProposal.for_votes = 0 /\ Gov!NoProposal.against_votes = 0
    BY GovernanceAssumption DEF Gov!NoProposal, Gov!Proposal
  <1>3. /\ p \in Gov!Proposal /\ p.proposer = u /\ ~p.executed
        /\ p.for_votes = 0 /\ p.against_votes = 0
    BY <1>1, <1>2 DEF Gov!Proposal
  <1>4. Gov!propose(u, Balance(u), now)
    BY DEF Propose
  <1>5. /\ proposals' = [proposals EXCEPT ![proposal_count] = p]
        /\ proposal_count \in ProposalIds
        /\ proposal_count' = proposal_count + 1
        /\ votes' = votes
    BY <1>4 DEF Gov!propose
  <1> HIDE DEF p
  <1>. QED  BY <1>3, <1>5

\* Executing or canceling sets one flag of one open proposal.
LEMMA SettleEffect ==
    ASSUME TypeOK, NEW i \in ProposalIds,
           Execute(i) \/ \E u \in Accounts : Cancel(u, i)
    PROVE  \E p \in Gov!Proposal :
              /\ proposals' = [proposals EXCEPT ![i] = p]
              /\ votes' = votes /\ proposal_count' = proposal_count
              /\ p.proposer = proposals[i].proposer
              /\ p.end_time = proposals[i].end_time
              /\ p.for_votes = proposals[i].for_votes
              /\ p.against_votes = proposals[i].against_votes
              /\ Gov!Open(proposals[i])
              /\ \/ /\ Passed(i) /\ ~p.canceled
                    /\ p = [proposals[i] EXCEPT !.executed = TRUE]
                 \/ /\ ~p.executed /\ now <= proposals[i].end_time
                    /\ proposals[i].proposer \in Accounts
  <1>1. proposals[i] \in Gov!Proposal
    BY DEF TypeOK, Gov!GovernanceTypeOK
  <1>2. CASE Execute(i)
    <2>1. [proposals[i] EXCEPT !.executed = TRUE] \in Gov!Proposal
      BY <1>1 DEF Gov!Proposal
    <2>. QED
      BY <1>1, <1>2, <2>1 DEF Execute, Gov!execute_proposal, Gov!Open, Gov!Proposal, Passed
  <1>3. CASE \E u \in Accounts : Cancel(u, i)
    <2>1. [proposals[i] EXCEPT !.canceled = TRUE] \in Gov!Proposal
      BY <1>1 DEF Gov!Proposal
    <2>. QED
      BY <1>1, <1>3, <2>1 DEF Cancel, Gov!cancel_proposal, Gov!Open, Gov!Proposal
  <1>. QED  BY <1>2, <1>3

\* Every reachable storage of the two contracts is well typed.
THEOREM TypeCorrect == Spec => []TypeOK
  <1>1. Init => TypeOK
    BY GovernanceAssumption
    DEF Init, TypeOK, Gov!GovernanceInit, Gov!GovernanceTypeOK, Gov!NoProposal, Gov!NoVote,
        Gov!Proposal, Gov!Vote, RD!RewardInit, RD!RewardTypeOK
  <1>2. TypeOK /\ [Next]_vars => TypeOK'
    <2> SUFFICES ASSUME TypeOK, [Next]_vars PROVE TypeOK'
      OBVIOUS
    <2>0. /\ proposals \in [ProposalIds -> Gov!Proposal]
          /\ votes \in [ProposalIds -> [Accounts -> Gov!Vote]]
          /\ proposal_count \in Nat
      BY DEF TypeOK, Gov!GovernanceTypeOK
    <2>1. ASSUME NEW u \in Accounts, Propose(u) PROVE TypeOK'
      <3>1. Gov!GovernanceTypeOK'
        BY <2>0, <2>1, ProposeEffect, GovernanceAssumption DEF Gov!GovernanceTypeOK
      <3>2. RD!RewardTypeOK'
        BY <2>1, DistributeType, GovernanceAssumption DEF Propose, TypeOK
      <3>. QED  BY <2>1, <3>1, <3>2 DEF Propose, TypeOK
    <2>2. ASSUME NEW u \in Accounts, NEW i \in ProposalIds, NEW support \in BOOLEAN,
                 CastVote(u, i, support)
          PROVE  TypeOK'
      <3>1. PICK p \in Gov!Proposal, b \in Gov!Vote :
               /\ proposals' = [proposals EXCEPT ![i] = p]
               /\ votes' = [votes EXCEPT ![i][u] = b]
               /\ proposal_count' = proposal_count
        BY <2>2, VoteEffect
      <3>3. votes' \in [ProposalIds -> [Accounts -> Gov!Vote]]
        BY <2>0, <3>1
      <3>4. proposals' \in [ProposalIds -> Gov!Proposal]
        BY <2>0, <3>1
      <3>5. proposal_count' = proposal_count
        BY <3>1
      <3>6. RD!RewardTypeOK'
        BY <2>2, DistributeType, GovernanceAssumption DEF CastVote, TypeOK
      <3>. QED
        BY <2>0, <2>2, <3>3, <3>4, <3>5, <3>6 DEF CastVote, TypeOK, Gov!GovernanceTypeOK
    <2>3. ASSUME NEW i \in ProposalIds, Execute(i) \/ \E u \in Accounts : Cancel(u, i)
          PROVE  TypeOK'
      <3>1. Gov!GovernanceTypeOK'
        BY <2>0, <2>3, SettleEffect DEF Gov!GovernanceTypeOK
      <3>. QED
        BY <2>3, <3>1 DEF Execute, Cancel, TypeOK, RD!RewardTypeOK
    <2>4. ASSUME NEW u \in Accounts, NEW d \in Distributors, Authorize(u, d) \/ Revoke(u, d)
          PROVE  TypeOK'
      BY <2>0, <2>4 DEF Authorize, Revoke, RD!authorize_distributor, RD!revoke_distributor,
                        TypeOK, Gov!GovernanceTypeOK, RD!RewardTypeOK
    <2>5. ASSUME NEW d \in Distributors, NEW u \in Accounts, NEW a \in GiftAmounts,
                 Distribute(d, u, a)
          PROVE  TypeOK'
      <3>1. a \in 0..MaxU256 /\ a \in Nat
        BY GovernanceAssumption
      <3>2. RD!RewardTypeOK'
        BY <2>5, <3>1, DistributeType DEF Distribute, TypeOK
      <3>. QED
        BY <2>5, <3>1, <3>2 DEF Distribute, TypeOK, Gov!GovernanceTypeOK
    <2>6. ASSUME NEW u \in Accounts, Claim(u) PROVE TypeOK'
      <3>1. rewards[u] \in 0..MaxU256 /\ rewards[u] \in Nat
        BY GovernanceAssumption DEF TypeOK, RD!RewardTypeOK
      <3>2. token_balance' \in [Tokens -> [Holders -> Nat]]
        BY <2>6, <3>1, TransferType DEF Claim, TypeOK, Holders
      <3>3. RD!RewardTypeOK'
        BY <2>6, <3>1, GovernanceAssumption DEF Claim, RD!claim_rewards, TypeOK, RD!RewardTypeOK
      <3>. QED
        BY <2>6, <3>2, <3>3 DEF Claim, TypeOK, Gov!GovernanceTypeOK
    <2>7. ASSUME NEW from \in Accounts, NEW to \in Holders, NEW a \in TransferAmounts,
                 TokenTransfer(from, to, a)
          PROVE  TypeOK'
      <3>1. a \in Nat /\ from \in Holders
        BY GovernanceAssumption DEF Holders
      <3>2. token_balance' \in [Tokens -> [Holders -> Nat]]
        BY <2>7, <3>1, TransferType DEF TokenTransfer, TypeOK
      <3>. QED
        BY <2>7, <3>2 DEF TokenTransfer, TypeOK, Gov!GovernanceTypeOK, RD!RewardTypeOK
    <2>8. CASE NextBlock
      BY <2>8 DEF NextBlock, TypeOK, Gov!GovernanceTypeOK, RD!RewardTypeOK
    <2>9. CASE UNCHANGED vars
      BY <2>9 DEF TypeOK, Gov!GovernanceTypeOK, RD!RewardTypeOK
    <2>. QED
      BY <2>1, <2>2, <2>3, <2>4, <2>5, <2>6, <2>7, <2>8, <2>9 DEF Next
  <1>. QED  BY <1>1, <1>2, PTL DEF Spec

\* Proposals that were never created stay blank, so no vote, execution or
\* cancellation ever touches one.
THEOREM UnusedIdsStayBlank == Spec => []UnusedIdsBlank
  <1>1. Init => UnusedIdsBlank
    BY DEF Init, Gov!GovernanceInit, Gov!NoVote, UnusedIdsBlank
  <1>2. TypeOK /\ UnusedIdsBlank /\ [Next]_vars => UnusedIdsBlank'
    <2> SUFFICES ASSUME TypeOK, UnusedIdsBlank, [Next]_vars PROVE UnusedIdsBlank'
      OBVIOUS
    <2> USE DEF UnusedIdsBlank
    <2>0. /\ proposals \in [ProposalIds -> Gov!Proposal]
          /\ votes \in [ProposalIds -> [Accounts -> Gov!Vote]]
          /\ proposal_count \in Nat /\ now \in Nat \ {0}
      BY DEF TypeOK, Gov!GovernanceTypeOK
    <2>1. ASSUME NEW u \in Accounts, Propose(u) PROVE UnusedIdsBlank'
      <3>1. PICK p \in Gov!Proposal :
               /\ proposals' = [proposals EXCEPT ![proposal_count] = p]
               /\ proposal_count \in ProposalIds
               /\ proposal_count' = proposal_count + 1
               /\ votes' = votes
               /\ p.proposer = u
        BY <2>1, ProposeEffect
      <3>2. ASSUME NEW j \in ProposalIds, j >= proposal_count'
            PROVE  proposals'[j] = Gov!NoProposal /\ \A v \in Accounts : votes'[j][v].votes = 0
        BY <2>0, <3>1, <3>2
      <3>3. ASSUME NEW j \in ProposalIds, j < proposal_count'
            PROVE  proposals'[j].proposer \in Accounts
        <4>1. CASE j = proposal_count
          BY <2>0, <3>1, <4>1
        <4>2. CASE j # proposal_count
          BY <2>0, <3>1, <3>3, <4>2
        <4>. QED  BY <4>1, <4>2
      <3>. QED  BY <3>2, <3>3
    <2>2. ASSUME NEW u \in Accounts, NEW i \in ProposalIds, NEW support \in BOOLEAN,
                 CastVote(u, i, support)
          PROVE  UnusedIdsBlank'
      <3>0. PICK p \in Gov!Proposal, b \in Gov!Vote :
               /\ proposals' = [proposals EXCEPT ![i] = p]
               /\ votes' = [votes EXCEPT ![i][u] = b]
               /\ proposal_count' = proposal_count
               /\ p.proposer = proposals[i].proposer
               /\ now <= proposals[i].end_time
        BY <2>2, VoteEffect
      <3>1. i < proposal_count
        <4>1. SUFFICES ASSUME i >= proposal_count PROVE FALSE
          BY <2>0
        <4>2. proposals[i].end_time = 0
          BY <4>1 DEF Gov!NoProposal
        <4>. QED  BY <2>0, <3>0, <4>2
      <3>3. \A j \in ProposalIds : j # i => proposals'[j] = proposals[j] /\ votes'[j] = votes[j]
        BY <2>0, <3>0
      <3>4. proposals'[i].proposer = proposals[i].proposer
        BY <2>0, <3>0
      <3>. QED  BY <2>0, <3>0, <3>1, <3>3, <3>4
    <2>3. ASSUME NEW i \in ProposalIds, Execute(i) \/ \E u \in Accounts : Cancel(u, i)
          PROVE  UnusedIdsBlank'
      <3>1. i < proposal_count
        <4>1. SUFFICES ASSUME i >= proposal_count PROVE FALSE
          BY <2>0
        <4>2. ~Passed(i) /\ proposals[i].proposer \notin Accounts
          BY <4>1, GovernanceAssumption DEF Gov!NoProposal, Passed
        <4>. QED  BY <2>3, <4>2, SettleEffect
      <3>2. PICK p \in Gov!Proposal :
               /\ proposals' = [proposals EXCEPT ![i] = p]
               /\ votes' = votes /\ proposal_count' = proposal_count
               /\ p.proposer = proposals[i].proposer
        BY <2>3, SettleEffect
      <3>. QED  BY <2>0, <3>1, <3>2
    <2>4. CASE UNCHANGED governanceVars
      BY <2>4
    <2>. QED
      BY <2>1, <2>2, <2>3, <2>4
      DEF Next, Authorize, Revoke, Distribute, Claim, TokenTransfer, NextBlock
  <1>. QED  BY <1>1, <1>2, TypeCorrect, PTL DEF Spec

\* The action formulas under the two action properties.
KeepsVotes ==
    \A i \in ProposalIds, u \in Accounts : votes[i][u].votes > 0 => votes'[i][u] = votes[i][u]

KeepsOutcome ==
    \A i \in ProposalIds :
        i < proposal_count /\ now > proposals[i].end_time =>
           proposals'[i] \in {proposals[i], [proposals[i] EXCEPT !.executed = TRUE]}

\* A recorded vote is never changed, so no account is counted twice.
THEOREM VotesAreFinal == Spec => VoteIsFinal
  <1>1. TypeOK /\ [Next]_vars => [KeepsVotes]_vars
    <2> SUFFICES ASSUME TypeOK, Next PROVE KeepsVotes
      OBVIOUS
    <2> USE DEF KeepsVotes
    <2>0. votes \in [ProposalIds -> [Accounts -> Gov!Vote]]
      BY DEF TypeOK, Gov!GovernanceTypeOK
    <2>1. ASSUME NEW u \in Accounts, NEW i \in ProposalIds, NEW support \in BOOLEAN,
                 CastVote(u, i, support)
          PROVE  KeepsVotes
      <3>1. PICK b \in Gov!Vote :
               /\ votes' = [votes EXCEPT ![i][u] = b]
               /\ votes[i][u].votes = 0
        BY <2>1, VoteEffect
      <3>. QED  BY <2>0, <3>1
    <2>2. CASE votes' = votes
      BY <2>2
    <2>. QED
      BY <2>1, <2>2
      DEF Next, Propose, Gov!propose, Execute, Gov!execute_proposal, Cancel, Gov!cancel_proposal,
          Authorize, Revoke, Distribute, Claim, TokenTransfer, NextBlock
  <1>. QED  BY <1>1, TypeCorrect, PTL DEF Spec, VoteIsFinal, KeepsVotes

\* After its end a proposal can only be executed: its tallies are frozen and
\* it can no longer be canceled.
THEOREM OutcomesAreFinal == Spec => OutcomeIsFinal
  <1>1. TypeOK /\ [Next]_vars => [KeepsOutcome]_vars
    <2> SUFFICES ASSUME TypeOK, Next, NEW j \in ProposalIds,
                        j < proposal_count, now > proposals[j].end_time
                 PROVE  proposals'[j] \in {proposals[j], [proposals[j] EXCEPT !.executed = TRUE]}
      BY DEF KeepsOutcome
    <2>0. /\ proposals \in [ProposalIds -> Gov!Proposal] /\ proposal_count \in Nat /\ now \in Nat
          /\ \A i \in ProposalIds : proposals[i].end_time \in Nat
      BY DEF TypeOK, Gov!GovernanceTypeOK, Gov!Proposal
    <2>1. ASSUME NEW u \in Accounts, Propose(u) PROVE proposals'[j] = proposals[j]
      BY <2>0, <2>1 DEF Propose, Gov!propose
    <2>2. ASSUME NEW u \in Accounts, NEW i \in ProposalIds, NEW support \in BOOLEAN,
                 CastVote(u, i, support)
          PROVE  proposals'[j] = proposals[j]
      <3>1. PICK p \in Gov!Proposal :
               /\ proposals' = [proposals EXCEPT ![i] = p]
               /\ now <= proposals[i].end_time
        BY <2>2, VoteEffect
      <3>2. i # j
        BY <2>0, <3>1
      <3>. QED  BY <2>0, <3>1, <3>2
    <2>3. ASSUME NEW i \in ProposalIds, Execute(i) \/ \E u \in Accounts : Cancel(u, i)
          PROVE  proposals'[j] \in {proposals[j], [proposals[j] EXCEPT !.executed = TRUE]}
      <3>1. PICK p \in Gov!Proposal :
               /\ proposals' = [proposals EXCEPT ![i] = p]
               /\ \/ p = [proposals[i] EXCEPT !.executed = TRUE]
                  \/ now <= proposals[i].end_time
        BY <2>3, SettleEffect
      <3>. QED  BY <2>0, <3>1
    <2>4. CASE proposals' = proposals
      BY <2>4
    <2>. QED
      BY <2>1, <2>2, <2>3, <2>4
      DEF Next, Authorize, Revoke, Distribute, Claim, TokenTransfer, NextBlock
  <1>. QED  BY <1>1, TypeCorrect, PTL DEF Spec, OutcomeIsFinal, KeepsOutcome

\* An executed proposal was voted on to the end, reached the quorum, was won
\* and was not canceled, and no later step can make that false.
THEOREM OnlyPassedIsExecuted == Spec => []ExecutedPassed
  <1>1. Init => ExecutedPassed
    BY DEF Init, Gov!GovernanceInit, Gov!NoProposal, ExecutedPassed
  <1>2. TypeOK /\ UnusedIdsBlank /\ ExecutedPassed /\ [Next]_vars => ExecutedPassed'
    <2> SUFFICES ASSUME TypeOK, UnusedIdsBlank, ExecutedPassed, [Next]_vars,
                        NEW j \in ProposalIds, proposals'[j].executed
                 PROVE  Passed(j)' /\ ~proposals'[j].canceled /\ j < proposal_count'
      BY DEF ExecutedPassed
    <2>0. /\ proposals \in [ProposalIds -> Gov!Proposal] /\ proposal_count \in Nat /\ now \in Nat
          /\ \A i \in ProposalIds : proposals[i].end_time \in Nat
      BY DEF TypeOK, Gov!GovernanceTypeOK, Gov!Proposal
    <2>1. CASE proposals'[j] = proposals[j] /\ now' >= now /\ now' \in Nat
               /\ proposal_count' >= proposal_count /\ proposal_count' \in Nat
      BY <2>0, <2>1 DEF ExecutedPassed, Passed
    <2>2. ASSUME NEW u \in Accounts, Propose(u)
          PROVE  Passed(j)' /\ ~proposals'[j].canceled /\ j < proposal_count'
      <3>1. PICK p \in Gov!Proposal :
               /\ proposals' = [proposals EXCEPT ![proposal_count] = p]
               /\ proposal_count \in ProposalIds
               /\ proposal_count' = proposal_count + 1
               /\ ~p.executed
        BY <2>2, ProposeEffect
      <3>2. proposals'[j] = proposals[j]
        BY <2>0, <3>1
      <3>3. now' = now
        BY <2>2 DEF Propose
      <3>. QED  BY <2>0, <2>1, <3>1, <3>2, <3>3
    <2>3. ASSUME NEW u \in Accounts, NEW i \in ProposalIds, NEW support \in BOOLEAN,
                 CastVote(u, i, support)
          PROVE  Passed(j)' /\ ~proposals'[j].canceled /\ j < proposal_count'
      <3>1. PICK p \in Gov!Proposal :
               /\ proposals' = [proposals EXCEPT ![i] = p]
               /\ proposal_count' = proposal_count
               /\ ~p.executed
        BY <2>3, VoteEffect
      <3>2. proposals'[j] = proposals[j] /\ now' = now
        BY <2>0, <2>3, <3>1 DEF CastVote
      <3>. QED  BY <2>0, <2>1, <3>1, <3>2
    <2>4. ASSUME NEW i \in ProposalIds, Execute(i) \/ \E u \in Accounts : Cancel(u, i)
          PROVE  Passed(j)' /\ ~proposals'[j].canceled /\ j < proposal_count'
      <3>1. PICK p \in Gov!Proposal :
               /\ proposals' = [proposals EXCEPT ![i] = p]
               /\ proposal_count' = proposal_count
               /\ p.end_time = proposals[i].end_time
               /\ p.for_votes = proposals[i].for_votes
               /\ p.against_votes = proposals[i].against_votes
               /\ \/ Passed(i) /\ ~p.canceled
                  \/ ~p.executed
        BY <2>4, SettleEffect
      <3>2. now' = now
        BY <2>4 DEF Execute, Cancel
      <3>3. CASE i # j
        <4>1. proposals'[j] = proposals[j]
          BY <2>0, <3>1, <3>3
        <4>. QED  BY <2>0, <2>1, <3>1, <3>2, <4>1
      <3>4. CASE i = j
        <4>1. proposals'[j] = p /\ Passed(j) /\ ~p.canceled
          BY <2>0, <3>1, <3>4
        <4>2. Passed(j)'
          BY <2>0, <3>1, <3>2, <3>4, <4>1 DEF Passed
        <4>3. j < proposal_count
          <5>1. SUFFICES ASSUME j >= proposal_count PROVE FALSE
            BY <2>0
          <5>. QED  BY <4>1, <5>1 DEF UnusedIdsBlank, Gov!NoProposal, Passed
        <4>. QED  BY <3>1, <4>1, <4>2, <4>3
      <3>. QED  BY <3>3, <3>4
    <2>5. CASE UNCHANGED governanceVars /\ now' >= now /\ now' \in Nat
      BY <2>0, <2>1, <2>5
    <2>. QED
      BY <2>0, <2>2, <2>3, <2>4, <2>5
      DEF Next, Authorize, Revoke, Distribute, Claim, TokenTransfer, NextBlock
  <1>. QED  BY <1>1, <1>2, TypeCorrect, UnusedIdsStayBlank, PTL DEF Spec

-----------------------------------------------------------------------------
\* The sum of a side moves with the one ballot a step records.
LEMMA CastChange ==
    ASSUME TypeOK, TypeOK', NEW i \in ProposalIds, NEW u \in Accounts, NEW side \in BOOLEAN,
           \A v \in Accounts \ {u} : votes'[i][v] = votes[i][v]
    PROVE  /\ SumFunction(Cast(i, side))'
                = SumFunction(Cast(i, side)) + Cast(i, side)'[u] - Cast(i, side)[u]
           /\ SumFunction(Cast(i, side)) \in Int
           /\ Cast(i, side)'[u] \in Int /\ Cast(i, side)[u] \in Int
  <1>1. \A v \in Accounts : votes[i][v].votes \in Int /\ votes'[i][v].votes \in Int
    BY GovernanceAssumption DEF TypeOK, Gov!GovernanceTypeOK, Gov!Vote
  <1>2. \A v \in Accounts : Cast(i, side)[v] \in Int /\ Cast(i, side)'[v] \in Int
    BY <1>1 DEF Cast
  <1>3. \A v \in Accounts \ {u} : Cast(i, side)[v] = Cast(i, side)'[v]
    BY DEF Cast
  <1>4. SumFunctionOnSet(Cast(i, side)', Accounts)
          = SumFunctionOnSet(Cast(i, side), Accounts) + Cast(i, side)'[u] - Cast(i, side)[u]
    BY <1>2, <1>3, SumChange, GovernanceAssumption
  <1>5. SumFunctionOnSet(Cast(i, side), Accounts) \in Int
    BY <1>2, SumInt, GovernanceAssumption
  <1>. QED
    BY <1>2, <1>4, <1>5 DEF Cast, SumFunction

\* The tallies of every proposal are the sums of the votes recorded for the two
\* sides, for any number of accounts.
THEOREM TalliesAreExact == Spec => []TalliesMatchVotes
  <1>1. Init => TalliesMatchVotes
    <2> SUFFICES ASSUME Init, NEW i \in ProposalIds
                 PROVE  /\ proposals[i].for_votes = SumFunction(Cast(i, TRUE))
                        /\ proposals[i].against_votes = SumFunction(Cast(i, FALSE))
      BY DEF TalliesMatchVotes
    <2>1. \A side \in BOOLEAN, u \in Accounts : Cast(i, side)[u] = 0
      BY DEF Init, Gov!GovernanceInit, Gov!NoVote, Cast
    <2>2. \A side \in BOOLEAN : SumFunctionOnSet(Cast(i, side), Accounts) = 0
      BY <2>1, SumZero, GovernanceAssumption
    <2>3. \A side \in BOOLEAN : SumFunction(Cast(i, side)) = 0
      BY <2>2 DEF SumFunction, Cast
    <2>. QED
      BY <2>3 DEF Init, Gov!GovernanceInit, Gov!NoProposal
  <1>2. TypeOK /\ TypeOK' /\ UnusedIdsBlank /\ TalliesMatchVotes /\ [Next]_vars => TalliesMatchVotes'
    <2> SUFFICES ASSUME TypeOK, TypeOK', UnusedIdsBlank, TalliesMatchVotes, [Next]_vars,
                        NEW j \in ProposalIds
                 PROVE  /\ proposals'[j].for_votes = SumFunction(Cast(j, TRUE))'
                        /\ proposals'[j].against_votes = SumFunction(Cast(j, FALSE))'
      BY DEF TalliesMatchVotes
    <2>0. /\ proposals \in [ProposalIds -> Gov!Proposal]
          /\ votes \in [ProposalIds -> [Accounts -> Gov!Vote]]
          /\ proposal_count \in Nat
          /\ proposals[j].for_votes = SumFunction(Cast(j, TRUE))
          /\ proposals[j].against_votes = SumFunction(Cast(j, FALSE))
      BY DEF TypeOK, Gov!GovernanceTypeOK, TalliesMatchVotes
    <2>1. CASE votes'[j] = votes[j] /\ proposals'[j].for_votes = proposals[j].for_votes
                /\ proposals'[j].against_votes = proposals[j].against_votes
      BY <2>0, <2>1 DEF Cast
    <2>2. ASSUME NEW u \in Accounts, Propose(u)
          PROVE  votes'[j] = votes[j] /\ proposals'[j].for_votes = proposals[j].for_votes
                 /\ proposals'[j].against_votes = proposals[j].against_votes
      <3>1. PICK p \in Gov!Proposal :
               /\ proposals' = [proposals EXCEPT ![proposal_count] = p]
               /\ votes' = votes
               /\ p.for_votes = 0 /\ p.against_votes = 0
        BY <2>2, ProposeEffect
      <3>2. CASE j = proposal_count
        <4>1. proposals[j].for_votes = 0 /\ proposals[j].against_votes = 0
          <5>1. j >= proposal_count
            BY <2>0, <3>2
          <5>2. proposals[j] = Gov!NoProposal
            BY <5>1 DEF UnusedIdsBlank
          <5>. QED  BY <5>2 DEF Gov!NoProposal
        <4>. QED  BY <2>0, <3>1, <3>2, <4>1
      <3>3. CASE j # proposal_count
        BY <2>0, <3>1, <3>3
      <3>. QED  BY <3>2, <3>3
    <2>3. ASSUME NEW u \in Accounts, NEW i \in ProposalIds, NEW support \in BOOLEAN,
                 CastVote(u, i, support)
          PROVE  /\ proposals'[j].for_votes = SumFunction(Cast(j, TRUE))'
                 /\ proposals'[j].against_votes = SumFunction(Cast(j, FALSE))'
      <3>1. PICK p \in Gov!Proposal, b \in Gov!Vote :
               /\ proposals' = [proposals EXCEPT ![i] = p]
               /\ votes' = [votes EXCEPT ![i][u] = b]
               /\ votes[i][u].votes = 0
               /\ p.for_votes = proposals[i].for_votes + (IF b.support THEN b.votes ELSE 0)
               /\ p.against_votes = proposals[i].against_votes + (IF b.support THEN 0 ELSE b.votes)
        BY <2>3, VoteEffect
      <3>2. CASE i # j
        BY <2>0, <2>1, <3>1, <3>2
      <3>3. CASE i = j
        <4>1. /\ votes'[j][u] = b /\ proposals'[j] = p
              /\ \A v \in Accounts \ {u} : votes'[j][v] = votes[j][v]
          BY <2>0, <3>1, <3>3
        <4>2. /\ Cast(j, TRUE)[u] = 0 /\ Cast(j, FALSE)[u] = 0
          BY <3>1, <3>3 DEF Cast
        <4>3. b.support \in BOOLEAN /\ b.votes \in Int
          BY GovernanceAssumption DEF Gov!Vote
        <4>4. /\ Cast(j, TRUE)'[u] = IF b.support THEN b.votes ELSE 0
              /\ Cast(j, FALSE)'[u] = IF b.support THEN 0 ELSE b.votes
          <5>1. CASE b.support
            BY <4>1, <5>1 DEF Cast
          <5>2. CASE ~b.support
            BY <4>1, <4>3, <5>2 DEF Cast
          <5>. QED  BY <5>1, <5>2
        <4>5. /\ SumFunction(Cast(j, TRUE))' = SumFunction(Cast(j, TRUE)) + Cast(j, TRUE)'[u]
              /\ SumFunction(Cast(j, FALSE))' = SumFunction(Cast(j, FALSE)) + Cast(j, FALSE)'[u]
          <5>1. ASSUME NEW side \in BOOLEAN, Cast(j, side)[u] = 0
                PROVE  SumFunction(Cast(j, side))' = SumFunction(Cast(j, side)) + Cast(j, side)'[u]
            <6>1. /\ SumFunction(Cast(j, side))'
                        = SumFunction(Cast(j, side)) + Cast(j, side)'[u] - Cast(j, side)[u]
                  /\ SumFunction(Cast(j, side)) \in Int /\ Cast(j, side)'[u] \in Int
              BY <4>1, CastChange
            <6>. QED  BY <5>1, <6>1
          <5>. QED  BY <4>2, <5>1
        <4>. QED  BY <2>0, <3>1, <3>3, <4>1, <4>4, <4>5
      <3>. QED  BY <3>2, <3>3
    <2>4. ASSUME NEW i \in ProposalIds, Execute(i) \/ \E u \in Accounts : Cancel(u, i)
          PROVE  votes'[j] = votes[j] /\ proposals'[j].for_votes = proposals[j].for_votes
                 /\ proposals'[j].against_votes = proposals[j].against_votes
      BY <2>0, <2>4, SettleEffect
    <2>5. CASE UNCHANGED governanceVars
      BY <2>1, <2>5
    <2>. QED
      BY <2>1, <2>2, <2>3, <2>4, <2>5
      DEF Next, Authorize, Revoke, Distribute, Claim, TokenTransfer, NextBlock
  <1>. QED  BY <1>1, <1>2, TypeCorrect, UnusedIdsStayBlank, PTL DEF Spec

\* The sum of what is owed moves with the one account a step changes.
LEMMA OwedChange ==
    ASSUME TypeOK, TypeOK', NEW u \in Accounts,
           \A v \in Accounts \ {u} : rewards'[v] = rewards[v]
    PROVE  /\ SumFunction(rewards)' = SumFunction(rewards) + rewards'[u] - rewards[u]
           /\ SumFunction(rewards) \in Int /\ rewards'[u] \in Int /\ rewards[u] \in Int
  <1>1. /\ DOMAIN rewards = Accounts /\ DOMAIN rewards' = Accounts
        /\ \A v \in Accounts : rewards[v] \in Int /\ rewards'[v] \in Int
    BY GovernanceAssumption DEF TypeOK, RD!RewardTypeOK
  <1>2. SumFunctionOnSet(rewards', Accounts)
          = SumFunctionOnSet(rewards, Accounts) + rewards'[u] - rewards[u]
    BY <1>1, SumChange, GovernanceAssumption
  <1>3. SumFunctionOnSet(rewards, Accounts) \in Int
    BY <1>1, SumInt, GovernanceAssumption
  <1>. QED
    BY <1>1, <1>2, <1>3 DEF SumFunction

\* What is owed grows by what a distribution adds to the total.
LEMMA DistributionOwed ==
    ASSUME TypeOK, TypeOK', RewardLedger, NEW d, NEW u \in Accounts, NEW a \in Nat,
           RD!distribute_reward(d, u, a)
    PROVE  RewardLedger'
  <1>1. /\ rewards'[u] = rewards[u] + a
        /\ total_distributed' = total_distributed + a /\ claimed' = claimed
        /\ \A v \in Accounts \ {u} : rewards'[v] = rewards[v]
    BY DEF RD!distribute_reward, TypeOK, RD!RewardTypeOK
  <1>2. claimed \in Nat /\ total_distributed = claimed + SumFunction(rewards)
    BY DEF TypeOK, RD!RewardTypeOK, RewardLedger
  <1>3. /\ SumFunction(rewards)' = SumFunction(rewards) + rewards'[u] - rewards[u]
        /\ SumFunction(rewards) \in Int /\ rewards[u] \in Int
    BY <1>1, OwedChange
  <1>4. SumFunction(rewards)' = SumFunction(rewards) + a
    BY <1>1, <1>3
  <1>. QED
    BY <1>1, <1>2, <1>3, <1>4 DEF RewardLedger

\* No reward is lost or paid twice: what was ever distributed is what was paid
\* out and what is still owed.
THEOREM RewardsBalance == Spec => []RewardLedger
  <1>1. Init => RewardLedger
    <2> SUFFICES ASSUME Init PROVE RewardLedger
      OBVIOUS
    <2>1. DOMAIN rewards = Accounts /\ \A u \in Accounts : rewards[u] = 0
      BY DEF Init, RD!RewardInit
    <2>2. SumFunctionOnSet(rewards, Accounts) = 0
      BY <2>1, SumZero, GovernanceAssumption
    <2>. QED
      BY <2>1, <2>2 DEF Init, RD!RewardInit, RewardLedger, SumFunction
  <1>2. TypeOK /\ TypeOK' /\ RewardLedger /\ [Next]_vars => RewardLedger'
    <2> SUFFICES ASSUME TypeOK, TypeOK', RewardLedger, [Next]_vars PROVE RewardLedger'
      OBVIOUS
    <2>1. ASSUME NEW u \in Accounts,
                 Propose(u) \/ \E i \in ProposalIds, support \in BOOLEAN : CastVote(u, i, support)
          PROVE  RewardLedger'
      BY <2>1, DistributionOwed, GovernanceAssumption DEF Propose, CastVote
    <2>2. ASSUME NEW d \in Distributors \cap Accounts, NEW u \in Accounts, NEW a \in GiftAmounts,
                 Distribute(d, u, a)
          PROVE  RewardLedger'
      BY <2>2, DistributionOwed, GovernanceAssumption DEF Distribute
    <2>3. ASSUME NEW u \in Accounts, Claim(u) PROVE RewardLedger'
      <3>1. /\ rewards'[u] = 0 /\ claimed' = claimed + rewards[u]
            /\ total_distributed' = total_distributed
            /\ \A v \in Accounts \ {u} : rewards'[v] = rewards[v]
        BY <2>3 DEF Claim, RD!claim_rewards, TypeOK, RD!RewardTypeOK
      <3>2. claimed \in Nat /\ total_distributed = claimed + SumFunction(rewards)
        BY DEF TypeOK, RD!RewardTypeOK, RewardLedger
      <3>3. /\ SumFunction(rewards)' = SumFunction(rewards) + rewards'[u] - rewards[u]
            /\ SumFunction(rewards) \in Int /\ rewards[u] \in Int
        BY <3>1, OwedChange
      <3>4. SumFunction(rewards)' = SumFunction(rewards) - rewards[u]
        BY <3>1, <3>3
      <3>. QED
        BY <3>1, <3>2, <3>3, <3>4 DEF RewardLedger
    <2>4. CASE UNCHANGED <<rewards, claimed, total_distributed>>
      BY <2>4 DEF RewardLedger
    <2>. QED
      BY <2>1, <2>2, <2>3, <2>4
      DEF Next, Execute, Cancel, Authorize, RD!authorize_distributor, Revoke,
          RD!revoke_distributor, TokenTransfer, NextBlock
  <1>. QED  BY <1>1, <1>2, TypeCorrect, PTL DEF Spec

\* A reward per event, once more.
LEMMA OneMore == ASSUME NEW r \in Nat, NEW n \in Nat PROVE r * (n + 1) = r * n + r
  OBVIOUS

\* The ballots are finitely many.
LEMMA BallotsFinite == IsFiniteSet(Ballots) /\ Cardinality(Ballots) \in Nat
  <1>1. IsFiniteSet(ProposalIds)
    BY FS_Interval, GovernanceAssumption
  <1>2. IsFiniteSet(ProposalIds \X Accounts)
    BY <1>1, FS_Product, GovernanceAssumption
  <1>3. Ballots \subseteq ProposalIds \X Accounts
    BY DEF Ballots
  <1>. QED
    BY <1>2, <1>3, FS_Subset, FS_CardinalityType

\* Rewards are paid for participation only, and for each act of it once: one
\* ProposalReward per proposal, one VoteReward per recorded vote, and the gifts
\* of authorized accounts.
THEOREM RewardsForParticipation == Spec => []RewardsMatchParticipation
  <1> USE DEF RewardsMatchParticipation
  <1>1. Init => RewardsMatchParticipation
    <2> SUFFICES ASSUME Init PROVE RewardsMatchParticipation
      OBVIOUS
    <2>1. Ballots = {}
      BY DEF Init, Gov!GovernanceInit, Gov!NoVote, Ballots
    <2>2. Cardinality(Ballots) = 0
      BY <2>1, FS_EmptySet
    <2>. QED
      BY <2>2, GovernanceAssumption DEF Init, Gov!GovernanceInit, RD!RewardInit
  <1>2. TypeOK /\ TypeOK' /\ RewardsMatchParticipation /\ [Next]_vars => RewardsMatchParticipation'
    <2> SUFFICES ASSUME TypeOK, TypeOK', RewardsMatchParticipation, [Next]_vars
                 PROVE  RewardsMatchParticipation'
      OBVIOUS
    <2>0. /\ proposal_count \in Nat /\ direct \in Nat /\ Cardinality(Ballots) \in Nat
          /\ ProposalReward \in Nat /\ VoteReward \in Nat
          /\ votes \in [ProposalIds -> [Accounts -> Gov!Vote]]
          /\ ProposalReward * proposal_count \in Nat /\ VoteReward * Cardinality(Ballots) \in Nat
      BY BallotsFinite, GovernanceAssumption DEF TypeOK, Gov!GovernanceTypeOK
    <2>1. ASSUME NEW u \in Accounts, Propose(u) PROVE RewardsMatchParticipation'
      <3>1. proposal_count' = proposal_count + 1 /\ votes' = votes
        BY <2>1, ProposeEffect
      <3>2. total_distributed' = total_distributed + ProposalReward /\ direct' = direct
        BY <2>1 DEF Propose, RD!distribute_reward
      <3>3. Cardinality(Ballots)' = Cardinality(Ballots)
        BY <3>1 DEF Ballots
      <3>4. ProposalReward * proposal_count' = ProposalReward * proposal_count + ProposalReward
        BY <2>0, <3>1, OneMore
      <3>. QED  BY <2>0, <3>2, <3>3, <3>4
    <2>2. ASSUME NEW u \in Accounts, NEW i \in ProposalIds, NEW support \in BOOLEAN,
                 CastVote(u, i, support)
          PROVE  RewardsMatchParticipation'
      <3>1. PICK b \in Gov!Vote :
               /\ votes' = [votes EXCEPT ![i][u] = b]
               /\ proposal_count' = proposal_count
               /\ votes[i][u].votes = 0 /\ b.votes > 0
        BY <2>2, VoteEffect
      <3>2. total_distributed' = total_distributed + VoteReward /\ direct' = direct
        BY <2>2 DEF CastVote, RD!distribute_reward
      <3>3. Ballots' = Ballots \cup {<<i, u>>} /\ <<i, u>> \notin Ballots
        <4>1. \A j \in ProposalIds, v \in Accounts :
                 votes'[j][v] = IF j = i /\ v = u THEN b ELSE votes[j][v]
          BY <2>0, <3>1
        <4>. QED  BY <3>1, <4>1 DEF Ballots
      <3>4. Cardinality(Ballots)' = Cardinality(Ballots) + 1
        BY <3>3, BallotsFinite, FS_AddElement
      <3>5. VoteReward * (Cardinality(Ballots) + 1) = VoteReward * Cardinality(Ballots) + VoteReward
        BY <2>0, OneMore
      <3>. QED  BY <2>0, <3>1, <3>2, <3>4, <3>5
    <2>3. ASSUME NEW d \in Distributors \cap Accounts, NEW u \in Accounts, NEW a \in GiftAmounts,
                 Distribute(d, u, a)
          PROVE  RewardsMatchParticipation'
      <3>1. /\ total_distributed' = total_distributed + a /\ direct' = direct + a
            /\ proposal_count' = proposal_count /\ votes' = votes /\ a \in Nat
        BY <2>3, GovernanceAssumption DEF Distribute, RD!distribute_reward
      <3>2. Cardinality(Ballots)' = Cardinality(Ballots)
        BY <3>1 DEF Ballots
      <3>. QED  BY <2>0, <3>1, <3>2
    <2>4. CASE UNCHANGED <<total_distributed, direct, proposal_count, votes>>
      BY <2>4 DEF Ballots
    <2>. QED
      BY <2>1, <2>2, <2>3, <2>4
      DEF Next, Execute, Gov!execute_proposal, Cancel, Gov!cancel_proposal, Authorize,
          RD!authorize_distributor, Revoke, RD!revoke_distributor, Claim, RD!claim_rewards,
          TokenTransfer, NextBlock
  <1>. QED  BY <1>1, <1>2, TypeCorrect, PTL DEF Spec
=============================================================================
