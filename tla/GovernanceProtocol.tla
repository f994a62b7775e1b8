------------------------- MODULE GovernanceProtocol ------------------------
(***************************************************************************)
(* The governance contract wired to the reward distributor and to the      *)
(* governance token.  Proposing and voting pay a reward within the same    *)
(* transaction, so they commit only while the governance contract is an    *)
(* authorized distributor.                                                 *)
(***************************************************************************)
EXTENDS Naturals, FiniteSets, Functions

CONSTANTS Accounts, Zero,
          governance_contract, reward_distributor,  \* contract addresses
          governance,       \* the distributor's admin address
          Knt,              \* the governance and reward token
          MaxProposals,     \* bound on the number of proposals
          MaxU256,
          MaxTime,          \* bound on the block timestamp
          quorum, voting_period,
          ProposalReward, VoteReward,  \* 100_000 and 10_000 in the contract
          Distributors,     \* addresses the admin authorizes or revokes
          TransferAmounts,  \* amounts accounts transfer
          GiftAmounts,      \* amounts accounts distribute directly
          Funding,          \* KNT each account starts with
          RewardFunding     \* KNT the distributor starts with

VARIABLES proposals, votes, proposal_count,
          rewards, total_distributed, authorized_distributors, claimed,
          token_balance, now,
          direct            \* history: sum of rewards distributed by accounts

ProposalIds == 0 .. MaxProposals - 1
Holders == Accounts \cup {reward_distributor}
Tokens == {Knt}

ASSUME GovernanceAssumption ==
    /\ MaxProposals \in Nat /\ MaxU256 \in Nat /\ MaxTime \in Nat
    /\ quorum \in Nat /\ voting_period \in Nat
    /\ ProposalReward \in 0..MaxU256 /\ VoteReward \in 0..MaxU256
    /\ TransferAmounts \subseteq Nat /\ GiftAmounts \subseteq 0..MaxU256
    /\ Funding \in Nat /\ RewardFunding \in Nat
    /\ {governance, governance_contract} \subseteq Distributors
    /\ Distributors \subseteq Accounts \cup {governance_contract}
    /\ Zero \notin Accounts /\ IsFiniteSet(Accounts)
    /\ {governance_contract, reward_distributor} \cap Accounts = {}

Gov   == INSTANCE Governance
RD    == INSTANCE RewardDistributor
Token == INSTANCE ERC20

governanceVars == <<proposals, votes, proposal_count>>
rewardVars == <<rewards, total_distributed, authorized_distributors, claimed>>
vars == <<governanceVars, rewardVars, token_balance, now, direct>>

Balance(u) == Token!balance_of(Knt, u)

Init ==
    /\ Gov!GovernanceInit
    /\ RD!RewardInit
    /\ token_balance = [t \in Tokens |-> [h \in Holders |->
                          IF h = reward_distributor THEN RewardFunding ELSE Funding]]
    /\ now = 1
    /\ direct = 0

\* Bug form used by the mutation runs: the reward for a vote is the proposal's.
CastVote_wrongReward(caller, id, support) ==
    /\ Gov!cast_vote(caller, id, support, Balance(caller), now)
    /\ RD!distribute_reward(governance_contract, caller, ProposalReward)
    /\ UNCHANGED <<token_balance, now, direct>>

\* governance.propose -> RewardDistributor.distribute_reward
Propose(caller) ==
    /\ Gov!propose(caller, Balance(caller), now)
    /\ RD!distribute_reward(governance_contract, caller, ProposalReward)
    /\ UNCHANGED <<token_balance, now, direct>>

\* governance.cast_vote -> RewardDistributor.distribute_reward
CastVote(caller, id, support) ==
    /\ Gov!cast_vote(caller, id, support, Balance(caller), now)
    /\ RD!distribute_reward(governance_contract, caller, VoteReward)
    /\ UNCHANGED <<token_balance, now, direct>>

Execute(id) ==
    /\ Gov!execute_proposal(id, now)
    /\ UNCHANGED <<rewardVars, token_balance, now, direct>>

Cancel(caller, id) ==
    /\ Gov!cancel_proposal(caller, id, now)
    /\ UNCHANGED <<rewardVars, token_balance, now, direct>>

Authorize(caller, d) ==
    /\ RD!authorize_distributor(caller, d)
    /\ UNCHANGED <<governanceVars, token_balance, now, direct>>

Revoke(caller, d) ==
    /\ RD!revoke_distributor(caller, d)
    /\ UNCHANGED <<governanceVars, token_balance, now, direct>>

\* An account that is an authorized distributor pays a reward itself.
Distribute(caller, user, amount) ==
    /\ RD!distribute_reward(caller, user, amount)
    /\ direct' = direct + amount
    /\ UNCHANGED <<governanceVars, token_balance, now>>

\* claim_rewards -> token.transfer: reverts when the distributor is short.
Claim(caller) ==
    /\ RD!claim_rewards(caller)
    /\ Token!transferFrom(Knt, reward_distributor, caller, rewards[caller])
    /\ UNCHANGED <<governanceVars, now, direct>>

TokenTransfer(from, to, amount) ==
    /\ Token!transferFrom(Knt, from, to, amount)
    /\ UNCHANGED <<governanceVars, rewardVars, now, direct>>

NextBlock ==
    /\ now < MaxTime
    /\ now' = now + 1
    /\ UNCHANGED <<governanceVars, rewardVars, token_balance, direct>>

Next ==
    \/ \E u \in Accounts : Propose(u) \/ Claim(u)
    \/ \E u \in Accounts, i \in ProposalIds :
          Cancel(u, i) \/ \E support \in BOOLEAN : CastVote(u, i, support)
    \/ \E i \in ProposalIds : Execute(i)
    \/ \E u \in Accounts, d \in Distributors : Authorize(u, d) \/ Revoke(u, d)
    \/ \E d \in Distributors \cap Accounts, u \in Accounts, a \in GiftAmounts : Distribute(d, u, a)
    \/ \E from \in Accounts, to \in Holders, a \in TransferAmounts : TokenTransfer(from, to, a)
    \/ NextBlock

Spec == Init /\ [][Next]_vars

----------------------------------------------------------------------------
\* Type invariant of the two contracts' storage.
TypeOK ==
    /\ Gov!GovernanceTypeOK /\ RD!RewardTypeOK
    /\ token_balance \in [Tokens -> [Holders -> Nat]]
    /\ now \in Nat \ {0} /\ direct \in Nat

\* What each account's recorded vote on i adds to a side.
Cast(i, side) ==
    [u \in Accounts |-> IF votes[i][u].support = side THEN votes[i][u].votes ELSE 0]

\* Each tally is the sum of the votes recorded for that side.
TalliesMatchVotes ==
    \A i \in ProposalIds :
        /\ proposals[i].for_votes = SumFunction(Cast(i, TRUE))
        /\ proposals[i].against_votes = SumFunction(Cast(i, FALSE))

\* The vote on i is over, reached the quorum and was won.
Passed(i) ==
    /\ now > proposals[i].end_time
    /\ proposals[i].for_votes + proposals[i].against_votes >= quorum
    /\ proposals[i].for_votes > proposals[i].against_votes

\* An executed proposal is a registered one that passed and was not canceled;
\* this stays true of it for ever.
ExecutedPassed ==
    \A i \in ProposalIds :
        proposals[i].executed => Passed(i) /\ ~proposals[i].canceled /\ i < proposal_count

\* An id that propose has not handed out is untouched: nobody can vote on,
\* execute or cancel a proposal that does not exist.
UnusedIdsBlank ==
    \A i \in ProposalIds :
        /\ i >= proposal_count => /\ proposals[i] = Gov!NoProposal
                                  /\ \A u \in Accounts : votes[i][u].votes = 0
        /\ i < proposal_count => proposals[i].proposer \in Accounts

\* Everything ever distributed is either still owed or was paid out.
RewardLedger ==
    total_distributed = claimed + SumFunction(rewards)

\* The votes recorded, as pairs of a proposal and a voter.
Ballots == {b \in ProposalIds \X Accounts : votes[b[1]][b[2]].votes > 0}

\* Apart from direct distributions, rewards are exactly one ProposalReward per
\* proposal and one VoteReward per vote recorded.
RewardsMatchParticipation ==
    total_distributed =
        direct + ProposalReward * proposal_count
               + VoteReward * Cardinality(Ballots)

\* A vote, once recorded, is never changed: no account is counted twice.
VoteIsFinal ==
    [][\A i \in ProposalIds, u \in Accounts :
          votes[i][u].votes > 0 => votes'[i][u] = votes[i][u]]_vars

\* After its end time a proposal's tallies never change, and a proposal that
\* passed cannot be canceled any more: all that can still happen is execution.
OutcomeIsFinal ==
    [][\A i \in ProposalIds :
          i < proposal_count /\ now > proposals[i].end_time =>
             proposals'[i] \in {proposals[i], [proposals[i] EXCEPT !.executed = TRUE]}]_vars
=============================================================================
