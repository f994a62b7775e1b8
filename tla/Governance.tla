----------------------------- MODULE Governance ----------------------------
(***************************************************************************)
(* contracts/governance.cairo: proposals, token-weighted votes, execution  *)
(* and cancellation.  `now' is get_block_timestamp(); `balance' is what    *)
(* token.balance_of(caller) returns.  The description of a proposal is     *)
(* left out: no step reads it.                                             *)
(***************************************************************************)
EXTENDS Naturals

CONSTANTS Accounts, Zero,
          ProposalIds,     \* u256 ids considered
          MaxU256,
          quorum, voting_period   \* set by the constructor, never changed

VARIABLES proposals, votes, proposal_count

governanceVars == <<proposals, votes, proposal_count>>

Proposal == [proposer : Accounts \cup {Zero}, start_time : Nat, end_time : Nat,
             for_votes : 0..MaxU256, against_votes : 0..MaxU256,
             executed : BOOLEAN, canceled : BOOLEAN]

Vote == [support : BOOLEAN, votes : 0..MaxU256]

\* What reading unwritten slots of the two maps returns.
NoProposal == [proposer |-> Zero, start_time |-> 0, end_time |-> 0,
               for_votes |-> 0, against_votes |-> 0,
               executed |-> FALSE, canceled |-> FALSE]
NoVote == [support |-> FALSE, votes |-> 0]

GovernanceTypeOK ==
    /\ proposals \in [ProposalIds -> Proposal]
    /\ votes \in [ProposalIds -> [Accounts -> Vote]]
    /\ proposal_count \in Nat

GovernanceInit ==
    /\ proposals = [i \in ProposalIds |-> NoProposal]
    /\ votes = [i \in ProposalIds |-> [u \in Accounts |-> NoVote]]
    /\ proposal_count = 0

\* proposal_count \in ProposalIds bounds the proposals of an instance.
propose(caller, balance, now) ==
    /\ balance > 0
    /\ proposal_count \in ProposalIds
    /\ proposals' = [proposals EXCEPT ![proposal_count] =
                       [NoProposal EXCEPT !.proposer = caller,
                                          !.start_time = now,
                                          !.end_time = now + voting_period]]
    /\ proposal_count' = proposal_count + 1
    /\ UNCHANGED votes

Open(p) == ~p.executed /\ ~p.canceled

\* for_votes or against_votes increased by the voter's balance (checked u256).
Tallied(p, support, balance) ==
    IF support THEN [p EXCEPT !.for_votes = @ + balance]
               ELSE [p EXCEPT !.against_votes = @ + balance]

\* Bug forms used by the mutation runs: the tally may overflow; the previous
\* vote is not checked; the voting period is not checked; execution is allowed
\* in the last voting block; cancellation has no deadline.
cast_vote_unbounded(caller, id, support, balance, now) ==
    /\ Open(proposals[id])
    /\ proposals[id].start_time <= now /\ now <= proposals[id].end_time
    /\ balance > 0
    /\ votes[id][caller].votes = 0
    /\ votes' = [votes EXCEPT ![id][caller] = [support |-> support, votes |-> balance]]
    /\ proposals' = [proposals EXCEPT ![id] = Tallied(@, support, balance)]
    /\ UNCHANGED proposal_count

cast_vote_again(caller, id, support, balance, now) ==
    /\ Open(proposals[id])
    /\ proposals[id].start_time <= now /\ now <= proposals[id].end_time
    /\ balance > 0
    /\ votes' = [votes EXCEPT ![id][caller] = [support |-> support, votes |-> balance]]
    /\ proposals' = [proposals EXCEPT ![id] = Tallied(@, support, balance)]
    /\ UNCHANGED proposal_count

cast_vote_late(caller, id, support, balance, now) ==
    /\ Open(proposals[id])
    /\ balance > 0
    /\ votes[id][caller].votes = 0
    /\ votes' = [votes EXCEPT ![id][caller] = [support |-> support, votes |-> balance]]
    /\ proposals' = [proposals EXCEPT ![id] = Tallied(@, support, balance)]
    /\ UNCHANGED proposal_count

execute_proposal_early(id, now) ==
    /\ Open(proposals[id])
    /\ now >= proposals[id].end_time
    /\ proposals[id].for_votes + proposals[id].against_votes >= quorum
    /\ proposals[id].for_votes > proposals[id].against_votes
    /\ proposals' = [proposals EXCEPT ![id].executed = TRUE]
    /\ UNCHANGED <<votes, proposal_count>>

cancel_proposal_anytime(caller, id, now) ==
    /\ caller = proposals[id].proposer
    /\ Open(proposals[id])
    /\ proposals' = [proposals EXCEPT ![id].canceled = TRUE]
    /\ UNCHANGED <<votes, proposal_count>>

cast_vote(caller, id, support, balance, now) ==
    /\ Open(proposals[id])
    /\ proposals[id].start_time <= now /\ now <= proposals[id].end_time
    /\ balance > 0
    /\ votes[id][caller].votes = 0
    /\ IF support THEN proposals[id].for_votes + balance <= MaxU256
                  ELSE proposals[id].against_votes + balance <= MaxU256
    /\ votes' = [votes EXCEPT ![id][caller] = [support |-> support, votes |-> balance]]
    /\ proposals' = [proposals EXCEPT ![id] = Tallied(@, support, balance)]
    /\ UNCHANGED proposal_count

execute_proposal(id, now) ==
    /\ Open(proposals[id])
    /\ now > proposals[id].end_time
    /\ proposals[id].for_votes + proposals[id].against_votes <= MaxU256
    /\ proposals[id].for_votes + proposals[id].against_votes >= quorum
    /\ proposals[id].for_votes > proposals[id].against_votes
    /\ proposals' = [proposals EXCEPT ![id].executed = TRUE]
    /\ UNCHANGED <<votes, proposal_count>>

cancel_proposal(caller, id, now) ==
    /\ caller = proposals[id].proposer
    /\ Open(proposals[id])
    /\ now <= proposals[id].end_time
    /\ proposals' = [proposals EXCEPT ![id].canceled = TRUE]
    /\ UNCHANGED <<votes, proposal_count>>
=============================================================================
