\* The life of one proposal with rewards; tokens move between two voters.
SPECIFICATION Spec
CONSTANTS
    Accounts = {alice, gov}
    Zero = Zero
    governance_contract = governance_contract
    reward_distributor = reward_distributor
    governance = gov
    Knt = Knt
    MaxProposals = 1
    MaxU256 = 5
    MaxTime = 3
    quorum = 2
    voting_period = 1
    ProposalReward = 2
    VoteReward = 1
    Distributors = {governance_contract, gov}
    TransferAmounts <- MCOne
    GiftAmounts <- MCOne
    Funding = 1
    RewardFunding = 1
INVARIANTS TypeOK TalliesMatchVotes ExecutedPassed UnusedIdsBlank RewardLedger RewardsMatchParticipation
PROPERTIES VoteIsFinal OutcomeIsFinal
