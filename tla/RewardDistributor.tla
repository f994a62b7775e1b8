------------------------- MODULE RewardDistributor -------------------------
(***************************************************************************)
(* contracts/reward_distributor.cairo: rewards owed to users and who may   *)
(* add to them.  `claimed' is a history variable, the sum of all payments  *)
(* claim_rewards made.                                                     *)
(***************************************************************************)
EXTENDS Naturals

CONSTANTS Accounts,      \* externally owned accounts
          Distributors,  \* addresses that may become distributors
          MaxU256,
          governance     \* the address the constructor receives

VARIABLES rewards, total_distributed, authorized_distributors, claimed

rewardVars == <<rewards, total_distributed, authorized_distributors, claimed>>

RewardTypeOK ==
    /\ rewards \in [Accounts -> 0..MaxU256]
    /\ total_distributed \in 0..MaxU256
    /\ authorized_distributors \in [Distributors -> BOOLEAN]
    /\ claimed \in Nat

RewardInit ==
    /\ rewards = [u \in Accounts |-> 0]
    /\ total_distributed = 0
    /\ authorized_distributors = [d \in Distributors |-> d = governance]
    /\ claimed = 0

\* Bug form used by the mutation runs: the claimed reward is not cleared.
claim_rewards_notCleared(caller) ==
    /\ rewards[caller] > 0
    /\ claimed' = claimed + rewards[caller]
    /\ UNCHANGED <<rewards, total_distributed, authorized_distributors>>

authorize_distributor(caller, distributor) ==
    /\ caller = governance
    /\ authorized_distributors' = [authorized_distributors EXCEPT ![distributor] = TRUE]
    /\ UNCHANGED <<rewards, total_distributed, claimed>>

revoke_distributor(caller, distributor) ==
    /\ caller = governance
    /\ authorized_distributors' = [authorized_distributors EXCEPT ![distributor] = FALSE]
    /\ UNCHANGED <<rewards, total_distributed, claimed>>

distribute_reward(caller, user, amount) ==
    /\ authorized_distributors[caller]
    /\ rewards[user] + amount <= MaxU256
    /\ total_distributed + amount <= MaxU256
    /\ rewards' = [rewards EXCEPT ![user] = @ + amount]
    /\ total_distributed' = total_distributed + amount
    /\ UNCHANGED <<authorized_distributors, claimed>>

claim_rewards(caller) ==
    /\ rewards[caller] > 0
    /\ rewards' = [rewards EXCEPT ![caller] = 0]
    /\ claimed' = claimed + rewards[caller]
    /\ UNCHANGED <<total_distributed, authorized_distributors>>
=============================================================================
