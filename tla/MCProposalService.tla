------------------------- MODULE MCProposalService -------------------------
(* Values of the constants of ProposalService for model checking. *)
EXTENDS ProposalService, TLC

MCPower == [w \in Wallets |-> 1]
MCNone == {}
MCFaults == {"redis", "database", "action"}
MCRequestSymmetry == Permutations(Requests)
=============================================================================
