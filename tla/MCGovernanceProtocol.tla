----------------------- MODULE MCGovernanceProtocol ------------------------
(* Values of the constants of GovernanceProtocol for model checking. *)
EXTENDS GovernanceProtocol

MCOne == {1}
MCNone == {}
=============================================================================
