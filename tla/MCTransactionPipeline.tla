----------------------- MODULE MCTransactionPipeline -----------------------
(* Values of the constants of TransactionPipeline for model checking. *)
EXTENDS TransactionPipeline, TLC

MCRoundSymmetry == Permutations(Rounds)
============================================================================
