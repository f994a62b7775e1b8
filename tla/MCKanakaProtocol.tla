-------------------------- MODULE MCKanakaProtocol -------------------------
(* Values of the constants of KanakaProtocol for model checking. *)
EXTENDS KanakaProtocol

MCAmounts == 0..2
MCOne == {1}
MCRates == {0, 2}
MCWeights == 0..2
MCCorrelations == {2, 3}
MCNone == {}
=============================================================================
