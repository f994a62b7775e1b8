-------------------------- MODULE MCBackendMirror ---------------------------
(* Values of the constants of BackendMirror for model checking. *)
EXTENDS BackendMirror, TLC
MCAmounts == {1, 2}
MCLimits == {<<0, 0>>, <<1, 2>>}
MCRates == {1}
MCWeightArrays == {<<1, 2>>, <<2, 1>>}
\* Users and jobs are interchangeable, and the properties are invariants.
MCSymmetry == Permutations(Users) \union Permutations(Jobs)
=============================================================================
