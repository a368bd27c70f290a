-------------------------- MODULE MCOneTimeCodes --------------------------
(* Instances of OneTimeCodes. *)
EXTENDS OneTimeCodes, TLC

Symmetry == Permutations(Verifiers)
=============================================================================
