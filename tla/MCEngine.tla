------------------------------- MODULE MCEngine -------------------------------
(* Instances of Engine for TLC.                                            *)
EXTENDS EngineInvariant, TLC

KeySymmetry == Permutations(Keys)

=============================================================================
