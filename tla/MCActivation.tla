---------------------------- MODULE MCActivation ----------------------------
(***************************************************************************)
(* Model-checking instance of Activation: activation ids are model values  *)
(* that no definition tells apart.                                         *)
(***************************************************************************)
EXTENDS Activation, TLC

ActivationSymmetry == Permutations(Activation)

=============================================================================
