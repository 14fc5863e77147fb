------------------------------- MODULE MCTL2 -------------------------------
(* Model-checking instances of the core.                                   *)
EXTENDS TL2Inv, TLC

ThreadSymmetry == Permutations(Thread)
=============================================================================
