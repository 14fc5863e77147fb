---------------------------- MODULE MCVersionLock ----------------------------
(* Model checking VersionLock: symmetry of the threads.                     *)
EXTENDS VersionLock, TLC

ThreadSymmetry == Permutations(Thread)
=============================================================================
