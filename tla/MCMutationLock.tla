---------------------------- MODULE MCMutationLock ----------------------------
(* Instances of MutationLock for TLC.                                      *)
EXTENDS MutationLock

CONSTANTS p1, p2, p3
=============================================================================
