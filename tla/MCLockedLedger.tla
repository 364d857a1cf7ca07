---------------------------- MODULE MCLockedLedger ----------------------------
(* Instances of LockedLedger for TLC: the constants are in the cfg files.  *)
EXTENDS LockedLedger

CONSTANTS p1, p2
=============================================================================
