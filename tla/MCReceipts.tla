------------------------------ MODULE MCReceipts ------------------------------
(* Instance of Receipts for TLC.                                           *)
EXTENDS Receipts

CONSTANTS p1, p2, k1, k2
=============================================================================
