--------------------------- MODULE MCLedgerPowerLoss ---------------------------
(* Instance of LedgerPowerLoss for TLC: the constants are in the cfg files. *)
EXTENDS LedgerPowerLoss
=============================================================================
