------------------------------- MODULE MCLedger -------------------------------
(* Instance of Ledger and its readers for TLC: the constants are in the cfg files. *)
EXTENDS LedgerReaders
=============================================================================
