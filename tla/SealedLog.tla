------------------------------- MODULE SealedLog -------------------------------
(***************************************************************************)
(* What a commerce ledger promises an auditor: records are only ever added *)
(* at the end, none twice, and a ledger that once shows an integrity       *)
(* failure takes no further record and never looks healthy again.          *)
(***************************************************************************)
EXTENDS Naturals, Sequences

CONSTANT Unsigned   \* the hash of a record an older release left unsigned

VARIABLES
  log,     \* the hashes of the records, oldest first
  sealed   \* the ledger refuses records for good

logVars == <<log, sealed>>

Init ==
  /\ \A i \in DOMAIN log : log[i] = Unsigned
  /\ sealed = FALSE

\* The write that adds a record may also be the one that goes wrong.
Extend ==
  /\ ~sealed
  /\ Len(log') = Len(log) + 1
  /\ \A i \in DOMAIN log : log'[i] = log[i] /\ log'[i] # log'[Len(log')]
  /\ sealed' \in BOOLEAN

Seal ==
  /\ ~sealed
  /\ sealed' = TRUE
  /\ UNCHANGED log

Next == Extend \/ Seal

Spec == Init /\ [][Next]_logVars
=============================================================================
