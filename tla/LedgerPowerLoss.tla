---------------------------- MODULE LedgerPowerLoss ----------------------------
(***************************************************************************)
(* Ledger on a machine that can lose power.  writeFileAtomic syncs the     *)
(* file and its directory (internal/core/atomic.go), so the key, the head  *)
(* and the anchors survive once written.  appendJSONLine                   *)
(* (internal/core/packs.go) closes the .jsonl file without a sync: its     *)
(* last records reach the disk whenever the operating system likes.        *)
(***************************************************************************)
EXTENDS Ledger

VARIABLES
  synced   \* records of the .jsonl file that have reached the disk

powerVars == <<vars, synced>>

PowerInit == Init /\ synced = Len(lines)

AppendStep == Next /\ UNCHANGED synced

\* The operating system writes the .jsonl file back.
WriteBack ==
  /\ synced # Len(lines)
  /\ synced' = Len(lines)
  /\ UNCHANGED vars

\* The file is cut after any record that was not written back, perhaps in the
\* middle of the next one.
Cut ==
  \E n \in synced..Len(lines) :
    /\ lines' = SubSeq(lines, 1, n)
    /\ tail' \in IF n < Len(lines) \/ tail = "torn" THEN Tails ELSE {tail}

\* What the atomic writes stored is still there.
PowerLoss ==
  /\ interrupts < MaxInterrupts
  /\ interrupts' = interrupts + 1
  /\ Cut
  /\ synced' = Len(lines')
  /\ stage' = "idle"
  /\ todo' = 0
  /\ UNCHANGED <<head, anchors, key, rec, issued>>

PowerNext == AppendStep \/ WriteBack \/ PowerLoss

PowerSpec == PowerInit /\ [][PowerNext]_powerVars

-----------------------------------------------------------------------------

\* docs/dependencies.md: local state is written with file sync and directory
\* sync, so what head and anchors vouch for is in the file after a power loss.
StateConsistentAfterPowerLoss == EvidenceFollowsRecords
=============================================================================
