----------------------------- MODULE LockedLedger -----------------------------
(***************************************************************************)
(* The mutation lock and a commerce ledger together: every process appends *)
(* signed records inside withMutationLock.  MutationLock is the lock,      *)
(* LedgerFormat the verdict on the files; the steps of an append are those *)
(* of Ledger, one process each.  Where the lock holds, the processes       *)
(* together behave like the single append section of Ledger; where it was  *)
(* lost (see `compromised'), two appends interleave.                       *)
(*                                                                         *)
(* The key exists, a call appends one record, and errors are left to       *)
(* Ledger: here a process works or dies.                                   *)
(***************************************************************************)
EXTENDS MutationLock, LedgerFormat

CONSTANT ReadCap   \* records that fit in the 4 MiB a reader accepts

ASSUME ReadCapAssumption == ReadCap \in Nat \ {0}

VARIABLES
  lines, head, anchors,   \* the files, as in Ledger
  step,                   \* step[p]: where p is in its append
  rec,                    \* rec[p]: the record p signed last
  signer,                 \* who signed last, "none" at first
  issued,                 \* hashes handed out so far
  cut                     \* appends that died before their last write

fileVars == <<lines, head, anchors>>
ledgerVars == <<fileVars, step, rec, signer, issued, cut>>
allVars == <<lockVars, ledgerVars>>

Steps == {"out", "sign", "append", "head", "anchor1", "anchor2", "done"}
Anchoring == <<"anchor1", "anchor2">>
Writing == {p \in Procs : step[p] \notin {"out", "done"}}

LockedInit ==
  /\ Init
  /\ lines = <<>>
  /\ head = NoMark
  /\ anchors = [a \in 1..2 |-> NoMark]
  /\ step = [p \in Procs |-> "out"]
  /\ rec = [p \in Procs |-> LegacyLine]
  /\ signer = "none"
  /\ issued = 0
  /\ cut = 0

Failing == HasFailures(lines, head, anchors, TRUE)
Readable == Len(lines) <= ReadCap
Refused == ~Readable \/ Failing

Advance(p, s) == step' = [step EXCEPT ![p] = s]

-----------------------------------------------------------------------------

\* Taking the lock and entering the callback.
Enter(p) ==
  /\ Open(p)
  /\ Advance(p, IF pc'[p] = "critical" THEN "sign" ELSE "out")
  /\ UNCHANGED <<fileVars, rec, signer, issued, cut>>

Sign(p) ==
  /\ step[p] = "sign"
  /\ ~Refused
  /\ rec' = [rec EXCEPT ![p] = Line(Len(lines) + 1, LastHash(lines), issued + 1)]
  /\ signer' = p
  /\ issued' = issued + 1
  /\ Advance(p, "append")
  /\ UNCHANGED <<lockVars, fileVars, cut>>

Refuse(p) ==
  /\ step[p] = "sign"
  /\ Refused
  /\ Advance(p, "done")
  /\ UNCHANGED <<lockVars, fileVars, rec, signer, issued, cut>>

AppendLine(p) ==
  /\ step[p] = "append"
  /\ lines' = Append(lines, rec[p])
  /\ Advance(p, "head")
  /\ UNCHANGED <<lockVars, head, anchors, rec, signer, issued, cut>>

WriteHead(p) ==
  /\ step[p] = "head"
  /\ head' = Mark(rec[p].seq, rec[p].hash)
  /\ Advance(p, "anchor1")
  /\ UNCHANGED <<lockVars, lines, anchors, rec, signer, issued, cut>>

WriteAnchor(p, a) ==
  /\ step[p] = Anchoring[a]
  /\ anchors' = [anchors EXCEPT ![a] = Mark(rec[p].seq, rec[p].hash)]
  /\ Advance(p, IF a = 1 THEN "anchor2" ELSE "done")
  /\ UNCHANGED <<lockVars, lines, head, rec, signer, issued, cut>>

\* Mutant: the lock is released before the head and the anchors are written.
ReturnEarly(p) ==
  /\ pc[p] = "critical"
  /\ step[p] \in {"head", "done"}
  /\ Finish(p)
  /\ Advance(p, IF step[p] = "head" THEN "head" ELSE "out")
  /\ UNCHANGED <<fileVars, rec, signer, issued, cut>>

\* The callback returns and the lock is released.
Return(p) ==
  /\ step[p] = "done"
  /\ Finish(p)
  /\ Advance(p, "out")
  /\ UNCHANGED <<fileVars, rec, signer, issued, cut>>

Die(p) ==
  /\ Crash(p)
  /\ Advance(p, "out")
  /\ cut' = IF p \in Writing THEN cut + 1 ELSE cut
  /\ UNCHANGED <<fileVars, rec, signer, issued>>

WriterStep(p) ==
  \/ Enter(p) \/ Sign(p) \/ Refuse(p) \/ AppendLine(p) \/ WriteHead(p)
  \/ \E a \in 1..2 : WriteAnchor(p, a)
  \/ Return(p) \/ Die(p)

WaitStep(p) ==
  Begin(p) \/ OpenFails(p) \/ LockBusy(p) \/ Stat(p) \/ Reclaim(p) \/ Wake(p) \/ DeadlinePasses(p)

LockedNext ==
  \/ \E p \in Procs : WriterStep(p)
  \/ /\ (\E p \in Procs : WaitStep(p)) \/ AbandonedLockAges \/ HolderOverruns
     /\ UNCHANGED ledgerVars

LockedSpec == LockedInit /\ [][LockedNext]_allVars

-----------------------------------------------------------------------------

\* As long as no lock file was lost, the processes together implement Ledger: at
\* most one is in its append section, and a crash interrupts that section.
AtWork == CHOOSE p \in Writing : TRUE
SectionStage == IF Writing = {} THEN "idle" ELSE step[AtWork]
SectionTodo == IF Writing = {} THEN 0 ELSE 1
SectionRec == IF signer = "none" THEN LegacyLine ELSE rec[signer]

Section == INSTANCE Ledger WITH
  MaxLegacy <- 0, MaxBatch <- 1, MaxInterrupts <- MaxFailures,
  tail <- "closed", key <- TRUE,
  stage <- SectionStage, todo <- SectionTodo, rec <- SectionRec, interrupts <- cut

ImplementsLedger == Section!Init /\ [][Section!Next \/ compromised']_(Section!vars)
=============================================================================
