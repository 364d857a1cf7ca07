--------------------------- MODULE LockedLedgerProofs ---------------------------
(***************************************************************************)
(* Proofs about MutationLock, for any set of processes, any number of      *)
(* crashes and with or without overruns, and about the appends under it:   *)
(* those of any number of processes implement the single append section of *)
(* Ledger until a lock file is lost under its owner.  What is shown of the *)
(* lock carries over, since every step of LockedLedger is a step of the    *)
(* lock or leaves it alone.                                                *)
(***************************************************************************)
EXTENDS LockedLedger, TLAPS

-----------------------------------------------------------------------------
(* The lock by itself.                                                      *)

\* Every initial state is well typed.
LEMMA InitTyped == Init => TypeOK
<1> SUFFICES ASSUME Init PROVE TypeOK
  OBVIOUS
<1>1. failures \in 0..MaxFailures
  BY LockAssumption DEF Init, LockAssumption
<1>2. /\ pc \in [Procs -> Stages]
      /\ creator \in Procs \cup {"none", "gone"}
      /\ stale \in BOOLEAN
      /\ expired \in [Procs -> BOOLEAN]
      /\ compromised \in BOOLEAN
  BY Zenon DEF Init, Stages
<1>3. QED BY <1>1, <1>2 DEF TypeOK

\* The state of the lock protocol stays in the types TypeOK gives it.
THEOREM TypeCorrect == Spec => []TypeOK
<1>1. Init => TypeOK
  BY InitTyped
<1>2. TypeOK /\ [LockNext]_lockVars => TypeOK'
  <2> SUFFICES ASSUME TypeOK, [LockNext]_lockVars PROVE TypeOK'
    OBVIOUS
  <2> USE DEF TypeOK, Stages, Goto
  <2>1. ASSUME NEW p \in Procs, LockStep(p) PROVE TypeOK'
    <3>1. CASE Begin(p) BY <3>1 DEF Begin
    <3>2. CASE Open(p) BY <3>2 DEF Open
    <3>3. CASE OpenFails(p) BY <3>3, LockAssumption DEF OpenFails
    <3>4. CASE LockBusy(p) BY <3>4 DEF LockBusy
    <3>5. CASE Stat(p) BY <3>5 DEF Stat
    <3>6. CASE Reclaim(p) BY <3>6 DEF Reclaim
    <3>7. CASE Wake(p) BY <3>7 DEF Wake
    <3>8. CASE Finish(p) BY <3>8 DEF Finish
    <3>9. CASE Crash(p) BY <3>9, LockAssumption DEF Crash
    <3>10. CASE DeadlinePasses(p) BY <3>10 DEF DeadlinePasses
    <3>11. QED
      BY <2>1, <3>1, <3>2, <3>3, <3>4, <3>5, <3>6, <3>7, <3>8, <3>9, <3>10
      DEF LockStep, Attempt
  <2>2. CASE AbandonedLockAges BY <2>2 DEF AbandonedLockAges
  <2>3. CASE HolderOverruns BY <2>3 DEF HolderOverruns
  <2>4. CASE UNCHANGED lockVars BY <2>4 DEF lockVars
  <2>5. QED BY <2>1, <2>2, <2>3, <2>4 DEF LockNext
<1>3. QED BY <1>1, <1>2, PTL DEF Spec

-----------------------------------------------------------------------------

\* Ownership of the file is what makes exclusion inductive: a second command
\* can only enter by creating the file anew, and while the invariant holds the
\* file of the command at work can neither be judged stale nor be removed.
IInv == TypeOK /\ HolderOwnsFile /\ NoOrphanFile

\* If every command at work owns the one file, at most one is at work.
LEMMA OwnershipGivesExclusion == HolderOwnsFile => ExclusionUnlessCompromised
  BY DEF HolderOwnsFile, ExclusionUnlessCompromised, MutualExclusion

\* With no file and nobody at work, ownership holds vacuously.
LEMMA OwnershipInit == Init => IInv
<1>1. Init => TypeOK
  BY InitTyped
<1>2. Init => HolderOwnsFile /\ NoOrphanFile
  BY LockAssumption DEF Init, HolderOwnsFile, NoOrphanFile
<1>3. QED BY <1>1, <1>2 DEF IInv

\* No step of one process, and no passage of time, breaks ownership.
LEMMA OwnershipStep ==
  ASSUME IInv, [LockNext]_lockVars
  PROVE  HolderOwnsFile' /\ NoOrphanFile'
<1> USE LockAssumption DEF IInv, TypeOK, HolderOwnsFile, NoOrphanFile, Goto
<1>1. ASSUME NEW p \in Procs, LockStep(p)
      PROVE  HolderOwnsFile' /\ NoOrphanFile'
  <2>1. CASE Begin(p) BY <2>1 DEF Begin
  <2>2. CASE Open(p) BY <2>2 DEF Open
  <2>3. CASE OpenFails(p) BY <2>3 DEF OpenFails
  <2>4. CASE LockBusy(p) BY <2>4 DEF LockBusy
  <2>5. CASE Stat(p) BY <2>5 DEF Stat
  <2>6. CASE Reclaim(p) BY <2>6 DEF Reclaim
  <2>7. CASE Wake(p) BY <2>7 DEF Wake
  <2>8. CASE Finish(p) BY <2>8 DEF Finish
  <2>9. CASE Crash(p) BY <2>9 DEF Crash
  <2>10. CASE DeadlinePasses(p) BY <2>10 DEF DeadlinePasses
  <2>11. QED
    BY <1>1, <2>1, <2>2, <2>3, <2>4, <2>5, <2>6, <2>7, <2>8, <2>9, <2>10
    DEF LockStep, Attempt
<1>2. CASE AbandonedLockAges BY <1>2 DEF AbandonedLockAges
<1>3. CASE HolderOverruns BY <1>3 DEF HolderOverruns
<1>4. CASE UNCHANGED lockVars BY <1>4 DEF lockVars
<1>5. QED BY <1>1, <1>2, <1>3, <1>4 DEF LockNext

\* The command at work owns the lock file, and a file never outlives a command
\* that returned: see FileOwned in MutationLock.
THEOREM Ownership == Spec => []FileOwned
<1>1. IInv /\ [LockNext]_lockVars => FileOwned'
  BY OwnershipStep DEF FileOwned
<1>2. TypeOK /\ FileOwned => IInv
  BY DEF IInv, FileOwned
<1>3. Init => FileOwned
  BY OwnershipInit DEF IInv, FileOwned
<1>4. QED BY <1>1, <1>2, <1>3, TypeCorrect, PTL DEF Spec

\* Two callbacks overlap only after an overrun or after a fresh file was
\* removed in place of a stale one, for every number of processes.
THEOREM Exclusion == Spec => []ExclusionUnlessCompromised
<1>1. FileOwned => ExclusionUnlessCompromised
  BY OwnershipGivesExclusion DEF FileOwned
<1>2. QED BY <1>1, Ownership, PTL

-----------------------------------------------------------------------------
(* The appends under the lock.                                              *)

\* A process appends inside the callback and nowhere else, and the record that is
\* on its way to the files was signed by the process that holds the lock.
LInv ==
  /\ step \in [Procs -> Steps]
  /\ DOMAIN rec = Procs
  /\ \A p \in Procs : step[p] # "out" <=> pc[p] = "critical"
  /\ ~compromised => \A p \in Procs : step[p] \in {"append", "head", "anchor1", "anchor2"} => signer = p
  /\ signer \in Procs \cup {"none"}
  /\ cut \in Nat /\ cut <= failures

-----------------------------------------------------------------------------
(* The lock beneath.                                                        *)

\* Every step of the system is a step of the lock or leaves it alone.
LEMMA LockedStepsAreLockSteps == [LockedNext]_allVars => [LockNext]_lockVars
BY DEF LockedNext, allVars, LockNext, LockStep, Attempt, WriterStep, WaitStep, Enter, Sign, Refuse, AppendLine,
       WriteHead, WriteAnchor, Return, Die

LEMMA LockBeneath == LockedSpec => Spec
<1>1. LockedInit => Init
  BY DEF LockedInit
<1>2. QED BY <1>1, LockedStepsAreLockSteps, PTL DEF LockedSpec, Spec

LEMMA LockHolds == LockedSpec => [](TypeOK /\ FileOwned)
BY LockBeneath, TypeCorrect, Ownership, PTL

\* A lock that was lost stays lost.
LEMMA CompromisedStays == ASSUME TypeOK, [LockNext]_lockVars, ~compromised' PROVE ~compromised
BY DEF TypeOK, LockNext, LockStep, Attempt, Begin, Open, OpenFails, LockBusy, Stat, Reclaim, Wake, Finish, Crash,
       DeadlinePasses, AbandonedLockAges, HolderOverruns, lockVars

-----------------------------------------------------------------------------
(* The invariant.                                                           *)

\* While no lock was lost, a process in the callback is the only one.
LEMMA Alone ==
  ASSUME FileOwned, ~compromised, NEW p \in Procs, NEW q \in Procs, pc[p] = "critical", pc[q] = "critical"
  PROVE  p = q
BY DEF FileOwned, HolderOwnsFile

LEMMA InitHolds == LockedInit => LInv
<1> SUFFICES ASSUME LockedInit PROVE LInv
  OBVIOUS
<1>1. "out" \in Steps /\ cut = 0 /\ failures = 0 /\ signer = "none"
  BY DEF Steps, LockedInit, Init
<1>2. step = [p \in Procs |-> "out"] /\ pc = [p \in Procs |-> "idle"] /\ rec = [p \in Procs |-> LegacyLine]
  BY DEF LockedInit, Init
<1>3. QED BY <1>1, <1>2 DEF LInv

LEMMA StepHolds ==
  ASSUME TypeOK, TypeOK', FileOwned, LInv, [LockedNext]_allVars
  PROVE  LInv'
<1>1. ~compromised' => ~compromised
  BY CompromisedStays, LockedStepsAreLockSteps
<1>2. failures \in Nat /\ failures' \in Nat
  BY LockAssumption DEF TypeOK
<1> USE DEF TypeOK, LInv, Steps, Advance, Goto
<1>3. ASSUME NEW p \in Procs, WriterStep(p) PROVE LInv'
  <2>1. CASE Enter(p)
    BY <1>1, <2>1 DEF Enter, Open
  <2>2. CASE Sign(p)
    <3>1. pc[p] = "critical"
      BY <2>2 DEF Sign
    <3>2. ~compromised => \A q \in Procs : pc[q] = "critical" => q = p
      BY <3>1, Alone
    <3>3. QED BY <2>2, <3>1, <3>2 DEF Sign, lockVars
  <2>3. CASE Refuse(p)
    BY <2>3 DEF Refuse, lockVars
  <2>4. CASE AppendLine(p)
    BY <2>4 DEF AppendLine, lockVars
  <2>5. CASE WriteHead(p)
    BY <2>5 DEF WriteHead, lockVars
  <2>6. ASSUME NEW a \in 1..2, WriteAnchor(p, a) PROVE LInv'
    BY <2>6 DEF WriteAnchor, Anchoring, lockVars
  <2>7. CASE Return(p)
    BY <2>7 DEF Return, Finish
  <2>8. CASE Die(p)
    BY <1>2, <2>8 DEF Die, Crash
  <2>9. QED BY <1>3, <2>1, <2>2, <2>3, <2>4, <2>5, <2>6, <2>7, <2>8 DEF WriterStep
<1>4. ASSUME NEW p \in Procs, WaitStep(p), UNCHANGED ledgerVars PROVE LInv'
  BY <1>1, <1>2, <1>4 DEF WaitStep, Begin, OpenFails, LockBusy, Stat, Reclaim, Wake, DeadlinePasses, ledgerVars
<1>5. CASE (AbandonedLockAges \/ HolderOverruns) /\ UNCHANGED ledgerVars
  BY <1>1, <1>5 DEF AbandonedLockAges, HolderOverruns, ledgerVars
<1>6. CASE UNCHANGED allVars
  BY <1>6 DEF allVars, lockVars, ledgerVars
<1>7. QED BY <1>3, <1>4, <1>5, <1>6 DEF LockedNext

-----------------------------------------------------------------------------
(* The refinement.                                                          *)

LEMMA WritingIsCritical ==
  ASSUME LInv, NEW p \in Writing
  PROVE  p \in Procs /\ pc[p] = "critical"
BY DEF LInv, Writing

\* Ledger reads the files as LockedLedger does: both take LedgerFormat.
LEMMA SameFormat ==
  /\ Section!LegacyLine = LegacyLine /\ Section!NoMark = NoMark
  /\ \A seq, hash : Section!Mark(seq, hash) = Mark(seq, hash)
  /\ \A seq, prev, hash : Section!Line(seq, prev, hash) = Line(seq, prev, hash)
  /\ Section!LastHash(lines) = LastHash(lines)
  /\ Section!Refused <=> Refused
<1>1. \A S : Section!Max(S) = Max(S)
  BY Zenon DEF Section!Max, Max
<1>2. Section!Signed(lines) = Signed(lines) /\ Section!NoHash = NoHash
  BY Zenon DEF Section!Signed, Signed, Section!NoHash, NoHash
<1>3. \A n : Section!HashBefore(lines, n) = HashBefore(lines, n)
  BY <1>1, <1>2, Zenon DEF Section!HashBefore, HashBefore
<1>4. /\ Section!LegacyLine = LegacyLine /\ Section!NoMark = NoMark
      /\ \A seq, hash : Section!Mark(seq, hash) = Mark(seq, hash)
      /\ \A seq, prev, hash : Section!Line(seq, prev, hash) = Line(seq, prev, hash)
  BY <1>2, Zenon DEF Section!LegacyLine, LegacyLine, Section!NoMark, NoMark, Section!Mark, Mark, Section!Line, Line
<1>5. Section!LastHash(lines) = LastHash(lines)
  BY <1>3, Zenon DEF Section!LastHash, LastHash
<1>6. \A i : Section!LineVerified(lines, i, TRUE) <=> LineVerified(lines, i, TRUE)
  BY <1>3, Zenon DEF Section!LineVerified, LineVerified
<1>7. \A anchor : Section!AnchorMatches(lines, head, anchor, TRUE) <=> AnchorMatches(lines, head, anchor, TRUE)
  BY <1>4, <1>5, Zenon DEF Section!AnchorMatches, AnchorMatches
<1>8. Section!HasFailures(lines, head, anchors, TRUE) <=> HasFailures(lines, head, anchors, TRUE)
  BY <1>2, <1>6, <1>7, Zenon DEF Section!HasFailures, HasFailures
<1>9. Section!Refused <=> Refused
  <2>1. Section!Failing <=> Failing
    BY <1>8, Zenon DEF Section!Failing, Failing
  <2>2. Section!Readable <=> Readable
    BY DEF Section!Readable, Readable
  <2>3. QED BY <2>1, <2>2, Zenon DEF Refused, Section!Refused
<1>10. QED BY <1>4, <1>5, <1>9

\* The section is idle while nobody writes, and else where the only process at
\* work is; before a step and after it.
LEMMA WhereTheSectionIs ==
  ASSUME NEW p \in Procs
  PROVE  /\ Writing = {} => SectionStage = "idle" /\ SectionTodo = 0
         /\ Writing = {p} => SectionStage = step[p] /\ SectionTodo = 1
         /\ Writing' = {} => SectionStage' = "idle" /\ SectionTodo' = 0
         /\ Writing' = {p} => SectionStage' = step'[p] /\ SectionTodo' = 1
<1>1. Writing = {p} => AtWork = p
  BY DEF AtWork
<1>2. Writing' = {p} => AtWork' = p
  BY DEF AtWork
<1>3. QED BY <1>1, <1>2 DEF SectionStage, SectionTodo

\* While the process in the callback is alone, the section is where it is.
LEMMA AloneAtWork ==
  ASSUME FileOwned, LInv, ~compromised, NEW p \in Procs, pc[p] = "critical"
  PROVE  Writing = IF step[p] \in {"out", "done"} THEN {} ELSE {p}
BY WritingIsCritical, Alone DEF Writing

\* A step inside the callback moves nobody else.
LEMMA AloneMoves ==
  ASSUME FileOwned, LInv, ~compromised, NEW p \in Procs, pc[p] = "critical", NEW s \in Steps, Advance(p, s)
  PROVE  /\ Writing = IF step[p] \in {"out", "done"} THEN {} ELSE {p}
         /\ Writing' = IF s \in {"out", "done"} THEN {} ELSE {p}
         /\ step'[p] = s
<1>1. step'[p] = s /\ \A q \in Procs \ {p} : step'[q] = step[q]
  BY DEF LInv, Advance
<1>2. Writing = IF step[p] \in {"out", "done"} THEN {} ELSE {p}
  BY AloneAtWork
<1>3. Writing' = IF s \in {"out", "done"} THEN {} ELSE {p}
  BY <1>1, <1>2 DEF Writing
<1>4. QED BY <1>1, <1>2, <1>3

\* The record of the section is the one that process has signed.
LEMMA RecordAtWork ==
  ASSUME NEW p \in Procs
  PROVE  /\ signer = p => SectionRec = rec[p]
         /\ signer' = p => SectionRec' = rec'[p]
BY LockAssumption DEF SectionRec, LockAssumption

\* Whatever leaves the files, the steps and the records alone is nothing to the ledger.
LEMMA SectionStays ==
  ASSUME UNCHANGED ledgerVars
  PROVE  UNCHANGED Section!vars
BY DEF ledgerVars, fileVars, Section!vars, SectionStage, SectionTodo, SectionRec, AtWork, Writing

\* Entering the callback begins a call of one record: nobody else can be in it.
LEMMA EnterImplements ==
  ASSUME TypeOK, FileOwned, LInv, ~compromised, NEW p \in Procs, Enter(p)
  PROVE  Section!Next \/ UNCHANGED Section!vars
<1>1. UNCHANGED <<fileVars, rec, signer, issued, cut>> /\ pc[p] = "open" /\ step[p] = "out"
  BY DEF Enter, Open, LInv
<1>2. SectionRec' = SectionRec /\ lines' = lines /\ head' = head /\ anchors' = anchors
  BY <1>1 DEF SectionRec, fileVars
<1>3. CASE pc'[p] = "critical"
  <2>1. creator = "none"
    BY <1>1, <1>3 DEF Enter, Open, Goto, TypeOK
  <2>2. Writing = {}
    BY <2>1, WritingIsCritical, LockAssumption DEF FileOwned, HolderOwnsFile, LockAssumption
  <2>3. step' = [step EXCEPT ![p] = "sign"]
    BY <1>3 DEF Enter, Advance
  <2>4. Writing' = {p}
    BY <2>2, <2>3 DEF Writing, LInv
  <2>5. SectionStage = "idle" /\ SectionStage' = "sign" /\ SectionTodo' = 1
    BY <2>2, <2>3, <2>4, WhereTheSectionIs DEF LInv
  <2>6. Section!BeginDirect(1)
    BY <1>1, <1>2, <2>5 DEF Section!BeginDirect, Section!files
  <2>7. QED BY <2>6 DEF Section!Next
<1>4. CASE pc'[p] # "critical"
  <2>1. step' = step
    BY <1>1, <1>4 DEF Enter, Advance, LInv
  <2>2. QED BY <1>1, <2>1, SectionStays DEF ledgerVars
<1>5. QED BY <1>3, <1>4

LEMMA SignImplements ==
  ASSUME FileOwned, LInv, ~compromised, NEW p \in Procs, Sign(p) \/ Refuse(p)
  PROVE  Section!Next
<1>1. pc[p] = "critical" /\ step[p] = "sign" /\ UNCHANGED <<lines, head, anchors, cut>>
  BY DEF LInv, Sign, Refuse, fileVars
<1>2. "append" \in Steps /\ "done" \in Steps
  BY DEF Steps
<1>3. Refused <=> Section!Refused
  BY SameFormat
<1>4. CASE Sign(p)
  <2>1. Writing = {p} /\ Writing' = {p} /\ step'[p] = "append"
    BY <1>1, <1>2, <1>4, AloneMoves DEF Sign
  <2>2. SectionStage = "sign" /\ SectionStage' = "append" /\ SectionTodo' = SectionTodo
    BY <1>1, <2>1, WhereTheSectionIs
  <2>3. SectionRec' = Line(Len(lines) + 1, LastHash(lines), issued + 1)
    BY <1>4, RecordAtWork DEF Sign, LInv
  <2>4. Section!Sign
    BY <1>1, <1>3, <1>4, <2>2, <2>3, SameFormat DEF Sign, Section!Sign, Section!SignOver, Section!files
  <2>5. QED BY <2>4 DEF Section!Next
<1>5. CASE Refuse(p)
  <2>1. Writing = {p} /\ Writing' = {}
    BY <1>1, <1>2, <1>5, AloneMoves DEF Refuse
  <2>2. SectionStage = "sign" /\ SectionStage' = "idle" /\ SectionTodo' = 0
    BY <1>1, <2>1, WhereTheSectionIs
  <2>3. SectionRec' = SectionRec
    BY <1>5 DEF Refuse, SectionRec
  <2>4. Section!Refuse
    BY <1>1, <1>3, <1>5, <2>2, <2>3 DEF Refuse, Section!Refuse, Section!files
  <2>5. QED BY <2>4 DEF Section!Next
<1>6. QED BY <1>4, <1>5

LEMMA WriteImplements ==
  ASSUME FileOwned, LInv, ~compromised, NEW p \in Procs,
         AppendLine(p) \/ WriteHead(p) \/ \E a \in 1..2 : WriteAnchor(p, a)
  PROVE  Section!Next
<1>1. /\ step[p] \in {"append", "head", "anchor1", "anchor2"} /\ pc[p] = "critical" /\ signer = p
      /\ UNCHANGED <<rec, signer, issued, cut>>
  BY DEF LInv, AppendLine, WriteHead, WriteAnchor, Anchoring
<1>2. SectionRec = rec[p] /\ SectionRec' = SectionRec
  BY <1>1, RecordAtWork
<1>3. {"head", "anchor1", "anchor2", "done"} \subseteq Steps
  BY DEF Steps
<1>4. CASE AppendLine(p)
  <2>1. Writing = {p} /\ Writing' = {p} /\ step'[p] = "head"
    BY <1>1, <1>3, <1>4, AloneMoves DEF AppendLine
  <2>2. SectionStage = "append" /\ SectionStage' = "head" /\ SectionTodo' = SectionTodo
    BY <1>4, <2>1, WhereTheSectionIs DEF AppendLine
  <2>3. Section!AppendLine
    BY <1>1, <1>2, <1>4, <2>2 DEF AppendLine, Section!AppendLine
  <2>4. QED BY <2>3 DEF Section!Next
<1>5. CASE WriteHead(p)
  <2>1. Writing = {p} /\ Writing' = {p} /\ step'[p] = "anchor1"
    BY <1>1, <1>3, <1>5, AloneMoves DEF WriteHead
  <2>2. SectionStage = "head" /\ SectionStage' = "anchor1" /\ SectionTodo' = SectionTodo
    BY <1>5, <2>1, WhereTheSectionIs DEF WriteHead
  <2>3. Section!WriteHead
    BY <1>1, <1>2, <1>5, <2>2, SameFormat DEF WriteHead, Section!WriteHead
  <2>4. QED BY <2>3 DEF Section!Next
<1>6. ASSUME NEW a \in 1..2, WriteAnchor(p, a) PROVE Section!Next
  <2>1. step[p] = Anchoring[a] /\ Anchoring[a] = Section!AnchorStage[a]
    BY <1>6 DEF WriteAnchor, Anchoring, Section!AnchorStage
  <2>2. Writing = {p} /\ SectionStage = step[p] /\ SectionTodo = 1
    BY <1>1, AloneAtWork, WhereTheSectionIs
  <2>3. CASE a = 1
    <3>1. Writing' = {p} /\ step'[p] = "anchor2"
      BY <1>1, <1>3, <1>6, <2>3, AloneMoves DEF WriteAnchor
    <3>2. SectionStage' = "anchor2" /\ SectionTodo' = SectionTodo
      BY <2>2, <3>1, WhereTheSectionIs
    <3>3. Section!WriteAnchor(1)
      BY <1>1, <1>2, <1>6, <2>1, <2>2, <2>3, <3>2, SameFormat DEF WriteAnchor, Section!WriteAnchor, Section!AnchorDone
    <3>4. QED BY <3>3 DEF Section!Next
  <2>4. CASE a = 2
    <3>1. Writing' = {}
      BY <1>1, <1>3, <1>6, <2>4, AloneMoves DEF WriteAnchor
    <3>2. SectionStage' = "idle" /\ SectionTodo' = 0
      BY <3>1, WhereTheSectionIs
    <3>3. SectionTodo' = SectionTodo - 1 /\ ~(SectionTodo > 1)
      BY <2>2, <3>2
    <3>4. Section!AnchorDone(2)
      BY <1>1, <1>2, <1>6, <3>2, <3>3 DEF WriteAnchor, Section!AnchorDone
    <3>5. anchors' = [anchors EXCEPT ![2] = Section!Mark(SectionRec.seq, SectionRec.hash)]
      BY <1>2, <1>6, <2>4, SameFormat DEF WriteAnchor
    <3>6. Section!WriteAnchor(2)
      BY <2>1, <2>2, <2>4, <3>3, <3>4, <3>5 DEF Section!WriteAnchor
    <3>7. QED BY <3>6 DEF Section!Next
  <2>5. QED BY <2>3, <2>4
<1>7. QED BY <1>4, <1>5, <1>6

\* To leave the callback is nothing to the ledger, to die in the middle of an append
\* interrupts the section.
LEMMA LeaveImplements ==
  ASSUME TypeOK, FileOwned, LInv, ~compromised, NEW p \in Procs, Return(p) \/ Die(p)
  PROVE  Section!Next \/ UNCHANGED Section!vars
<1>1. UNCHANGED <<fileVars, rec, signer, issued>> /\ step' = [step EXCEPT ![p] = "out"]
  BY DEF Return, Die, Advance
<1>2. SectionRec' = SectionRec /\ lines' = lines /\ head' = head /\ anchors' = anchors
  BY <1>1 DEF SectionRec, fileVars
<1>3. CASE p \notin Writing
  <2>1. Writing' = Writing /\ cut' = cut
    BY <1>1, <1>3 DEF Writing, Return, Die, LInv
  <2>2. \A q \in Writing : step'[q] = step[q]
    BY <1>1, <1>3 DEF Writing, LInv
  <2>3. AtWork' = AtWork /\ (Writing # {} => AtWork \in Writing)
    BY <2>1 DEF AtWork
  <2>4. SectionStage' = SectionStage /\ SectionTodo' = SectionTodo
    BY <2>1, <2>2, <2>3 DEF SectionStage, SectionTodo
  <2>5. QED BY <1>1, <1>2, <2>1, <2>4 DEF Section!vars
<1>4. CASE p \in Writing
  <2>1. Die(p) /\ pc[p] = "critical" /\ step[p] \in Steps \ {"out", "done"} /\ cut' = cut + 1
    BY <1>4, WritingIsCritical DEF Return, Die, Writing, LInv
  <2>2. cut < MaxFailures
    BY <2>1, LockAssumption DEF Die, Crash, LInv, TypeOK, LockAssumption
  <2>3. "out" \in Steps /\ Advance(p, "out")
    BY <1>1 DEF Steps, Advance
  <2>4. Writing = {p} /\ Writing' = {}
    BY <2>1, <2>3, AloneMoves
  <2>5. SectionStage # "idle" /\ SectionStage' = "idle" /\ SectionTodo' = 0
    BY <2>1, <2>4, WhereTheSectionIs DEF Steps
  <2>6. Section!Interrupt
    BY <1>1, <1>2, <2>1, <2>2, <2>5 DEF Section!Interrupt, Section!ShortWrite
  <2>7. QED BY <2>6 DEF Section!Next
<1>5. QED BY <1>3, <1>4

LEMMA StepImplements ==
  ASSUME TypeOK, FileOwned, LInv, [LockedNext]_allVars
  PROVE  [Section!Next \/ compromised']_(Section!vars)
<1>1. ~compromised' => ~compromised
  BY CompromisedStays, LockedStepsAreLockSteps
<1>2. ASSUME NEW p \in Procs, WriterStep(p), ~compromised PROVE Section!Next \/ UNCHANGED Section!vars
  BY <1>2, EnterImplements, SignImplements, WriteImplements, LeaveImplements DEF WriterStep
<1>3. UNCHANGED ledgerVars => UNCHANGED Section!vars
  BY SectionStays
<1>4. UNCHANGED allVars => UNCHANGED ledgerVars
  BY DEF allVars
<1>5. QED BY <1>1, <1>2, <1>3, <1>4 DEF LockedNext

-----------------------------------------------------------------------------

\* However many processes append, crash, wait and reclaim, together they implement the
\* one append section of Ledger, until a mutation outlives stale_lock_ms or a fresh lock
\* file is removed (withMutationLock around appendSigned*Records).
THEOREM Composition == LockedSpec => ImplementsLedger
<1>1. LockedInit => Section!Init
  <2> SUFFICES ASSUME LockedInit PROVE Section!Init
    OBVIOUS
  <2>1. step = [p \in Procs |-> "out"] /\ signer = "none" /\ lines = <<>> /\ cut = 0 /\ issued = 0
        /\ head = NoMark /\ anchors = [a \in 1..2 |-> NoMark]
    BY DEF LockedInit
  <2>2. Writing = {}
    BY <2>1 DEF Writing
  <2>3. SectionStage = "idle" /\ SectionTodo = 0 /\ SectionRec = LegacyLine
    BY <2>1, <2>2 DEF SectionStage, SectionTodo, SectionRec
  <2>4. 0 \in 0..0 /\ lines = [i \in 1..0 |-> LegacyLine]
    BY <2>1
  <2>5. QED BY <2>1, <2>3, <2>4, SameFormat DEF Section!Init
<1>2. LockedSpec => []LInv
  BY InitHolds, StepHolds, LockHolds, PTL DEF LockedSpec
<1>3. QED
  BY <1>1, <1>2, LockHolds, StepImplements, PTL DEF LockedSpec, ImplementsLedger
=============================================================================
