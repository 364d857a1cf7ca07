----------------------------- MODULE LedgerReaders -----------------------------
(***************************************************************************)
(* Ledger with a process that verifies it without the mutation lock:       *)
(* CommerceIntegrity, CommerceProof, the lists and doctor read the .jsonl  *)
(* file, the key, the head and the two anchors one after the other         *)
(* (verify*Records in internal/core/ledger_integrity.go) while an append   *)
(* may be under way.                                                       *)
(***************************************************************************)
EXTENDS Ledger

VARIABLES
  reader,    \* the file it reads next; "verdict" when it has read them all
  got,       \* what it has read
  wasSound,  \* history: while it read, the files as a whole were sound
  wasBusy    \* history: while it read, an append was under way or they were not

readerVars == <<reader, got, wasSound, wasBusy>>

ReaderStages == {"lines", "head", "anchor1", "anchor2", "verdict"}

NothingRead ==
  [readable |-> TRUE, lines |-> <<>>, key |-> FALSE, head |-> NoMark, anchor1 |-> NoMark, anchor2 |-> NoMark]

SoundStatus == {"empty", "verified", "legacy_unsigned"}
SoundNow == Readable /\ CurrentStatus \in SoundStatus
BusyNow == stage # "idle" \/ ~SoundNow

ReaderInit ==
  /\ Init
  /\ reader = "lines"
  /\ got = NothingRead
  /\ wasSound = SoundNow
  /\ wasBusy = BusyNow

\* readJSONLines; a file that is too long or does not decode ends the reading.
ReadLines ==
  /\ reader = "lines"
  /\ got' = [got EXCEPT !.readable = Readable, !.lines = lines]
  /\ reader' = IF Readable THEN "head" ELSE "verdict"

ReadHead ==
  /\ reader = "head"
  /\ got' = [got EXCEPT !.key = key, !.head = head]
  /\ reader' = "anchor1"

ReadAnchors ==
  \/ /\ reader = "anchor1"
     /\ got' = [got EXCEPT !.anchor1 = anchors[1]]
     /\ reader' = "anchor2"
  \/ /\ reader = "anchor2"
     /\ got' = [got EXCEPT !.anchor2 = anchors[2]]
     /\ reader' = "verdict"

\* Mutants: only the records count; a ledger without records does not pass.
VerdictOnRecords == got.readable /\ ~HasFailures(got.lines, got.head, <<>>, got.key)

VerdictVerifiedOnly ==
  /\ got.readable
  /\ Status(got.lines, got.head, <<got.anchor1, got.anchor2>>, got.key) = "verified"

\* checkCommerceLedgers: what the reader reports.
Verdict ==
  /\ got.readable
  /\ Status(got.lines, got.head, <<got.anchor1, got.anchor2>>, got.key) \in SoundStatus

Report ==
  /\ reader = "verdict"
  /\ reader' = "lines"
  /\ got' = NothingRead

ReadStep == ReadLines \/ ReadHead \/ ReadAnchors

ReaderNext ==
  \/ /\ Next
     /\ UNCHANGED <<reader, got>>
     /\ wasSound' = (wasSound \/ SoundNow')
     /\ wasBusy' = (wasBusy \/ BusyNow')
  \/ ReadStep /\ UNCHANGED <<vars, wasSound, wasBusy>>
  \/ /\ Report
     /\ wasSound' = SoundNow
     /\ wasBusy' = BusyNow
     /\ UNCHANGED vars

ReaderSpec == ReaderInit /\ [][ReaderNext]_<<vars, readerVars>>

-----------------------------------------------------------------------------

\* A reader that reports a sound ledger is right, although it read four files at
\* four moments: at one of them, or between them, the files were sound as a whole.
\* A proof is never signed over a ledger that was failing all the time.
NoFalseAssurance == reader = "verdict" /\ Verdict => wasSound

\* A reader that reports a failure saw an append under way or a ledger that was
\* failing; it does not accuse a ledger at rest.
NoFalseAlarmAtRest == reader = "verdict" /\ ~Verdict => wasBusy
=============================================================================
