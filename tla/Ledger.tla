-------------------------------- MODULE Ledger --------------------------------
(***************************************************************************)
(* One commerce ledger on disk (install-records.jsonl, billing-records or  *)
(* commerce-receipts) and the steps that append to it:                     *)
(* appendSigned*Record(s), writeLedgerHead and writeLedgerAnchors in       *)
(* internal/core/ledger_integrity.go and commerce_receipt.go.              *)
(*                                                                         *)
(* Every append runs under the mutation lock, so one append is under way   *)
(* at a time (LockedLedger drops that premise).  The files are written one *)
(* after the other; an I/O error, or the death of the process, stops       *)
(* between any two writes and nothing is undone.                           *)
(***************************************************************************)
EXTENDS LedgerFormat

CONSTANTS
  ReadCap,        \* records that fit in the 4 MiB a reader accepts
  MaxLegacy,      \* unsigned records an older release may have left
  MaxBatch,       \* records one call appends (billing: one per meter)
  MaxInterrupts   \* bound on errors and crashes in the middle of an append

ASSUME LedgerAssumption ==
  /\ ReadCap \in Nat \ {0}
  /\ MaxLegacy \in 0..ReadCap
  /\ MaxBatch \in Nat \ {0}
  /\ MaxInterrupts \in Nat

VARIABLES
  lines,       \* the .jsonl file
  tail,        \* how its last line ends, see Tails
  head,        \* the head file
  anchors,     \* the two anchor files, in the order they are written
  key,         \* ledger-integrity-key.json exists
  stage,       \* where the append under way is
  todo,        \* records the call still has to append
  rec,         \* the record it has signed
  issued,      \* hashes handed out so far: an HMAC is never repeated
  interrupts   \* errors and crashes so far

vars == <<lines, tail, head, anchors, key, stage, todo, rec, issued, interrupts>>
files == <<lines, tail, head, anchors, key>>

\* closed: by a newline.  open: the record is whole but its newline is missing,
\* so that the next record will land on the same line.  torn: a line that does
\* not decode.
Tails == {"closed", "open", "torn"}
Stages == {"idle", "sign", "append", "head", "anchor1", "anchor2"}
AnchorStage == <<"anchor1", "anchor2">>

Lines == [seq : Nat, prev : Nat, hash : Nat]
Marks == [records : Nat, hash : Nat]

TypeOK ==
  /\ lines \in Seq(Lines)
  /\ tail \in Tails
  /\ head \in Marks
  /\ anchors \in [1..2 -> Marks]
  /\ key \in BOOLEAN
  /\ stage \in Stages
  /\ todo \in 0..MaxBatch
  /\ rec \in Lines
  /\ issued \in Nat
  /\ interrupts \in 0..MaxInterrupts

Init ==
  /\ \E n \in 0..MaxLegacy : lines = [i \in 1..n |-> LegacyLine]
  /\ tail = "closed"
  /\ head = NoMark
  /\ anchors = [a \in 1..2 |-> NoMark]
  /\ key \in BOOLEAN
  /\ stage = "idle"
  /\ todo = 0
  /\ rec = LegacyLine
  /\ issued = 0
  /\ interrupts = 0

-----------------------------------------------------------------------------
(* The verdict on the files as they are now.                                *)

\* Mutant: the reader accepts a file of any size.
ReadableAtAnySize == tail # "torn"

\* readJSONLines fails on a line it cannot decode and on an oversized file.
Readable == tail # "torn" /\ Len(lines) <= ReadCap

Failing == HasFailures(lines, head, anchors, key)
CurrentStatus == Status(lines, head, anchors, key)

\* signInstallRecord, signBillingRecord, signCommerceReceipt refuse to sign.
Refused == ~Readable \/ Failing

\* ensureCommerceLedgersAppendable also rejects a lagging head.
Appendable == Readable /\ CurrentStatus # "failed"

-----------------------------------------------------------------------------

\* An install checks the ledgers before it touches anything.
BeginGated(n) ==
  /\ stage = "idle"
  /\ Appendable
  /\ stage' = "sign"
  /\ todo' = n
  /\ UNCHANGED <<files, rec, issued, interrupts>>

\* Billing after a run, and a server receipt, go straight to signing.
BeginDirect(n) ==
  /\ stage = "idle"
  /\ stage' = "sign"
  /\ todo' = n
  /\ UNCHANGED <<files, rec, issued, interrupts>>

\* loadOrCreateLedgerIntegrityKey on a fresh machine.
CreateKey ==
  /\ stage = "sign"
  /\ ~key
  /\ key' = TRUE
  /\ UNCHANGED <<lines, tail, head, anchors, stage, todo, rec, issued, interrupts>>

SignOver(previous) ==
  /\ rec' = Line(Len(lines) + 1, previous, issued + 1)
  /\ issued' = issued + 1
  /\ stage' = "append"

\* Mutants: the chain continues from the head file; the head is written before
\* the record; the ledger is not verified first.
SignOverHead ==
  /\ stage = "sign" /\ key /\ ~Refused
  /\ SignOver(head.hash)
  /\ UNCHANGED <<files, todo, interrupts>>

SignHeadFirst ==
  /\ stage = "sign" /\ key /\ ~Refused
  /\ SignOver(LastHash(lines))
  /\ head' = Mark(rec'.seq, rec'.hash)
  /\ UNCHANGED <<lines, tail, anchors, key, todo, interrupts>>

SignUnverified ==
  /\ stage = "sign" /\ key
  /\ SignOver(LastHash(lines))
  /\ UNCHANGED <<files, todo, interrupts>>

Sign ==
  /\ stage = "sign"
  /\ key
  /\ ~Refused
  /\ SignOver(LastHash(lines))
  /\ UNCHANGED <<files, todo, interrupts>>

Refuse ==
  /\ stage = "sign"
  /\ key
  /\ Refused
  /\ stage' = "idle"
  /\ todo' = 0
  /\ UNCHANGED <<files, rec, issued, interrupts>>

\* appendJSONLine: one write at the end of the file.
AppendLine ==
  /\ stage = "append"
  /\ lines' = Append(lines, rec)
  /\ tail' = IF tail = "closed" THEN "closed" ELSE "torn"
  /\ stage' = "head"
  /\ UNCHANGED <<head, anchors, key, todo, rec, issued, interrupts>>

WriteHead ==
  /\ stage = "head"
  /\ head' = Mark(rec.seq, rec.hash)
  /\ stage' = "anchor1"
  /\ UNCHANGED <<lines, tail, anchors, key, todo, rec, issued, interrupts>>

AnchorDone(a) ==
  /\ stage' = IF a = 1 THEN "anchor2" ELSE IF todo > 1 THEN "sign" ELSE "idle"
  /\ UNCHANGED <<lines, tail, head, key, rec, issued, interrupts>>

\* After the second anchor the call goes on to its next record or returns.
WriteAnchor(a) ==
  /\ stage = AnchorStage[a]
  /\ key
  /\ anchors' = [anchors EXCEPT ![a] = Mark(rec.seq, rec.hash)]
  /\ todo' = IF a = 1 THEN todo ELSE todo - 1
  /\ AnchorDone(a)

\* A write of the record that stops short.  The other files are replaced
\* atomically.
ShortWrite ==
  \/ UNCHANGED <<lines, tail>>
  \/ /\ stage = "append"
     /\ tail' = "torn"
     /\ UNCHANGED lines
  \/ /\ stage = "append"
     /\ tail = "closed"
     /\ tail' = "open"
     /\ lines' = Append(lines, rec)

\* An error return, or the death of the process, at any step.
Interrupt ==
  /\ stage # "idle"
  /\ interrupts < MaxInterrupts
  /\ interrupts' = interrupts + 1
  /\ ShortWrite
  /\ stage' = "idle"
  /\ todo' = 0
  /\ UNCHANGED <<head, anchors, key, rec, issued>>

Next ==
  \/ \E n \in 1..MaxBatch : BeginGated(n) \/ BeginDirect(n)
  \/ CreateKey \/ Sign \/ Refuse \/ AppendLine \/ WriteHead
  \/ \E a \in 1..2 : WriteAnchor(a)
  \/ Interrupt

Spec == Init /\ [][Next]_vars

-----------------------------------------------------------------------------

\* Whatever was interrupted, every signed record verifies in the chain: it has
\* its position, names the hash before it, and the key that signed it exists.
\* A failing ledger is one whose head or anchors lag, never a broken chain.
ChainIntact == \A i \in Signed(lines) : LineVerified(lines, i, key)

\* Head and anchors only vouch for records that are in the file, each no
\* further than the file written before it.
Vouched(mark) ==
  \/ mark = NoMark
  \/ mark.records \in Signed(lines) /\ lines[mark.records].hash = mark.hash

EvidenceFollowsRecords ==
  /\ Vouched(head) /\ Vouched(anchors[1]) /\ Vouched(anchors[2])
  /\ anchors[2].records <= anchors[1].records
  /\ anchors[1].records <= head.records

\* Between appends an anchor is at most one record behind: the sign step
\* refuses to build on a record that has not been anchored.
AnchorsLagByOne ==
  \A a \in 1..2 : anchors[a] # NoMark /\ stage \in {"idle", "sign"} =>
                    Len(lines) <= anchors[a].records + 1

\* The size limit is only met by a reader, after the record that crosses it
\* was appended: the file ends at most one record past the limit.
StopsPastReadCap == Len(lines) <= ReadCap + 1

\* A ledger that shows a failure between appends keeps showing it for good: a
\* call may still begin, but it never gets past the verification, so no record is
\* added and nothing repairs a lagging head or anchor.
FailureIsFinal ==
  [][(stage \in {"idle", "sign"} /\ Failing =>
       /\ Failing'
       /\ stage' \in {"idle", "sign"}
       /\ lines' = lines /\ head' = head /\ anchors' = anchors)]_vars

\* The ledger implements SealedLog: an append in progress aside, the ledger is
\* sealed exactly when the next signature would be refused.
Hashes == [i \in DOMAIN lines |-> lines[i].hash]
Sealed == stage \notin {"head", "anchor1", "anchor2"} /\ Refused

Promise == INSTANCE SealedLog WITH
  log <- Hashes, sealed <- Sealed, Unsigned <- NoHash

ImplementsSealedLog == Promise!Spec
=============================================================================
