----------------------------- MODULE LedgerProofs -----------------------------
(***************************************************************************)
(* Proofs about Ledger and the reader of LedgerReaders, for every size     *)
(* limit, legacy prefix, batch size and number of interruptions.           *)
(***************************************************************************)
EXTENDS LedgerReaders, TLAPS

\* Once a ledger holds a signed record, every later record is signed.
SignedSuffix(ls) ==
  \A i, j \in DOMAIN ls : i < j /\ ls[i].hash # NoHash => ls[j].hash # NoHash

\* On such a ledger the hash a record must name is that of its neighbour: the
\* scan that verify*Records makes over all earlier records needs one of them.
LEMMA HashBeforeIsNeighbour ==
  ASSUME NEW ls \in Seq(Lines), SignedSuffix(ls), NEW n \in 1..(Len(ls) + 1)
  PROVE  HashBefore(ls, n) = IF n = 1 THEN NoHash ELSE ls[n - 1].hash
<1> DEFINE earlier == {i \in Signed(ls) : i < n}
<1>0. /\ DOMAIN ls = 1..Len(ls)
      /\ Len(ls) \in Nat
  OBVIOUS
<1>1. CASE earlier = {}
  <2>1. HashBefore(ls, n) = NoHash
    BY <1>1 DEF HashBefore
  <2>2. n # 1 => n - 1 \in DOMAIN ls /\ n - 1 \notin Signed(ls)
    BY <1>0, <1>1
  <2>3. QED BY <2>1, <2>2 DEF Signed
<1>2. CASE earlier # {}
  <2>1. n # 1 /\ n - 1 \in DOMAIN ls
    BY <1>0, <1>2 DEF Signed
  <2>2. n - 1 \in earlier
    <3>1. PICK i \in DOMAIN ls : ls[i].hash # NoHash /\ i < n
      BY <1>2 DEF Signed
    <3>2. CASE i = n - 1
      BY <3>1, <3>2, <1>0 DEF Signed
    <3>3. CASE i < n - 1
      BY <3>1, <3>3, <2>1, <1>0 DEF Signed, SignedSuffix
    <3>4. QED BY <3>1, <3>2, <3>3, <1>0
  <2>3. \A i \in earlier : n - 1 >= i
    BY <1>0 DEF Signed
  <2>4. \A i \in earlier : (\A j \in earlier : i >= j) => i = n - 1
    BY <1>0, <2>2, <2>3 DEF Signed
  <2>5. Max(earlier) = n - 1
    BY <2>2, <2>3, <2>4 DEF Max
  <2>6. HashBefore(ls, n) = ls[n - 1].hash
    BY <1>2, <2>5 DEF HashBefore
  <2>7. QED BY <2>1, <2>6
<1>3. QED BY <1>1, <1>2

\* The hash the next record must name is that of the last line, signed or not.
LEMMA LastHashIsLastLine ==
  ASSUME NEW ls \in Seq(Lines), SignedSuffix(ls)
  PROVE  LastHash(ls) = IF Len(ls) = 0 THEN NoHash ELSE ls[Len(ls)].hash
<1>1. Len(ls) \in Nat
  OBVIOUS
<1>2. Len(ls) + 1 \in 1..(Len(ls) + 1)
  BY <1>1
<1>3. HashBefore(ls, Len(ls) + 1) = IF Len(ls) + 1 = 1 THEN NoHash ELSE ls[Len(ls)].hash
  BY <1>1, <1>2, HashBeforeIsNeighbour
<1>4. QED BY <1>1, <1>3 DEF LastHash

-----------------------------------------------------------------------------

\* Every initial state is well typed.
LEMMA InitTyped == Init => TypeOK
<1> SUFFICES ASSUME Init PROVE TypeOK
  OBVIOUS
<1>1. lines \in Seq(Lines)
  <2>1. PICK n \in 0..MaxLegacy : lines = [i \in 1..n |-> LegacyLine]
    BY DEF Init
  <2>2. LegacyLine \in Lines /\ n \in Nat
    BY LedgerAssumption DEF LedgerAssumption, LegacyLine, Line, NoHash, Lines
  <2>3. QED BY <2>1, <2>2
<1>2. /\ head \in Marks
      /\ anchors \in [1..2 -> Marks]
  BY DEF Init, NoMark, Mark, NoHash, Marks
<1>3. rec \in Lines
  BY DEF Init, LegacyLine, Line, NoHash, Lines
<1>4. todo \in 0..MaxBatch /\ interrupts \in 0..MaxInterrupts /\ issued \in Nat
  BY LedgerAssumption DEF Init, LedgerAssumption
<1>5. tail \in Tails /\ key \in BOOLEAN /\ stage \in Stages
  BY Zenon DEF Init, Tails, Stages
<1>6. QED BY <1>1, <1>2, <1>3, <1>4, <1>5 DEF TypeOK

\* A call that is under way still has a record to append.
Working == stage # "idle" => todo # 0

\* The last hash is a number.
LEMMA LastHashTyped ==
  ASSUME NEW ls \in Seq(Lines), SignedSuffix(ls)
  PROVE  LastHash(ls) \in Nat
<1>1. Len(ls) \in Nat /\ (Len(ls) # 0 => ls[Len(ls)] \in Lines)
  OBVIOUS
<1>2. QED BY <1>1, LastHashIsLastLine DEF Lines, NoHash

\* No step leaves the types, as long as the signed records form a suffix.
LEMMA TypeStep ==
  ASSUME TypeOK, Working, SignedSuffix(lines), [Next]_vars
  PROVE  TypeOK' /\ Working'
<1> USE DEF TypeOK, Working, files, Stages
<1>1. ASSUME NEW n \in 1..MaxBatch, BeginGated(n) \/ BeginDirect(n)
      PROVE  TypeOK' /\ Working'
  BY <1>1, LedgerAssumption DEF LedgerAssumption, BeginGated, BeginDirect
<1>2. CASE CreateKey
  BY <1>2 DEF CreateKey
<1>3. CASE Sign
  <2>1. rec' \in Lines
    <3>1. LastHash(lines) \in Nat /\ Len(lines) \in Nat
      BY LastHashTyped
    <3>2. QED BY <1>3, <3>1 DEF Sign, SignOver, Line, Lines
  <2>2. QED BY <1>3, <2>1 DEF Sign, SignOver
<1>4. CASE Refuse
  BY <1>4, LedgerAssumption DEF LedgerAssumption, Refuse
<1>5. CASE AppendLine
  BY <1>5 DEF AppendLine, Tails
<1>6. CASE WriteHead
  BY <1>6 DEF WriteHead, Mark, Marks, Lines
<1>7. ASSUME NEW a \in 1..2, WriteAnchor(a)
      PROVE  TypeOK' /\ Working'
  <2>1. anchors' \in [1..2 -> Marks]
    BY <1>7 DEF WriteAnchor, Mark, Marks, Lines
  <2>2. /\ todo' \in 0..MaxBatch
        /\ stage' # "idle" => todo' # 0
    BY <1>7, LedgerAssumption DEF LedgerAssumption, WriteAnchor, AnchorDone, AnchorStage
  <2>3. stage' \in Stages
    BY <1>7 DEF WriteAnchor, AnchorDone
  <2>4. QED BY <1>7, <2>1, <2>2, <2>3 DEF WriteAnchor, AnchorDone
<1>8. CASE Interrupt
  <2>1. lines' \in Seq(Lines) /\ tail' \in Tails
    <3>1. CASE UNCHANGED <<lines, tail>>
      BY <3>1
    <3>2. CASE tail' = "torn" /\ UNCHANGED lines
      BY <3>2 DEF Tails
    <3>3. CASE tail' = "open" /\ lines' = Append(lines, rec)
      BY <3>3 DEF Tails
    <3>4. QED BY <1>8, <3>1, <3>2, <3>3 DEF Interrupt, ShortWrite
  <2>2. todo' \in 0..MaxBatch /\ interrupts' \in 0..MaxInterrupts
    BY <1>8, LedgerAssumption DEF LedgerAssumption, Interrupt
  <2>3. QED BY <1>8, <2>1, <2>2 DEF Interrupt
<1>9. CASE UNCHANGED vars
  BY <1>9 DEF vars
<1>10. QED
  BY <1>1, <1>2, <1>3, <1>4, <1>5, <1>6, <1>7, <1>8, <1>9 DEF Next

-----------------------------------------------------------------------------

\* Signed records carry their position and their neighbour's hash, and the key
\* that signed them exists.
Linked ==
  \A i \in DOMAIN lines : lines[i].hash # NoHash =>
    /\ key
    /\ lines[i].seq = i
    /\ lines[i].prev = IF i = 1 THEN NoHash ELSE lines[i - 1].hash

\* The record about to be appended fits the end of the file as it is now, ...
FitsEnd ==
  stage = "append" =>
    /\ key
    /\ rec.seq = Len(lines) + 1
    /\ rec.prev = IF Len(lines) = 0 THEN NoHash ELSE lines[Len(lines)].hash
    /\ rec.hash # NoHash

\* ... and the record that was appended is the end of the file.
IsEnd ==
  stage \in {"head", "anchor1", "anchor2"} =>
    /\ key
    /\ Len(lines) # 0
    /\ rec = lines[Len(lines)]
    /\ rec.seq = Len(lines)
    /\ rec.hash # NoHash

\* The strengthening of ChainIntact that every step preserves.
ChainInv == TypeOK /\ Working /\ SignedSuffix(lines) /\ Linked /\ FitsEnd /\ IsEnd

\* Linked is what ChainIntact says once the search for the earlier hash is
\* resolved.
LEMMA LinkedGivesChain ==
  ASSUME lines \in Seq(Lines), SignedSuffix(lines), Linked
  PROVE  ChainIntact
<1> SUFFICES ASSUME NEW i \in Signed(lines) PROVE LineVerified(lines, i, key)
  BY DEF ChainIntact
<1>1. i \in 1..(Len(lines) + 1) /\ i \in DOMAIN lines /\ lines[i].hash # NoHash
  BY DEF Signed
<1>2. HashBefore(lines, i) = IF i = 1 THEN NoHash ELSE lines[i - 1].hash
  BY <1>1, HashBeforeIsNeighbour
<1>3. QED BY <1>1, <1>2 DEF Linked, LineVerified

\* The .jsonl file changes in one way only: the signed record goes to its end.
LEMMA LinesStep ==
  ASSUME [Next]_vars
  PROVE  \/ lines' = lines
         \/ stage = "append" /\ lines' = Append(lines, rec)
BY DEF Next, vars, files, BeginGated, BeginDirect, CreateKey, Sign, SignOver, Refuse,
       AppendLine, WriteHead, WriteAnchor, AnchorDone, Interrupt, ShortWrite

\* The key file, once there, stays.
LEMMA KeyStep == ASSUME [Next]_vars, key PROVE key'
BY DEF Next, vars, files, BeginGated, BeginDirect, CreateKey, Sign, SignOver, Refuse,
       AppendLine, WriteHead, WriteAnchor, AnchorDone, Interrupt

\* Appending the signed record keeps the chain linked.
LEMMA LinkedStep ==
  ASSUME ChainInv, [Next]_vars
  PROVE  SignedSuffix(lines') /\ Linked'
<1> USE DEF ChainInv, TypeOK
<1>1. CASE lines' = lines
  BY <1>1, KeyStep DEF Linked
<1>2. CASE stage = "append" /\ lines' = Append(lines, rec)
  <2>1. /\ Len(lines) \in Nat
        /\ DOMAIN lines' = 1..(Len(lines) + 1)
        /\ \A i \in 1..Len(lines) : lines'[i] = lines[i]
        /\ lines'[Len(lines) + 1] = rec
    BY <1>2
  <2>2. key /\ key' /\ rec.hash # NoHash /\ rec.seq = Len(lines) + 1
        /\ rec.prev = IF Len(lines) = 0 THEN NoHash ELSE lines[Len(lines)].hash
    BY <1>2, KeyStep DEF FitsEnd
  <2>3. SignedSuffix(lines')
    BY <2>1, <2>2 DEF SignedSuffix
  <2>4. ASSUME NEW i \in DOMAIN lines', lines'[i].hash # NoHash
        PROVE  /\ lines'[i].seq = i
               /\ lines'[i].prev = IF i = 1 THEN NoHash ELSE lines'[i - 1].hash
    <3>1. CASE i = Len(lines) + 1
      BY <2>1, <2>2, <3>1
    <3>2. CASE i \in 1..Len(lines)
      BY <2>1, <2>4, <3>2 DEF Linked
    <3>3. QED BY <2>1, <3>1, <3>2
  <2>5. QED BY <2>2, <2>3, <2>4 DEF Linked
<1>3. QED BY <1>1, <1>2, LinesStep

\* Signing reads the end of the file, and nothing moves it until the record is
\* there.
LEMMA EndStep ==
  ASSUME ChainInv, [Next]_vars
  PROVE  FitsEnd' /\ IsEnd'
<1> USE DEF ChainInv, TypeOK, files, FitsEnd, IsEnd
<1>1. ASSUME NEW n \in 1..MaxBatch, BeginGated(n) \/ BeginDirect(n)
      PROVE  FitsEnd' /\ IsEnd'
  BY <1>1 DEF BeginGated, BeginDirect
<1>2. CASE CreateKey
  BY <1>2 DEF CreateKey
<1>3. CASE Sign
  <2>1. rec' = Line(Len(lines) + 1, LastHash(lines), issued + 1) /\ key /\ stage' = "append"
    BY <1>3 DEF Sign, SignOver
  <2>2. UNCHANGED <<lines, key>>
    BY <1>3 DEF Sign
  <2>3. issued + 1 # NoHash
    BY DEF NoHash
  <2>4. LastHash(lines) = IF Len(lines) = 0 THEN NoHash ELSE lines[Len(lines)].hash
    BY LastHashIsLastLine
  <2>5. QED BY <2>1, <2>2, <2>3, <2>4 DEF Line
<1>4. CASE Refuse
  BY <1>4 DEF Refuse
<1>5. CASE AppendLine
  BY <1>5 DEF AppendLine
<1>6. CASE WriteHead
  BY <1>6 DEF WriteHead
<1>7. ASSUME NEW a \in 1..2, WriteAnchor(a)
      PROVE  FitsEnd' /\ IsEnd'
  BY <1>7 DEF WriteAnchor, AnchorDone, AnchorStage
<1>8. CASE Interrupt
  BY <1>8 DEF Interrupt
<1>9. CASE UNCHANGED vars
  BY <1>9 DEF vars
<1>10. QED
  BY <1>1, <1>2, <1>3, <1>4, <1>5, <1>6, <1>7, <1>8, <1>9 DEF Next

\* A ledger left by an older release has no signed record.
LEMMA InitUnsigned ==
  ASSUME Init
  PROVE  /\ Len(lines) \in 0..MaxLegacy
         /\ \A i \in DOMAIN lines : lines[i].hash = NoHash
<1>1. PICK n \in 0..MaxLegacy : lines = [i \in 1..n |-> LegacyLine]
  BY DEF Init
<1>2. n \in Nat
  BY LedgerAssumption DEF LedgerAssumption
<1>3. Len(lines) = n
  BY <1>1, <1>2
<1>4. QED BY <1>1, <1>3 DEF LegacyLine, Line

\* ChainInv holds initially and every step preserves it.
LEMMA ChainInductive ==
  /\ Init => ChainInv
  /\ ChainInv /\ [Next]_vars => ChainInv'
<1>1. ASSUME Init PROVE ChainInv
  <2>1. SignedSuffix(lines) /\ Linked
    BY <1>1, InitUnsigned DEF SignedSuffix, Linked
  <2>2. Working /\ FitsEnd /\ IsEnd
    BY <1>1 DEF Init, Working, FitsEnd, IsEnd
  <2>3. QED BY <1>1, <2>1, <2>2, InitTyped DEF ChainInv
<1>2. ASSUME ChainInv, [Next]_vars PROVE ChainInv'
  BY <1>2, TypeStep, LinkedStep, EndStep DEF ChainInv
<1>3. QED BY <1>1, <1>2

\* The ledger's files and the append under way stay in the types of TypeOK.
THEOREM TypeCorrect == Spec => []TypeOK
<1>1. ChainInv => TypeOK
  BY DEF ChainInv
<1>2. QED BY <1>1, ChainInductive, PTL DEF Spec

\* Whatever is interrupted, and however often, every signed record of the ledger
\* verifies in its chain.
THEOREM Chain == Spec => []ChainIntact
<1>1. ChainInv => ChainIntact
  BY LinkedGivesChain DEF ChainInv, TypeOK
<1>2. QED BY <1>1, ChainInductive, PTL DEF Spec

-----------------------------------------------------------------------------

\* Vouched, for any records.
VouchedIn(ls, mark) ==
  \/ mark = NoMark
  \/ mark.records \in Signed(ls) /\ ls[mark.records].hash = mark.hash

\* A mark vouches for a position that exists, and growth does not take it away.
LEMMA VouchedGrows ==
  ASSUME NEW ls \in Seq(Lines), NEW r \in Lines, NEW m \in Marks, VouchedIn(ls, m)
  PROVE  /\ m.records <= Len(ls)
         /\ VouchedIn(Append(ls, r), m)
<1>1. Len(ls) \in Nat /\ DOMAIN ls = 1..Len(ls) /\ DOMAIN Append(ls, r) = 1..(Len(ls) + 1)
      /\ \A i \in 1..Len(ls) : Append(ls, r)[i] = ls[i]
  OBVIOUS
<1>2. CASE m = NoMark
  BY <1>1, <1>2 DEF VouchedIn, NoMark, Mark
<1>3. CASE m.records \in Signed(ls) /\ ls[m.records].hash = m.hash
  BY <1>1, <1>3 DEF VouchedIn, Signed
<1>4. QED BY <1>2, <1>3 DEF VouchedIn

\* The evidence trails the records file by file: what the head says the first
\* anchor is about to say, what that says the second is about to say.
EvidenceInv ==
  /\ \A a \in 1..2 : VouchedIn(lines, anchors[a])
  /\ VouchedIn(lines, head)
  /\ anchors[2].records <= anchors[1].records
  /\ anchors[1].records <= head.records
  /\ stage \in {"anchor1", "anchor2"} => head = Mark(rec.seq, rec.hash)
  /\ stage = "anchor2" => anchors[1] = Mark(rec.seq, rec.hash)

\* A step keeps what the files vouch for and only moves marks forward.
LEMMA EvidenceStep ==
  ASSUME ChainInv, EvidenceInv, [Next]_vars
  PROVE  EvidenceInv'
<1> USE DEF ChainInv, TypeOK
<1>0. \A m \in Marks : VouchedIn(lines, m) => VouchedIn(lines', m) /\ m.records <= Len(lines)
  BY LinesStep, VouchedGrows
<1>1. head \in Marks /\ anchors[1] \in Marks /\ anchors[2] \in Marks /\ DOMAIN anchors = 1..2
  OBVIOUS
<1>2. CASE head' = head /\ anchors' = anchors
           /\ (stage' \in {"anchor1", "anchor2"} => stage' = stage /\ rec' = rec)
  BY <1>0, <1>1, <1>2 DEF EvidenceInv
<1>3. CASE WriteHead
  <2>1. /\ head' = Mark(rec.seq, rec.hash) /\ rec' = rec /\ lines' = lines
        /\ anchors' = anchors /\ stage' = "anchor1" /\ stage = "head"
    BY <1>3 DEF WriteHead
  <2>2. rec = lines[Len(lines)] /\ rec.seq = Len(lines) /\ rec.hash # NoHash /\ Len(lines) # 0
    BY <2>1 DEF IsEnd
  <2>3. VouchedIn(lines', head')
    BY <2>1, <2>2 DEF VouchedIn, Mark, Signed
  <2>4. anchors[1].records <= head'.records
    BY <1>0, <1>1, <2>1, <2>2 DEF EvidenceInv, Mark
  <2>5. QED BY <2>1, <2>3, <2>4 DEF EvidenceInv
<1>4. ASSUME NEW a \in 1..2, WriteAnchor(a) PROVE EvidenceInv'
  <2>1. /\ anchors' = [anchors EXCEPT ![a] = Mark(rec.seq, rec.hash)]
        /\ head' = head /\ rec' = rec /\ lines' = lines
    BY <1>4 DEF WriteAnchor, AnchorDone
  <2>2. /\ a = 1 => stage = "anchor1" /\ stage' = "anchor2"
        /\ a = 2 => stage = "anchor2" /\ stage' \in {"idle", "sign"}
    BY <1>4 DEF WriteAnchor, AnchorDone, AnchorStage
  <2>3. /\ rec = lines[Len(lines)] /\ rec.seq = Len(lines) /\ rec.hash # NoHash /\ Len(lines) # 0
    BY <2>2 DEF IsEnd
  <2>4. VouchedIn(lines, Mark(rec.seq, rec.hash))
    BY <2>3 DEF VouchedIn, Mark, Signed
  <2>5. head = Mark(rec.seq, rec.hash)
    BY <2>2 DEF EvidenceInv
  <2>6. CASE a = 1
    <3>1. anchors'[1] = Mark(rec.seq, rec.hash) /\ anchors'[2] = anchors[2]
      BY <1>1, <2>1, <2>6
    <3>2. anchors[2].records <= Mark(rec.seq, rec.hash).records
      BY <1>0, <1>1, <2>3 DEF EvidenceInv, Mark
    <3>3. Mark(rec.seq, rec.hash).records <= head.records
      BY <1>1, <2>5 DEF Marks
    <3>4. QED BY <2>1, <2>2, <2>4, <2>5, <2>6, <3>1, <3>2, <3>3 DEF EvidenceInv
  <2>7. CASE a = 2
    <3>1. anchors'[2] = Mark(rec.seq, rec.hash) /\ anchors'[1] = anchors[1]
      BY <1>1, <2>1, <2>7
    <3>2. anchors[1] = Mark(rec.seq, rec.hash)
      BY <2>2, <2>7 DEF EvidenceInv
    <3>3. anchors'[2].records <= anchors'[1].records
      BY <1>1, <3>1, <3>2 DEF Marks
    <3>4. QED BY <2>1, <2>2, <2>4, <2>5, <2>7, <3>1, <3>2, <3>3 DEF EvidenceInv
  <2>8. QED BY <2>6, <2>7
<1>5. ASSUME NEW n \in 1..MaxBatch, BeginGated(n) \/ BeginDirect(n) PROVE EvidenceInv'
  BY <1>2, <1>5 DEF BeginGated, BeginDirect, files
<1>6. CASE CreateKey \/ Sign \/ Refuse \/ AppendLine \/ Interrupt \/ UNCHANGED vars
  BY <1>2, <1>6
  DEF CreateKey, Sign, SignOver, Refuse, AppendLine, Interrupt, vars, files
<1>7. QED BY <1>3, <1>4, <1>5, <1>6 DEF Next

\* Head and anchors never run ahead of the records, nor of each other, after any
\* number of interruptions.
THEOREM Evidence == Spec => []EvidenceFollowsRecords
<1>1. Init => EvidenceInv
  BY DEF Init, EvidenceInv, VouchedIn, NoMark, Mark
<1>2. EvidenceInv => EvidenceFollowsRecords
  BY DEF EvidenceInv, EvidenceFollowsRecords, VouchedIn, Vouched
<1>3. ChainInv /\ EvidenceInv /\ [Next]_vars => EvidenceInv'
  BY EvidenceStep
<1>4. QED BY <1>1, <1>2, <1>3, ChainInductive, PTL DEF Spec

-----------------------------------------------------------------------------

\* Between signing and appending, the verdict that let the record be signed
\* stands; without it the limits below would not hold.
LimitInv ==
  /\ stage = "append" => ~Refused
  /\ \A a \in 1..2 : anchors[a] # NoMark => Len(lines) <= anchors[a].records + 1
  /\ Len(lines) <= ReadCap + 1

\* Where an append is due, the file is within its limit and both anchors agree
\* with it.
LEMMA RoomForOne ==
  ASSUME TypeOK, ~Refused
  PROVE  /\ Len(lines) <= ReadCap
         /\ \A a \in 1..2 : anchors[a] # NoMark => anchors[a].records = Len(lines)
<1>1. DOMAIN anchors = 1..2
  BY DEF TypeOK
<1>2. QED BY <1>1 DEF Refused, Readable, Failing, HasFailures, AnchorMatches

\* A step appends at most the one record there was room for.
LEMMA LimitStep ==
  ASSUME ChainInv, LimitInv, [Next]_vars
  PROVE  LimitInv'
<1> USE LedgerAssumption DEF LedgerAssumption, ChainInv, TypeOK
<1>0. Len(lines) \in Nat /\ DOMAIN anchors = 1..2
  OBVIOUS
<1>1. Len(lines') <= ReadCap + 1
  <2>1. CASE lines' = lines
    BY <2>1 DEF LimitInv
  <2>2. CASE stage = "append" /\ lines' = Append(lines, rec)
    BY <1>0, <2>2, RoomForOne DEF LimitInv
  <2>3. QED BY <2>1, <2>2, LinesStep
<1>2. ASSUME NEW a \in 1..2, anchors'[a] # NoMark
      PROVE  Len(lines') <= anchors'[a].records + 1
  <2>0. anchors[a].records \in Nat
    BY DEF Marks
  <2>1. CASE anchors'[a] = anchors[a] /\ lines' = lines
    BY <1>2, <2>1 DEF LimitInv
  <2>2. CASE anchors'[a] = anchors[a] /\ stage = "append" /\ lines' = Append(lines, rec)
    BY <1>0, <1>2, <2>0, <2>2, RoomForOne DEF LimitInv
  <2>3. ASSUME NEW b \in 1..2, WriteAnchor(b)
        PROVE  Len(lines') <= anchors'[a].records + 1
    <3>1. /\ lines' = lines /\ stage \in {"anchor1", "anchor2"}
          /\ anchors'[a] = IF a = b THEN Mark(rec.seq, rec.hash) ELSE anchors[a]
      BY <2>3, <1>0 DEF WriteAnchor, AnchorDone, AnchorStage
    <3>2. rec.seq = Len(lines)
      BY <3>1 DEF IsEnd
    <3>3. QED BY <1>0, <1>2, <3>1, <3>2 DEF LimitInv, Mark
  <2>4. (\A b \in 1..2 : ~WriteAnchor(b)) => anchors' = anchors
    BY DEF Next, vars, files, BeginGated, BeginDirect, CreateKey, Sign, SignOver, Refuse,
           AppendLine, WriteHead, Interrupt
  <2>5. QED BY <2>1, <2>2, <2>3, <2>4, LinesStep
<1>3. ASSUME stage' = "append" PROVE ~Refused'
  <2>1. CASE Sign
    BY <2>1 DEF Sign, files, Refused, Readable, Failing
  <2>2. CASE UNCHANGED vars
    BY <1>3, <2>2 DEF LimitInv, vars, Refused, Readable, Failing
  <2>3. QED
    BY <1>3, <2>1, <2>2 DEF Next, BeginGated, BeginDirect, CreateKey, Refuse,
       AppendLine, WriteHead, WriteAnchor, AnchorDone, Interrupt
<1>4. QED BY <1>1, <1>2, <1>3 DEF LimitInv

\* An anchor that is two records behind could only be the work of an append that
\* was allowed although the one before it had not been anchored; and no append is
\* allowed past the size limit.
THEOREM Limits == Spec => [](AnchorsLagByOne /\ StopsPastReadCap)
<1>1. Init => LimitInv
  <2> SUFFICES ASSUME Init PROVE LimitInv
    OBVIOUS
  <2>1. Len(lines) <= ReadCap + 1
    BY InitUnsigned, LedgerAssumption DEF LedgerAssumption
  <2>2. QED BY <2>1 DEF Init, LimitInv
<1>2. LimitInv => AnchorsLagByOne /\ StopsPastReadCap
  BY DEF LimitInv, AnchorsLagByOne, StopsPastReadCap
<1>3. ChainInv /\ LimitInv /\ [Next]_vars => LimitInv'
  BY LimitStep
<1>4. QED BY <1>1, <1>2, <1>3, ChainInductive, PTL DEF Spec

-----------------------------------------------------------------------------

\* Without a key there is nothing to fail: no record is signed, so no anchor
\* vouches for one.
LEMMA NothingToFail ==
  ASSUME NEW k, Signed(lines) = {}, \A a \in DOMAIN anchors : anchors[a] = NoMark
  PROVE  ~HasFailures(lines, head, anchors, k)
BY DEF HasFailures, AnchorMatches

\* A ledger without a key is such a ledger.
LEMMA NoKeyNoEvidence ==
  ASSUME ChainInv, EvidenceInv, ~key
  PROVE  Signed(lines) = {} /\ \A a \in DOMAIN anchors : anchors[a] = NoMark
<1>1. Signed(lines) = {}
  BY DEF ChainInv, Linked, Signed
<1>2. DOMAIN anchors = 1..2
  BY DEF ChainInv, TypeOK
<1>3. QED BY <1>1, <1>2 DEF EvidenceInv, VouchedIn

\* Outside an append, a step that changes the verdict creates the first key, and
\* then there was nothing to fail.
LEMMA VerdictStep ==
  ASSUME ChainInv, EvidenceInv, [Next]_vars, stage \in {"idle", "sign"}
  PROVE  UNCHANGED <<lines, tail>> /\ (Failing' <=> Failing)
<1>1. CASE CreateKey
  <2>1. Signed(lines) = {} /\ \A a \in DOMAIN anchors : anchors[a] = NoMark
    BY <1>1, NoKeyNoEvidence DEF CreateKey
  <2>2. ~HasFailures(lines, head, anchors, key) /\ ~HasFailures(lines, head, anchors, key')
    BY <2>1, NothingToFail
  <2>3. QED BY <1>1, <2>2 DEF CreateKey, Failing
<1>2. CASE UNCHANGED files
  <2>1. lines' = lines /\ tail' = tail /\ head' = head /\ anchors' = anchors /\ key' = key
    BY <1>2 DEF files
  <2>2. Failing' <=> Failing
    BY <2>1, Zenon DEF Failing
  <2>3. QED BY <2>1, <2>2
<1>3. ~CreateKey => UNCHANGED files
  BY DEF Next, vars, files, BeginGated, BeginDirect, Sign, SignOver, Refuse,
         AppendLine, WriteHead, WriteAnchor, AnchorDone, AnchorStage, Interrupt, ShortWrite
<1>4. QED BY <1>1, <1>2, <1>3 DEF files

\* Between appends a failure is final: no step repairs the evidence, and no call
\* gets to its append.
THEOREM Finality == Spec => FailureIsFinal
<1>1. Init => EvidenceInv
  BY DEF Init, EvidenceInv, VouchedIn, NoMark, Mark
<1>2. ChainInv /\ EvidenceInv /\ [Next]_vars => EvidenceInv'
  BY EvidenceStep
<1>3. ChainInv /\ EvidenceInv /\ [Next]_vars =>
        [(stage \in {"idle", "sign"} /\ Failing =>
           /\ Failing'
           /\ stage' \in {"idle", "sign"}
           /\ lines' = lines /\ head' = head /\ anchors' = anchors)]_vars
  <2> SUFFICES ASSUME ChainInv, EvidenceInv, [Next]_vars, stage \in {"idle", "sign"}, Failing
               PROVE  Failing' /\ stage' \in {"idle", "sign"} /\ UNCHANGED <<lines, head, anchors>>
    OBVIOUS
  <2>1. Failing'
    BY VerdictStep
  <2>2. Refused
    BY DEF Refused
  <2>3. stage' \in {"idle", "sign"} /\ UNCHANGED <<lines, head, anchors>>
    BY <2>2 DEF Next, vars, files, BeginGated, BeginDirect, CreateKey, Sign, Refuse,
       AppendLine, WriteHead, WriteAnchor, AnchorDone, AnchorStage, Interrupt, ShortWrite
  <2>4. QED BY <2>1, <2>3
<1>4. QED BY <1>1, <1>2, <1>3, ChainInductive, PTL DEF Spec, FailureIsFinal

-----------------------------------------------------------------------------

\* No hash is ahead of the last one issued, and the one about to be appended is
\* in no line yet.
FreshInv ==
  /\ \A i \in DOMAIN lines : lines[i].hash <= issued
  /\ stage = "append" => rec.hash = issued
  /\ stage = "append" => \A i \in DOMAIN lines : lines[i].hash < rec.hash

\* Every line has a number for its hash.
LEMMA HashesAreNumbers ==
  ASSUME TypeOK
  PROVE  /\ DOMAIN lines = 1..Len(lines)
         /\ Len(lines) \in Nat
         /\ \A i \in DOMAIN lines : lines[i].hash \in Nat
<1>1. DOMAIN lines = 1..Len(lines) /\ Len(lines) \in Nat
  BY DEF TypeOK
<1>2. \A i \in DOMAIN lines : lines[i] \in Lines
  BY DEF TypeOK
<1>3. \A line \in Lines : line.hash \in Nat
  BY DEF Lines
<1>4. QED BY <1>1, <1>2, <1>3

\* Signing issues a hash above all others, appending uses it once.
LEMMA FreshStep ==
  ASSUME ChainInv, FreshInv, [Next]_vars
  PROVE  FreshInv'
<1> USE DEF ChainInv, TypeOK, FreshInv
<1>0. /\ DOMAIN lines = 1..Len(lines)
      /\ Len(lines) \in Nat
      /\ \A i \in DOMAIN lines : lines[i].hash \in Nat
  BY HashesAreNumbers
<1>1. CASE Sign
  <2>1. lines' = lines /\ issued' = issued + 1 /\ rec'.hash = issued + 1
    BY <1>1 DEF Sign, SignOver, files, Line
  <2>2. QED BY <1>0, <2>1
<1>2. ASSUME stage' # "append", issued' = issued PROVE FreshInv'
  <2>1. CASE lines' = lines
    BY <1>2, <2>1
  <2>2. CASE stage = "append" /\ lines' = Append(lines, rec)
    <3>1. /\ DOMAIN lines' = 1..(Len(lines) + 1)
          /\ \A i \in 1..Len(lines) : lines'[i] = lines[i]
          /\ lines'[Len(lines) + 1] = rec
      BY <2>2
    <3>2. QED BY <1>0, <1>2, <2>2, <3>1
  <2>3. QED BY <2>1, <2>2, LinesStep
<1>3. CASE UNCHANGED vars
  BY <1>3 DEF vars
<1>4. ~Sign /\ ~UNCHANGED vars => stage' # "append" /\ issued' = issued
  BY DEF Next, files, BeginGated, BeginDirect, CreateKey, Refuse, AppendLine,
         WriteHead, WriteAnchor, AnchorDone, AnchorStage, Interrupt
<1>5. QED BY <1>1, <1>2, <1>3, <1>4

RefinementInv == ChainInv /\ EvidenceInv /\ LimitInv /\ FreshInv

\* While a record is on its way into the file the log is not sealed, and the
\* record is the log's next.
LEMMA AppendExtends ==
  ASSUME RefinementInv, stage = "append", lines' = Append(lines, rec)
  PROVE  Promise!Extend
<1> USE DEF RefinementInv, ChainInv, TypeOK
<1>1. /\ Len(lines) \in Nat
      /\ DOMAIN lines = 1..Len(lines)
      /\ DOMAIN lines' = 1..(Len(lines) + 1)
      /\ \A i \in 1..Len(lines) : lines'[i] = lines[i]
      /\ lines'[Len(lines) + 1] = rec
  OBVIOUS
<1>2. ~Sealed
  BY DEF LimitInv, Sealed
<1>3. /\ Len(Hashes) = Len(lines) /\ DOMAIN Hashes = 1..Len(lines)
      /\ Len(Hashes') = Len(lines) + 1
  BY <1>1 DEF Hashes
<1>4. \A i \in 1..Len(lines) : Hashes'[i] = Hashes[i] /\ Hashes'[i] # Hashes'[Len(lines) + 1]
  <2>1. \A i \in 1..Len(lines) : lines[i].hash < rec.hash /\ lines[i].hash \in Nat
    BY <1>1, HashesAreNumbers DEF FreshInv
  <2>2. rec.hash \in Nat
    BY DEF Lines
  <2>3. QED BY <1>1, <2>1, <2>2 DEF Hashes
<1>5. Sealed' \in BOOLEAN
  BY DEF Sealed
<1>6. QED BY <1>2, <1>3, <1>4, <1>5 DEF Promise!Extend

\* Every step of the ledger is a step of the log, or leaves it alone.
LEMMA StepImplements ==
  ASSUME RefinementInv, [Next]_vars
  PROVE  [Promise!Next]_<<Hashes, Sealed>>
<1>1. CASE stage = "append" /\ lines' = Append(lines, rec)
  BY <1>1, AppendExtends DEF Promise!Next
<1>2. CASE lines' = lines
  <2>1. Hashes' = Hashes
    BY <1>2 DEF Hashes
  <2>2. CASE stage \in {"idle", "sign"}
    <3>1. UNCHANGED <<lines, tail>> /\ (Failing' <=> Failing)
      BY <2>2, VerdictStep DEF RefinementInv
    <3>2. Refused' <=> Refused
      BY <3>1 DEF Refused, Readable
    <3>3. stage' \notin {"head", "anchor1", "anchor2"}
      BY <2>2 DEF Next, vars, BeginGated, BeginDirect, CreateKey, Sign, SignOver, Refuse,
         AppendLine, WriteHead, WriteAnchor, AnchorDone, AnchorStage, Interrupt
    <3>4. Sealed' <=> Sealed
      BY <2>2, <3>2, <3>3 DEF Sealed
    <3>5. Sealed' = Sealed
      BY <3>4 DEF Sealed
    <3>6. QED BY <2>1, <3>5
  <2>3. CASE stage \notin {"idle", "sign"}
    <3>1. ~Sealed
      BY <2>3 DEF RefinementInv, ChainInv, TypeOK, Stages, LimitInv, Sealed
    <3>2. CASE Sealed'
      BY <2>1, <3>1, <3>2 DEF Promise!Next, Promise!Seal
    <3>3. CASE ~Sealed'
      <4>1. Sealed' = Sealed
        BY <3>1, <3>3 DEF Sealed
      <4>2. QED BY <2>1, <4>1
    <3>4. QED BY <3>2, <3>3
  <2>4. QED BY <2>2, <2>3
<1>3. QED BY <1>1, <1>2, LinesStep

LEMMA RefinementStarts == Init => RefinementInv
<1> SUFFICES ASSUME Init PROVE RefinementInv
  OBVIOUS
<1>1. ChainInv
  BY ChainInductive
<1>2. EvidenceInv
  BY DEF Init, EvidenceInv, VouchedIn, NoMark, Mark
<1>3. LimitInv
  BY InitUnsigned, LedgerAssumption DEF LedgerAssumption, Init, LimitInv
<1>4. FreshInv
  BY InitUnsigned DEF Init, FreshInv, NoHash
<1>5. QED BY <1>1, <1>2, <1>3, <1>4 DEF RefinementInv

\* A ledger is sealed for good by its first integrity failure, and until then
\* only ever grows by records it has never held.
THEOREM Implementation == Spec => ImplementsSealedLog
<1>1. Init => RefinementInv
  BY RefinementStarts
<1>2. RefinementInv /\ [Next]_vars => RefinementInv'
  BY ChainInductive, EvidenceStep, LimitStep, FreshStep DEF RefinementInv
<1>3. Init => Promise!Init
  <2> SUFFICES ASSUME Init PROVE Promise!Init
    OBVIOUS
  <2>1. \A i \in DOMAIN Hashes : Hashes[i] = NoHash
    BY InitUnsigned DEF Hashes
  <2>2. ~Refused
    <3>1. Signed(lines) = {} /\ \A a \in DOMAIN anchors : anchors[a] = NoMark
      BY InitUnsigned DEF Init, Signed
    <3>2. Len(lines) <= ReadCap
      BY InitUnsigned, LedgerAssumption DEF LedgerAssumption
    <3>3. tail # "torn"
      BY DEF Init
    <3>4. QED BY <3>1, <3>2, <3>3, NothingToFail DEF Refused, Readable, Failing
  <2>3. Sealed = FALSE
    BY <2>2 DEF Sealed
  <2>4. QED BY <2>1, <2>3 DEF Promise!Init
<1>4. RefinementInv /\ [Next]_vars => [Promise!Next]_<<Hashes, Sealed>>
  BY StepImplements
<1>5. QED
  BY <1>1, <1>2, <1>3, <1>4, PTL DEF Spec, ImplementsSealedLog, Promise!Spec, Promise!logVars

-----------------------------------------------------------------------------
(* The reader that takes no lock (LedgerReaders).                           *)

GotRecords ==
  [readable : BOOLEAN, lines : Seq(Lines), key : BOOLEAN, head : Marks, anchor1 : Marks, anchor2 : Marks]

\* The reader leaves the ledger alone.
LEMMA ReaderStepsAreSteps == [ReaderNext]_<<vars, readerVars>> => [Next]_vars
BY DEF ReaderNext

\* The hashes of signed records grow.
Ascending ==
  \A i, j \in DOMAIN lines : i < j /\ lines[i].hash # NoHash => lines[i].hash < lines[j].hash

LEMMA AscendingStep ==
  ASSUME ChainInv, FreshInv, Ascending, [Next]_vars
  PROVE  Ascending'
<1>1. CASE lines' = lines
  BY <1>1 DEF Ascending
<1>2. CASE stage = "append" /\ lines' = Append(lines, rec)
  <2>1. /\ DOMAIN lines = 1..Len(lines) /\ Len(lines) \in Nat
        /\ DOMAIN lines' = 1..(Len(lines) + 1)
        /\ \A i \in 1..Len(lines) : lines'[i] = lines[i]
        /\ lines'[Len(lines) + 1] = rec
    BY <1>2 DEF ChainInv, TypeOK
  <2>2. \A i \in DOMAIN lines : lines[i].hash < rec.hash
    BY <1>2 DEF FreshInv
  <2>3. QED BY <2>1, <2>2 DEF Ascending
<1>3. QED BY <1>1, <1>2, LinesStep

LedgerInv == RefinementInv /\ Ascending

LEMMA LedgerInvariance == ReaderSpec => []LedgerInv
<1>1. Init => RefinementInv
  BY RefinementStarts
<1>2. Init => Ascending
  BY InitUnsigned DEF Ascending
<1>3. RefinementInv /\ [Next]_vars => RefinementInv'
  BY ChainInductive, EvidenceStep, LimitStep, FreshStep DEF RefinementInv
<1>4. LedgerInv /\ [Next]_vars => LedgerInv'
  BY <1>3, AscendingStep DEF LedgerInv, RefinementInv
<1>5. ReaderInit => LedgerInv
  BY <1>1, <1>2 DEF ReaderInit, LedgerInv
<1>6. QED BY <1>4, <1>5, ReaderStepsAreSteps, PTL DEF ReaderSpec

\* What head and anchors say of the records ls when they are up to date.
EndOf(ls) == Mark(Len(ls), LastHash(ls))

\* The files are sound when they hold no signed record, ...
LEMMA UnsignedIsSound ==
  ASSUME LedgerInv, Readable, Signed(lines) = {}
  PROVE  SoundNow
<1>1. head = NoMark /\ \A a \in DOMAIN anchors : anchors[a] = NoMark
  BY DEF LedgerInv, RefinementInv, EvidenceInv, VouchedIn, ChainInv, TypeOK
<1>2. ~HasFailures(lines, head, anchors, key)
  BY <1>1, NothingToFail
<1>3. Len(lines) # 0 => Signed(lines) # DOMAIN lines
  <2>1. Len(lines) \in Nat /\ DOMAIN lines = 1..Len(lines)
    BY DEF LedgerInv, RefinementInv, ChainInv, TypeOK
  <2>2. Len(lines) # 0 => 1 \in DOMAIN lines
    BY <2>1
  <2>3. QED BY <2>2
<1>4. head.hash = NoHash
  BY <1>1 DEF NoMark, Mark
<1>5. CurrentStatus \in {"empty", "legacy_unsigned"}
  BY <1>2, <1>3, <1>4 DEF CurrentStatus, Status
<1>6. QED BY <1>5 DEF SoundNow, SoundStatus

\* ... and when the head and every anchor there is vouch for the last one.
LEMMA UpToDateIsSound ==
  ASSUME LedgerInv, Readable, Signed(lines) # {}, head = EndOf(lines),
         \A a \in 1..2 : anchors[a] \in {NoMark, EndOf(lines)}
  PROVE  SoundNow
<1>1. /\ lines \in Seq(Lines) /\ SignedSuffix(lines) /\ Linked /\ DOMAIN anchors = 1..2
      /\ Len(lines) \in Nat /\ DOMAIN lines = 1..Len(lines)
  BY DEF LedgerInv, RefinementInv, ChainInv, TypeOK
<1>2. key /\ Len(lines) # 0 /\ lines[Len(lines)].hash # NoHash
  BY <1>1 DEF Signed, Linked, SignedSuffix
<1>3. LastHash(lines) # NoHash /\ LastHash(lines) = head.hash
  BY <1>1, <1>2, LastHashIsLastLine DEF EndOf, Mark
<1>4. \A i \in Signed(lines) : LineVerified(lines, i, key)
  BY <1>1, LinkedGivesChain DEF ChainIntact
<1>5. \A a \in DOMAIN anchors : AnchorMatches(lines, head, anchors[a], key)
  BY <1>1, <1>2 DEF AnchorMatches, EndOf, Mark
<1>6. ~HasFailures(lines, head, anchors, key)
  BY <1>4, <1>5 DEF HasFailures
<1>7. HeadMatched(lines, head)
  BY <1>1, <1>2, <1>3 DEF HeadMatched
<1>8. CurrentStatus \in {"verified", "legacy_unsigned"}
  BY <1>2, <1>6, <1>7 DEF CurrentStatus, Status
<1>9. QED BY <1>8 DEF SoundNow, SoundStatus

\* Marks in the order they are written: when one of them is that of the last record and
\* the later ones are not there, the files are sound.
Marked(m) ==
  \/ anchors[2] = m
  \/ anchors[1] = m /\ anchors[2] = NoMark
  \/ head = m /\ anchors[1] = NoMark /\ anchors[2] = NoMark

LEMMA MarkedIsSound ==
  LedgerInv /\ Readable /\ Signed(lines) # {} /\ Marked(EndOf(lines)) => SoundNow
<1> SUFFICES ASSUME LedgerInv, Readable, Signed(lines) # {}, Marked(EndOf(lines)) PROVE SoundNow
  OBVIOUS
<1> DEFINE end == EndOf(lines)
<1>1. /\ head \in Marks /\ anchors[1] \in Marks /\ anchors[2] \in Marks
      /\ lines \in Seq(Lines) /\ SignedSuffix(lines) /\ Len(lines) \in Nat /\ DOMAIN lines = 1..Len(lines)
      /\ VouchedIn(lines, head) /\ VouchedIn(lines, anchors[1]) /\ VouchedIn(lines, anchors[2])
      /\ anchors[2].records <= anchors[1].records /\ anchors[1].records <= head.records
  BY DEF LedgerInv, RefinementInv, EvidenceInv, ChainInv, TypeOK
<1>2. Len(lines) # 0 /\ LastHash(lines) = lines[Len(lines)].hash
  BY <1>1, LastHashIsLastLine DEF Signed
<1>3. end.records = Len(lines) /\ end.hash = lines[Len(lines)].hash
  BY <1>2 DEF EndOf, Mark
<1>4. ASSUME NEW m \in Marks, VouchedIn(lines, m), m.records >= Len(lines) PROVE m = end
  <2>1. m # NoMark
    BY <1>1, <1>2, <1>4 DEF NoMark, Mark
  <2>2. m.records = Len(lines) /\ m.hash = lines[Len(lines)].hash
    BY <1>1, <1>4, <2>1 DEF VouchedIn, Signed
  <2>3. QED BY <1>2, <2>2 DEF Marks, EndOf, Mark
<1>5. head = end /\ \A a \in 1..2 : anchors[a] \in {NoMark, end}
  <2> HIDE DEF end
  <2>1. CASE anchors[2] = end
    <3>1. anchors[1].records >= Len(lines) /\ head.records >= Len(lines)
      BY <1>1, <1>3, <2>1 DEF Marks
    <3>2. anchors[1] = end /\ head = end
      BY <1>1, <1>4, <3>1
    <3>3. QED BY <2>1, <3>2
  <2>2. CASE anchors[1] = end /\ anchors[2] = NoMark
    <3>1. head.records >= Len(lines)
      BY <1>1, <1>3, <2>2 DEF Marks
    <3>2. head = end
      BY <1>1, <1>4, <3>1
    <3>3. QED BY <2>2, <3>2
  <2>3. CASE head = end /\ anchors[1] = NoMark /\ anchors[2] = NoMark
    BY <2>3
  <2>4. Marked(end)
    BY DEF end
  <2>5. QED BY <2>1, <2>2, <2>3, <2>4 DEF Marked
<1>6. QED BY <1>5, UpToDateIsSound

-----------------------------------------------------------------------------

GotTyped == got \in GotRecords /\ reader \in ReaderStages

\* What a reader that saw no append under way and no failure has read is still there.
AlarmInv ==
  ~wasBusy =>
    /\ stage = "idle" /\ SoundNow
    /\ reader # "lines" => got.readable /\ got.lines = lines
    /\ reader \in {"anchor1", "anchor2", "verdict"} => got.key = key /\ got.head = head
    /\ reader \in {"anchor2", "verdict"} => got.anchor1 = anchors[1]
    /\ reader = "verdict" => got.anchor2 = anchors[2]

LEMMA NothingReadTyped == NothingRead \in GotRecords
<1>1. NoMark \in Marks /\ <<>> \in Seq(Lines)
  BY DEF NoMark, Mark, NoHash, Marks
<1>2. QED BY <1>1 DEF NothingRead, GotRecords

LEMMA GotTypedStep ==
  ASSUME GotTyped, TypeOK, [ReaderNext]_<<vars, readerVars>>
  PROVE  GotTyped'
<1> USE DEF GotTyped, ReaderStages
<1>1. CASE ReadLines
  <2>1. Readable \in BOOLEAN
    BY DEF Readable
  <2>2. got' \in GotRecords
    BY <1>1, <2>1 DEF ReadLines, GotRecords, TypeOK
  <2>3. QED BY <1>1, <2>2 DEF ReadLines
<1>2. CASE ReadHead
  BY <1>2 DEF ReadHead, GotRecords, TypeOK
<1>3. CASE ReadAnchors
  <2>1. anchors[1] \in Marks /\ anchors[2] \in Marks
    BY DEF TypeOK
  <2>2. got' \in GotRecords
    BY <1>3, <2>1 DEF ReadAnchors, GotRecords
  <2>3. QED BY <1>3, <2>2 DEF ReadAnchors
<1>4. CASE Report
  BY <1>4, NothingReadTyped DEF Report
<1>5. CASE UNCHANGED <<reader, got>>
  BY <1>5
<1>6. ReadLines \/ ReadHead \/ ReadAnchors \/ Report \/ UNCHANGED <<reader, got>>
  BY Zenon DEF ReaderNext, ReadStep, readerVars
<1>7. QED
  BY <1>1, <1>2, <1>3, <1>4, <1>5, <1>6

\* From idle, a step of the ledger is the beginning of an append.
LEMMA AppendIsBusy ==
  ASSUME stage = "idle", Next PROVE stage' # "idle"
BY DEF Next, BeginGated, BeginDirect, CreateKey, Sign, SignOver, Refuse, AppendLine, WriteHead,
       WriteAnchor, AnchorStage, Interrupt

LEMMA AlarmStep ==
  ASSUME AlarmInv, GotTyped, [ReaderNext]_<<vars, readerVars>>
  PROVE  AlarmInv'
<1>1. ASSUME UNCHANGED vars PROVE SoundNow' = SoundNow
  BY <1>1 DEF SoundNow, Readable, CurrentStatus, vars
<1>2. ASSUME Next, wasBusy' = (wasBusy \/ BusyNow') PROVE AlarmInv'
  <2> SUFFICES ASSUME ~wasBusy' PROVE FALSE
    BY DEF AlarmInv
  <2>1. ~wasBusy /\ ~BusyNow'
    BY <1>2
  <2>2. stage = "idle" /\ stage' = "idle"
    BY <2>1 DEF AlarmInv, BusyNow
  <2>3. QED BY <1>2, <2>2, AppendIsBusy
<1>3. ASSUME ReadStep, UNCHANGED <<vars, wasSound, wasBusy>> PROVE AlarmInv'
  <2> SUFFICES ASSUME ~wasBusy' PROVE AlarmInv'
    BY DEF AlarmInv
  <2>1. /\ stage' = "idle" /\ SoundNow /\ SoundNow' /\ ~wasBusy
        /\ UNCHANGED <<lines, key, head, anchors>>
    BY <1>1, <1>3 DEF AlarmInv, vars
  <2>2. Readable
    BY <2>1 DEF SoundNow
  <2>3. CASE ReadLines
    BY <2>1, <2>2, <2>3 DEF ReadLines, GotTyped, GotRecords, AlarmInv
  <2>4. CASE ReadHead
    BY <2>1, <2>4 DEF ReadHead, GotTyped, GotRecords, AlarmInv
  <2>5. CASE ReadAnchors
    BY <2>1, <2>5 DEF ReadAnchors, GotTyped, GotRecords, AlarmInv
  <2>6. QED BY <1>3, <2>3, <2>4, <2>5 DEF ReadStep
<1>4. ASSUME Report, wasBusy' = BusyNow, UNCHANGED vars PROVE AlarmInv'
  BY <1>1, <1>4 DEF Report, BusyNow, AlarmInv, vars
<1>5. ASSUME UNCHANGED <<vars, readerVars>> PROVE AlarmInv'
  BY <1>1, <1>5 DEF AlarmInv, vars, readerVars
<1>6. QED
  BY <1>2, <1>3, <1>4, <1>5 DEF ReaderNext

\* A reader that reports a failure saw an append under way or a ledger that was failing.
THEOREM NoAlarm == ReaderSpec => []NoFalseAlarmAtRest
<1>1. ReaderInit => GotTyped /\ AlarmInv
  <2> SUFFICES ASSUME ReaderInit PROVE GotTyped /\ AlarmInv
    OBVIOUS
  <2>1. GotTyped
    BY NothingReadTyped DEF ReaderInit, GotTyped, ReaderStages
  <2>2. AlarmInv
    BY DEF ReaderInit, AlarmInv, BusyNow, Init
  <2>3. QED BY <2>1, <2>2
<1>2. GotTyped /\ AlarmInv /\ LedgerInv => NoFalseAlarmAtRest
  <2> SUFFICES ASSUME AlarmInv, LedgerInv, reader = "verdict", ~wasBusy PROVE Verdict
    BY DEF NoFalseAlarmAtRest
  <2>1. /\ SoundNow /\ got.readable /\ got.lines = lines /\ got.key = key
        /\ got.head = head /\ got.anchor1 = anchors[1] /\ got.anchor2 = anchors[2]
    BY DEF AlarmInv
  <2>2. <<anchors[1], anchors[2]>> = anchors
    BY DEF LedgerInv, RefinementInv, ChainInv, TypeOK
  <2>3. QED BY <2>1, <2>2 DEF Verdict, SoundNow, CurrentStatus
<1>3. LedgerInv => TypeOK
  BY DEF LedgerInv, RefinementInv, ChainInv
<1>4. QED
  BY <1>1, <1>2, <1>3, GotTypedStep, AlarmStep, LedgerInvariance, PTL DEF ReaderSpec

-----------------------------------------------------------------------------

\* The reader is past the records and could read them; what head and anchors that are
\* up to date say of them.
Reading == reader # "lines" /\ got.readable
Last == EndOf(got.lines)

\* The records it has read are the file, or have been followed by others.
SeenInv ==
  /\ SignedSuffix(got.lines)
  /\ Len(got.lines) <= Len(lines)
  /\ Len(got.lines) = Len(lines) => got.lines = lines
  /\ Len(got.lines) # 0 => lines[Len(got.lines)] = got.lines[Len(got.lines)]

\* As long as nothing follows them, a call that writes head or anchors writes beside a
\* file that can be read, ...
WritingInv ==
  Len(got.lines) = Len(lines) /\ stage \in {"head", "anchor1", "anchor2"} => Readable

\* ... so that marks that were ever complete were so when the files were sound.
MarkedInv ==
  /\ Signed(got.lines) = {} => wasSound
  /\ Signed(got.lines) # {} /\ Marked(Last) => wasSound

\* What it read of the marks, with what is to be read later.
HeadRead ==
  reader # "head" /\ got.head.hash = Last.hash => wasSound \/ anchors[1] # NoMark
Anchor1Read ==
  reader \in {"anchor2", "verdict"} /\ got.head.hash = Last.hash =>
    /\ got.anchor1 = Last => wasSound \/ anchors[2] # NoMark
    /\ got.anchor1 = NoMark => wasSound
Anchor2Read ==
  reader = "verdict" /\ got.head.hash = Last.hash /\ {got.anchor1, got.anchor2} \subseteq {NoMark, Last} => wasSound
ReadInv == Signed(got.lines) # {} => HeadRead /\ Anchor1Read /\ Anchor2Read

AssuranceInv ==
  /\ SoundNow => wasSound
  /\ reader \in {"head", "anchor1", "anchor2"} => got.readable
  /\ Reading => SeenInv /\ WritingInv /\ MarkedInv /\ ReadInv

\* A step of the ledger that writes a mark writes the position of the last record and
\* nothing else.
LEMMA MarkStep ==
  ASSUME ChainInv, [Next]_vars
  PROVE  \/ head' = head /\ anchors' = anchors
         \/ /\ stage \in {"head", "anchor1", "anchor2"} /\ UNCHANGED <<lines, tail>>
            /\ \/ head'.records = Len(lines) /\ anchors' = anchors
               \/ \E a \in 1..2 : /\ anchors'[a].records = Len(lines) /\ head' = head
                                  /\ \A b \in 1..2 \ {a} : anchors'[b] = anchors[b]
<1>1. CASE WriteHead
  BY <1>1 DEF WriteHead, Mark, ChainInv, IsEnd
<1>2. ASSUME NEW a \in 1..2, WriteAnchor(a)
      PROVE  /\ stage \in {"head", "anchor1", "anchor2"} /\ UNCHANGED <<lines, tail>>
             /\ anchors'[a].records = Len(lines) /\ head' = head
             /\ \A b \in 1..2 \ {a} : anchors'[b] = anchors[b]
  <2>1. stage \in {"anchor1", "anchor2"}
    BY <1>2 DEF WriteAnchor, AnchorStage
  <2>2. rec.seq = Len(lines) /\ anchors \in [1..2 -> Marks]
    BY <2>1 DEF ChainInv, IsEnd, TypeOK
  <2>3. /\ anchors' = [anchors EXCEPT ![a] = Mark(rec.seq, rec.hash)]
        /\ UNCHANGED <<lines, tail, head>>
    BY <1>2 DEF WriteAnchor, AnchorDone
  <2>4. QED BY <2>1, <2>2, <2>3 DEF Mark
<1>3. CASE head' = head /\ anchors' = anchors
  BY <1>3
<1>4. WriteHead \/ (\E a \in 1..2 : WriteAnchor(a)) \/ (head' = head /\ anchors' = anchors)
  BY Zenon DEF Next, vars, files, BeginGated, BeginDirect, CreateKey, Sign, SignOver, Refuse, AppendLine, Interrupt
<1>5. QED
  <2>1. CASE \E a \in 1..2 : WriteAnchor(a)
    <3>1. PICK a \in 1..2 : WriteAnchor(a)
      BY <2>1
    <3>2. QED BY <1>2, <3>1
  <2>2. QED BY <1>1, <1>3, <1>4, <2>1

\* A step that adds no record and leaves a call among the marks leaves the file readable.
LEMMA WritingStep ==
  ASSUME ChainInv, [Next]_vars, lines' = lines, stage' \in {"head", "anchor1", "anchor2"}
  PROVE  stage \in {"head", "anchor1", "anchor2"} /\ tail' = tail
<1>1. ~AppendLine
  <2>1. Len(lines) \in Nat /\ Len(Append(lines, rec)) = Len(lines) + 1
    BY DEF ChainInv, TypeOK
  <2>2. QED BY <2>1 DEF AppendLine
<1>2. QED
  BY <1>1 DEF Next, vars, files, BeginGated, BeginDirect, CreateKey, Sign, SignOver, Refuse, WriteHead,
              WriteAnchor, AnchorDone, AnchorStage, Interrupt

LEMMA SeenStep ==
  ASSUME ChainInv, GotTyped, SeenInv, [Next]_vars, UNCHANGED got
  PROVE  /\ SeenInv'
         /\ Len(got.lines) = Len(lines') => lines' = lines
<1>1. Len(got.lines) \in Nat /\ Len(lines) \in Nat /\ lines \in Seq(Lines)
  BY DEF ChainInv, TypeOK, GotTyped, GotRecords
<1>2. CASE lines' = lines
  BY <1>2 DEF SeenInv
<1>3. CASE lines' = Append(lines, rec)
  <2>1. Len(lines') = Len(lines) + 1 /\ \A i \in 1..Len(lines) : lines'[i] = lines[i]
    BY <1>1, <1>3
  <2>2. QED BY <1>1, <2>1 DEF SeenInv
<1>4. QED BY <1>2, <1>3, LinesStep

\* What the end of the records it has read looks like.
LEMMA LastTyped ==
  ASSUME GotTyped, SeenInv, Signed(got.lines) # {}
  PROVE  /\ Len(got.lines) \in Nat \ {0}
         /\ Last.records = Len(got.lines)
         /\ Last.hash = got.lines[Len(got.lines)].hash
         /\ Last.hash # NoHash
<1>1. /\ got.lines \in Seq(Lines) /\ Len(got.lines) \in Nat /\ DOMAIN got.lines = 1..Len(got.lines)
      /\ SignedSuffix(got.lines)
  BY DEF GotTyped, GotRecords, SeenInv
<1>2. PICK i \in DOMAIN got.lines : got.lines[i].hash # NoHash
  BY DEF Signed
<1>3. Len(got.lines) # 0 /\ got.lines[Len(got.lines)].hash # NoHash
  BY <1>1, <1>2 DEF SignedSuffix
<1>4. LastHash(got.lines) = got.lines[Len(got.lines)].hash
  BY <1>1, <1>3, LastHashIsLastLine
<1>5. QED BY <1>1, <1>3, <1>4 DEF Last, EndOf, Mark

\* A ledger step that completes the marks of the records read makes the files sound.
LEMMA MarkedStep ==
  ASSUME LedgerInv, LedgerInv', GotTyped, SeenInv, WritingInv, Signed(got.lines) # {}, [Next]_vars, UNCHANGED got,
         Marked(Last)'
  PROVE  Marked(Last) \/ SoundNow'
<1>1. ChainInv /\ GotTyped
  BY DEF LedgerInv, RefinementInv
<1>2. Last.records = Len(got.lines) /\ Len(got.lines) \in Nat \ {0} /\ Last' = Last
  BY LastTyped DEF Last
<1>3. CASE head' = head /\ anchors' = anchors
  BY <1>2, <1>3 DEF Marked
<1>4. CASE /\ stage \in {"head", "anchor1", "anchor2"} /\ UNCHANGED <<lines, tail>>
           /\ Len(got.lines) = Len(lines)
  <2>1. Readable'
    BY <1>4 DEF WritingInv, Readable
  <2>2. got.lines = lines'
    BY <1>4 DEF SeenInv
  <2>3. Marked(EndOf(lines))' /\ Signed(lines') # {}
    BY <1>2, <2>2 DEF Last, Marked
  <2>4. (LedgerInv /\ Readable /\ Signed(lines) # {} /\ Marked(EndOf(lines)) => SoundNow)'
    BY MarkedIsSound, PTL
  <2>5. QED BY <2>1, <2>3, <2>4
<1>5. ASSUME Len(got.lines) # Len(lines),
             \/ head'.records = Len(lines) /\ anchors' = anchors
             \/ \E a \in 1..2 : /\ anchors'[a].records = Len(lines) /\ head' = head
                                /\ \A b \in 1..2 \ {a} : anchors'[b] = anchors[b]
      PROVE  Marked(Last)
  <2>1. Len(lines) # 0 /\ NoMark.records = 0
    BY <1>2, <1>5 DEF SeenInv, NoMark, Mark
  <2>2. CASE head'.records = Len(lines) /\ anchors' = anchors
    BY <1>2, <1>5, <2>1, <2>2 DEF Marked
  <2>3. ASSUME NEW a \in 1..2, anchors'[a].records = Len(lines), head' = head,
               \A b \in 1..2 \ {a} : anchors'[b] = anchors[b]
        PROVE  Marked(Last)
    <3>1. anchors'[a] # NoMark /\ anchors'[a] # Last
      BY <1>2, <1>5, <2>1, <2>3
    <3>2. QED BY <1>2, <2>3, <3>1 DEF Marked
  <2>4. QED BY <1>5, <2>2, <2>3
<1>6. QED
  BY <1>1, <1>3, <1>4, <1>5, MarkStep

\* Anchors that are there stay there.
LEMMA AnchorsStay ==
  ASSUME ChainInv, [Next]_vars, NEW a \in 1..2, anchors[a] # NoMark
  PROVE  anchors'[a] # NoMark
<1>1. CASE anchors' = anchors
  BY <1>1
<1>2. ASSUME stage \in {"head", "anchor1", "anchor2"},
             NEW c \in 1..2, anchors'[c].records = Len(lines), \A b \in 1..2 \ {c} : anchors'[b] = anchors[b]
      PROVE  anchors'[a] # NoMark
  <2>1. Len(lines) # 0 /\ NoMark.records = 0
    BY <1>2 DEF ChainInv, IsEnd, NoMark, Mark
  <2>2. QED BY <1>2, <2>1
<1>3. QED BY <1>1, <1>2, MarkStep

\* A head with the hash of the last record read is the mark of that record.
LEMMA HeadIsLast ==
  ASSUME LedgerInv, GotTyped, SeenInv, Signed(got.lines) # {}, head.hash = Last.hash
  PROVE  head = Last
<1> DEFINE n == Len(got.lines)
<1>1. /\ n \in Nat \ {0} /\ Last.records = n /\ Last.hash = got.lines[n].hash /\ Last.hash # NoHash
      /\ n <= Len(lines) /\ lines[n] = got.lines[n] /\ Len(lines) \in Nat /\ DOMAIN lines = 1..Len(lines)
      /\ lines \in Seq(Lines)
  BY LastTyped DEF SeenInv, LedgerInv, RefinementInv, ChainInv, TypeOK
<1>2. VouchedIn(lines, head) /\ head \in Marks /\ Ascending
  BY DEF LedgerInv, RefinementInv, EvidenceInv, ChainInv, TypeOK
<1>3. head.records \in DOMAIN lines /\ lines[head.records].hash = head.hash
  BY <1>1, <1>2 DEF VouchedIn, Signed, NoMark, Mark
<1>4. head.records = n
  <2> HIDE DEF n
  <2>1. lines[n].hash = lines[head.records].hash /\ lines[n].hash # NoHash /\ lines[n].hash \in Nat
        /\ n \in DOMAIN lines /\ head.records \in Nat
    BY <1>1, <1>2, <1>3 DEF Marks, Lines
  <2>2. ~(n < head.records) /\ ~(head.records < n)
    BY <1>2, <1>3, <2>1 DEF Ascending
  <2>3. QED BY <1>1, <2>1, <2>2
<1>5. Last \in [records : Nat, hash : {got.lines[n].hash}]
  BY <1>1 DEF Last, EndOf, Mark
<1>6. QED BY <1>1, <1>2, <1>4, <1>5 DEF Marks

LEMMA AssuranceLedgerStep ==
  ASSUME LedgerInv, LedgerInv', GotTyped, AssuranceInv,
         Next, UNCHANGED <<reader, got>>, wasSound' = (wasSound \/ SoundNow')
  PROVE  AssuranceInv'
<1>1. [Next]_vars /\ ChainInv
  BY DEF LedgerInv, RefinementInv
<1>2. (SoundNow => wasSound)' /\ (wasSound => wasSound')
  OBVIOUS
<1>3. ASSUME Reading' PROVE SeenInv' /\ WritingInv' /\ MarkedInv' /\ ReadInv'
  <2>1. SeenInv /\ WritingInv /\ MarkedInv /\ ReadInv
    BY <1>3 DEF AssuranceInv, Reading
  <2>2. SeenInv' /\ (Len(got.lines) = Len(lines') => lines' = lines)
    BY <1>1, <2>1, SeenStep
  <2>3. WritingInv'
    <3> SUFFICES ASSUME Len(got.lines) = Len(lines'), stage' \in {"head", "anchor1", "anchor2"} PROVE Readable'
      BY DEF WritingInv
    <3>1. lines' = lines
      BY <2>2
    <3>2. stage \in {"head", "anchor1", "anchor2"} /\ tail' = tail
      BY <1>1, <3>1, WritingStep
    <3>3. QED BY <2>1, <3>1, <3>2 DEF WritingInv, Readable
  <2>4. MarkedInv'
    <3>1. Signed(got.lines) = {} => wasSound'
      BY <1>2, <2>1 DEF MarkedInv
    <3>2. ASSUME Signed(got.lines) # {}, Marked(Last)' PROVE wasSound'
      <4>1. Marked(Last) \/ SoundNow'
        BY <1>1, <2>1, <3>2, MarkedStep
      <4>2. QED BY <1>2, <2>1, <3>2, <4>1 DEF MarkedInv
    <3>3. QED BY <3>1, <3>2 DEF MarkedInv
  <2>5. ReadInv'
    <3>1. \A a \in 1..2 : anchors[a] # NoMark => anchors'[a] # NoMark
      BY <1>1, AnchorsStay
    <3>2. Last' = Last
      BY DEF Last
    <3>3. QED
      BY <1>2, <2>1, <3>1, <3>2 DEF ReadInv, HeadRead, Anchor1Read, Anchor2Read
  <2>6. QED BY <2>2, <2>3, <2>4, <2>5
<1>4. QED BY <1>2, <1>3 DEF AssuranceInv

\* Without the first anchor there is no second.
LEMMA AnchorOrder == ASSUME LedgerInv, anchors[1] = NoMark PROVE anchors[2] = NoMark
<1>1. /\ anchors[2] \in Marks /\ VouchedIn(lines, anchors[2]) /\ anchors[2].records <= 0
      /\ lines \in Seq(Lines)
  BY DEF LedgerInv, RefinementInv, EvidenceInv, ChainInv, TypeOK, NoMark, Mark
<1>2. anchors[2].records = 0
  BY <1>1 DEF Marks
<1>3. 0 \notin Signed(lines)
  BY <1>1 DEF Signed
<1>4. QED BY <1>1, <1>2, <1>3 DEF VouchedIn

LEMMA AssuranceReadStep ==
  ASSUME LedgerInv, GotTyped, AssuranceInv, ReadStep, UNCHANGED <<vars, wasSound, wasBusy>>
  PROVE  AssuranceInv'
<1>1. UNCHANGED <<lines, tail, head, anchors, key, stage, wasSound>> /\ SoundNow' = SoundNow /\ Readable' = Readable
  BY DEF vars, SoundNow, CurrentStatus, Readable
<1>2. ChainInv /\ TypeOK
  BY DEF LedgerInv, RefinementInv, ChainInv
<1>3. CASE ReadLines
  <2>1. /\ got'.readable = Readable /\ got'.lines = lines
        /\ reader' = (IF Readable THEN "head" ELSE "verdict")
    BY <1>3 DEF ReadLines, GotTyped, GotRecords
  <2>2. ASSUME Reading' PROVE SeenInv' /\ WritingInv' /\ MarkedInv' /\ ReadInv'
    <3>1. Readable /\ reader' = "head"
      BY <2>1, <2>2 DEF Reading
    <3>2. SeenInv'
      BY <1>1, <1>2, <2>1 DEF SeenInv, ChainInv, TypeOK
    <3>3. WritingInv'
      BY <1>1, <3>1 DEF WritingInv
    <3>4. MarkedInv'
      <4>1. Signed(lines) = {} => wasSound
        BY <3>1, UnsignedIsSound DEF AssuranceInv
      <4>2. Signed(lines) # {} /\ Marked(EndOf(lines)) => wasSound
        BY <3>1, MarkedIsSound DEF AssuranceInv
      <4>3. Marked(Last)' <=> Marked(EndOf(lines))
        BY <1>1, <2>1 DEF Marked, Last
      <4>4. QED BY <1>1, <2>1, <4>1, <4>2, <4>3 DEF MarkedInv
    <3>5. ReadInv'
      BY <3>1 DEF ReadInv, HeadRead, Anchor1Read, Anchor2Read
    <3>6. QED BY <3>2, <3>3, <3>4, <3>5
  <2>3. (reader \in {"head", "anchor1", "anchor2"} => got.readable)'
    BY <2>1
  <2>4. QED BY <1>1, <2>2, <2>3 DEF AssuranceInv
<1>4. ASSUME reader \in {"head", "anchor1", "anchor2"}, got'.lines = got.lines, got'.readable = got.readable,
             Reading, Signed(got.lines) # {} => ReadInv'
      PROVE  AssuranceInv'
  <2>1. SeenInv /\ WritingInv /\ MarkedInv /\ got.readable
    BY <1>4 DEF AssuranceInv
  <2>2. Last' = Last
    BY <1>4 DEF Last
  <2>3. SeenInv' /\ WritingInv'
    BY <1>1, <1>4, <2>1 DEF SeenInv, WritingInv
  <2>4. MarkedInv'
    BY <1>1, <1>4, <2>1, <2>2 DEF MarkedInv, Marked
  <2>5. ReadInv'
    BY <1>4 DEF ReadInv
  <2>6. QED BY <1>1, <1>4, <2>1, <2>3, <2>4, <2>5 DEF AssuranceInv
<1>5. CASE ReadHead
  <2>1. /\ got'.lines = got.lines /\ got'.readable = got.readable /\ got'.head = head
        /\ reader = "head" /\ reader' = "anchor1"
    BY <1>5 DEF ReadHead, GotTyped, GotRecords
  <2>2. Reading
    BY <2>1 DEF AssuranceInv, Reading
  <2>3. ASSUME Signed(got.lines) # {} PROVE ReadInv'
    <3>1. SeenInv /\ MarkedInv /\ Last' = Last
      BY <2>1, <2>2 DEF AssuranceInv, Last
    <3>2. ASSUME head.hash = Last.hash, anchors[1] = NoMark PROVE wasSound
      <4>1. head = Last /\ anchors[2] = NoMark
        BY <2>3, <3>1, <3>2, HeadIsLast, AnchorOrder
      <4>2. QED BY <2>3, <3>1, <3>2, <4>1 DEF MarkedInv, Marked
    <3>3. QED BY <1>1, <2>1, <3>1, <3>2 DEF ReadInv, HeadRead, Anchor1Read, Anchor2Read
  <2>4. QED BY <1>4, <2>1, <2>2, <2>3
<1>6. CASE reader = "anchor1" /\ got' = [got EXCEPT !.anchor1 = anchors[1]] /\ reader' = "anchor2"
  <2>1. /\ got'.lines = got.lines /\ got'.readable = got.readable /\ got'.head = got.head
        /\ got'.anchor1 = anchors[1]
    BY <1>6 DEF GotTyped, GotRecords
  <2>2. Reading
    BY <1>6 DEF AssuranceInv, Reading
  <2>3. ASSUME Signed(got.lines) # {} PROVE ReadInv'
    <3>1. MarkedInv /\ HeadRead /\ Last' = Last
      BY <2>1, <2>2, <2>3 DEF AssuranceInv, ReadInv, Last
    <3>2. anchors[1] = Last => wasSound \/ anchors[2] # NoMark
      BY <2>3, <3>1 DEF MarkedInv, Marked
    <3>3. QED BY <1>1, <1>6, <2>1, <3>1, <3>2 DEF ReadInv, HeadRead, Anchor1Read, Anchor2Read
  <2>4. QED BY <1>4, <1>6, <2>1, <2>2, <2>3
<1>7. CASE reader = "anchor2" /\ got' = [got EXCEPT !.anchor2 = anchors[2]] /\ reader' = "verdict"
  <2>1. /\ got'.lines = got.lines /\ got'.readable = got.readable /\ got'.head = got.head
        /\ got'.anchor1 = got.anchor1 /\ got'.anchor2 = anchors[2]
    BY <1>7 DEF GotTyped, GotRecords
  <2>2. Reading
    BY <1>7 DEF AssuranceInv, Reading
  <2>3. ASSUME Signed(got.lines) # {} PROVE ReadInv'
    <3>1. MarkedInv /\ HeadRead /\ Anchor1Read /\ Last' = Last
      BY <2>1, <2>2, <2>3 DEF AssuranceInv, ReadInv, Last
    <3>2. anchors[2] = Last => wasSound
      BY <2>3, <3>1 DEF MarkedInv, Marked
    <3>3. QED BY <1>1, <1>7, <2>1, <3>1, <3>2 DEF ReadInv, HeadRead, Anchor1Read, Anchor2Read
  <2>4. QED BY <1>4, <1>7, <2>1, <2>2, <2>3
<1>8. QED BY <1>3, <1>5, <1>6, <1>7 DEF ReadStep, ReadAnchors

\* A verdict that is good says so of marks that agree with the records.
LEMMA VerdictSays ==
  ASSUME GotTyped, SeenInv, Signed(got.lines) # {}, Verdict
  PROVE  got.head.hash = Last.hash /\ {got.anchor1, got.anchor2} \subseteq {NoMark, Last}
<1> DEFINE marks == <<got.anchor1, got.anchor2>>
<1>1. /\ Len(got.lines) \in Nat \ {0} /\ Last.records = Len(got.lines) /\ Last.hash = LastHash(got.lines)
      /\ got.anchor1 \in Marks /\ got.anchor2 \in Marks
      /\ Last = [records |-> Len(got.lines), hash |-> LastHash(got.lines)]
  BY LastTyped DEF GotTyped, GotRecords, Last, EndOf, Mark
<1>2. Status(got.lines, got.head, marks, got.key) \in SoundStatus
  BY DEF Verdict
<1>3. ~HasFailures(got.lines, got.head, marks, got.key) /\ HeadMatched(got.lines, got.head)
  <2> HIDE DEF marks
  <2>1. QED BY <1>1, <1>2 DEF Status, SoundStatus
<1>4. got.head.hash = Last.hash
  BY <1>1, <1>3 DEF HeadMatched
<1>5. ASSUME NEW m \in Marks, AnchorMatches(got.lines, got.head, m, got.key) PROVE m \in {NoMark, Last}
  BY <1>1, <1>5 DEF AnchorMatches, Marks
<1>6. /\ AnchorMatches(got.lines, got.head, got.anchor1, got.key)
      /\ AnchorMatches(got.lines, got.head, got.anchor2, got.key)
  <2>1. DOMAIN marks = 1..2 /\ marks[1] = got.anchor1 /\ marks[2] = got.anchor2
    OBVIOUS
  <2> HIDE DEF marks
  <2>2. QED BY <1>3, <2>1 DEF HasFailures
<1>7. QED BY <1>1, <1>4, <1>5, <1>6

\* A reader that reports a sound ledger is right, although it read the files one after
\* the other beside appends and interruptions.
THEOREM Assurance == ReaderSpec => []NoFalseAssurance
<1>1. ReaderInit => GotTyped /\ AssuranceInv
  BY NothingReadTyped DEF ReaderInit, GotTyped, ReaderStages, AssuranceInv, Reading
<1>2. GotTyped /\ AssuranceInv => NoFalseAssurance
  <2> SUFFICES ASSUME GotTyped, AssuranceInv, reader = "verdict", Verdict PROVE wasSound
    BY DEF NoFalseAssurance
  <2>1. SeenInv /\ MarkedInv /\ ReadInv
    BY DEF Verdict, AssuranceInv, Reading
  <2>2. CASE Signed(got.lines) = {}
    BY <2>1, <2>2 DEF MarkedInv
  <2>3. CASE Signed(got.lines) # {}
    BY <2>1, <2>3, VerdictSays DEF ReadInv, Anchor2Read
  <2>4. QED BY <2>2, <2>3
<1>3. LedgerInv /\ LedgerInv' /\ GotTyped /\ AssuranceInv /\ [ReaderNext]_<<vars, readerVars>> => AssuranceInv'
  <2> SUFFICES ASSUME LedgerInv, LedgerInv', GotTyped, AssuranceInv, [ReaderNext]_<<vars, readerVars>>
               PROVE  AssuranceInv'
    OBVIOUS
  <2>1. CASE Next /\ UNCHANGED <<reader, got>> /\ wasSound' = (wasSound \/ SoundNow')
    BY <2>1, AssuranceLedgerStep
  <2>2. CASE ReadStep /\ UNCHANGED <<vars, wasSound, wasBusy>>
    BY <2>2, AssuranceReadStep
  <2>3. CASE Report /\ wasSound' = SoundNow /\ UNCHANGED vars
    <3>1. SoundNow' = SoundNow
      BY <2>3 DEF vars, SoundNow, CurrentStatus, Readable
    <3>2. reader' = "lines"
      BY <2>3 DEF Report
    <3>3. QED BY <2>3, <3>1, <3>2 DEF AssuranceInv, Reading
  <2>4. CASE UNCHANGED <<vars, readerVars>>
    <3>1. SoundNow' = SoundNow /\ Readable' = Readable
      BY <2>4 DEF vars, SoundNow, CurrentStatus, Readable
    <3>2. UNCHANGED <<lines, stage, anchors, head, reader, got, wasSound>>
      BY <2>4 DEF vars, readerVars
    <3>3. QED
      BY <3>1, <3>2 DEF AssuranceInv, Reading, SeenInv, WritingInv, MarkedInv, ReadInv,
                        HeadRead, Anchor1Read, Anchor2Read, Marked, Last
  <2>5. QED BY <2>1, <2>2, <2>3, <2>4 DEF ReaderNext
<1>4. LedgerInv => TypeOK
  BY DEF LedgerInv, RefinementInv, ChainInv
<1>5. QED
  BY <1>1, <1>2, <1>3, <1>4, GotTypedStep, LedgerInvariance, PTL DEF ReaderSpec
=============================================================================
