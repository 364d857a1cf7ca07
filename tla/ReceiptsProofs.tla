---------------------------- MODULE ReceiptsProofs ----------------------------
(***************************************************************************)
(* Proofs about Receipts, for any set of processes and server keys, any    *)
(* number of receipts, proof keys, failures and changes of the server key. *)
(***************************************************************************)
EXTENDS Receipts, TLAPS

Requesting == {"post", "answered", "append"}

\* A call past the reading of the ledgers is a submission and holds the lock.
HoldsAcross == \A p \in Process : pc[p] \in Requesting => lock = p

\* A submission was begun with room for its receipt.
Room == \A p \in Process : Submitting(p) => Len(receipts) < MaxReceipts

\* What its proof counted is still what is in the ledger.
ProofIsCurrent == \A p \in Process : pc[p] \in Requesting => proof[p].counted = Len(receipts)

\* A receipt on its way was signed with a key; one about to be appended was compared
\* with its proof and with the trusted key.
AnswerIsSigned == \A p \in Process : pc[p] \in {"answered", "append"} => answer[p].key # NoServerKey
AnswerIsChecked == \A p \in Process : pc[p] = "append" => answer[p].proof = proof[p] /\ answer[p].key = trust

\* No receipt is in the ledger before a key is trusted.
RecordsAreSigned == \A i \in DOMAIN receipts : receipts[i].key # NoServerKey

\* While nothing went wrong every answer is the server's, about the proof it was sent.
HonestServer ==
  failures = 0 =>
    /\ trust \in {NoServerKey, serverKey}
    /\ \A p \in Process : pc[p] \in {"answered", "append"} => answer[p] = ReceiptOf(proof[p], serverKey)

LockInv == HoldsAcross /\ Room
OrderInv == LockInv /\ ProofIsCurrent /\ AnswerIsChecked /\ ReceiptContinuesItsProof
TrustInv == AnswerIsSigned /\ AnswerIsChecked /\ RecordsAreSigned /\ TrustedSigner

-----------------------------------------------------------------------------

\* Records with one component changed keep their type.
LEMMA ProofKeyTyped ==
  ASSUME NEW q \in Proofs, NEW k \in 0..MaxProofKeys
  PROVE  [q EXCEPT !.key = k] \in Proofs /\ [q EXCEPT !.key = k].key = k
  BY DEF Proofs

LEMMA ProofCountTyped ==
  ASSUME NEW q \in Proofs, NEW n \in 0..MaxReceipts
  PROVE  LET r == [q EXCEPT !.counted = n]
         IN  r \in Proofs /\ r.key = q.key /\ r.counted = n
  BY DEF Proofs

LEMMA ReceiptTyped ==
  ASSUME NEW q \in Proofs, NEW k \in ServerKeys \cup {NoServerKey}
  PROVE  /\ ReceiptOf(q, k) \in AllReceipts
         /\ ReceiptOf(q, k).proof = q /\ ReceiptOf(q, k).key = k
  BY DEF ReceiptOf, AllReceipts

LEMMA NothingTyped == NoProof \in Proofs /\ NoReceipt \in AllReceipts
<1>1. NoProof \in Proofs
  BY ReceiptsAssumption DEF ReceiptsAssumption, NoProof, NoProofKey, Proofs
<1>2. QED BY <1>1, ReceiptTyped DEF NoReceipt

\* What a step may leave of the ledger: nothing more, or the answer at hand, and that
\* only in its last step.
LEMMA LeftoversAppend ==
  ASSUME NEW p \in Process, Leftovers(p), TypeOK, LockInv
  PROVE  /\ sealed' \in BOOLEAN
         /\ receipts' = receipts \/ (pc[p] = "append" /\ receipts' = Append(receipts, answer[p]))
         /\ receipts' \in Seq(AllReceipts) /\ Len(receipts') <= MaxReceipts
<1>1. /\ sealed' \in BOOLEAN
      /\ receipts' = receipts \/ (pc[p] = "append" /\ receipts' = Append(receipts, answer[p]))
  BY DEF Leftovers, TypeOK
<1>2. answer[p] \in AllReceipts /\ receipts \in Seq(AllReceipts) /\ Len(receipts) <= MaxReceipts
  BY DEF TypeOK
<1>3. pc[p] = "append" => Len(receipts) < MaxReceipts
  BY DEF LockInv, HoldsAcross, Room, Requesting, Submitting
<1>4. CASE receipts' = receipts
  BY <1>1, <1>2, <1>4
<1>5. CASE pc[p] = "append" /\ receipts' = Append(receipts, answer[p])
  BY <1>1, <1>2, <1>3, <1>5, ReceiptsAssumption DEF ReceiptsAssumption
<1>6. QED BY <1>1, <1>4, <1>5

\* The key chosen in UseKey is the one component that changes.
LEMMA UseKeyTyped ==
  ASSUME NEW p \in Process, TypeOK, NEW k \in (0..MaxProofKeys) \ {NoProofKey}, UseKey(p, k)
  PROVE  /\ pc' = [pc EXCEPT ![p] = "verify"]
         /\ proof' \in [Process -> Proofs]
         /\ proof'[p].key = k
         /\ \A o \in Process \ {p} : proof'[o] = proof[o]
<1> DEFINE q == [proof[p] EXCEPT !.key = k]
<1>1. proof \in [Process -> Proofs] /\ proof[p] \in Proofs
  BY DEF TypeOK
<1>2. proof' = [proof EXCEPT ![p] = q] /\ pc' = [pc EXCEPT ![p] = "verify"]
  BY DEF UseKey, GoTo
<1>3. q \in Proofs /\ q.key = k
  BY <1>1, ProofKeyTyped
<1> HIDE DEF q
<1>4. QED BY <1>1, <1>2, <1>3

-----------------------------------------------------------------------------

LEMMA InitTyped == Init => TypeOK
<1> SUFFICES ASSUME Init PROVE TypeOK
  OBVIOUS
<1>1. /\ proof \in [Process -> Proofs] /\ answer \in [Process -> AllReceipts]
      /\ pc \in [Process -> {"idle", "key", "makekey", "verify", "post", "answered", "append"}]
      /\ \A p \in Process : pc[p] = "idle"
  BY NothingTyped DEF Init
<1>2. /\ lock \in Process \cup {Nobody} /\ trust \in ServerKeys \cup {NoServerKey}
      /\ sealed \in BOOLEAN /\ serverKey \in ServerKeys /\ received \in SUBSET Proofs
  BY DEF Init
<1>3. /\ proofKey \in 0..made /\ made \in 0..MaxProofKeys /\ failures \in 0..MaxFailures
      /\ receipts \in Seq(AllReceipts) /\ Len(receipts) <= MaxReceipts
  BY ReceiptsAssumption DEF Init, ReceiptsAssumption, NoProofKey
<1>4. QED BY <1>1, <1>2, <1>3 DEF TypeOK

\* How a call may end: every exit leaves the call idle, with nothing of its own.
Ended(p) ==
  /\ pc' = [pc EXCEPT ![p] = "idle"]
  /\ proof' = [proof EXCEPT ![p] = NoProof]
  /\ answer' = [answer EXCEPT ![p] = NoReceipt]
  /\ lock' \in {lock, Nobody} /\ (lock # p => lock' = lock)

LEMMA ReturnEnds == ASSUME NEW p \in Process, Return(p) PROVE Ended(p)
  BY DEF Return, Ended, GoTo

LEMMA DieEnds == ASSUME NEW p \in Process, Die(p) PROVE Ended(p)
  BY DEF Die, Ended, GoTo

LEMMA EndedTyped ==
  ASSUME NEW p \in Process, TypeOK, Ended(p)
  PROVE  /\ lock' \in Process \cup {Nobody}
         /\ pc' \in [Process -> {"idle", "key", "makekey", "verify", "post", "answered", "append"}]
         /\ proof' \in [Process -> Proofs]
         /\ answer' \in [Process -> AllReceipts]
         /\ \A o \in Process : pc'[o] \in {"verify", "post", "answered", "append"} => proof'[o].key # NoProofKey
         /\ pc'[p] = "idle"
         /\ \A o \in Process \ {p} : pc'[o] = pc[o] /\ proof'[o] = proof[o] /\ answer'[o] = answer[o]
  BY NothingTyped DEF TypeOK, Ended

-----------------------------------------------------------------------------
(* Types and the lock.                                                      *)

\* A step of a call keeps the types; that there is room comes from the lock.
LEMMA CallTyped ==
  ASSUME NEW p \in Process, TypeOK, LockInv, Call(p)
  PROVE  TypeOK'
<1>a. proofKey \in 0..MaxProofKeys /\ 0..made \subseteq 0..MaxProofKeys
  BY ReceiptsAssumption DEF TypeOK, ReceiptsAssumption
<1>1. CASE GetProof(p)
  BY <1>1 DEF GetProof, GoTo, TypeOK, localVars, serverVars
<1>2. CASE SubmitProof(p)
  BY <1>2 DEF SubmitProof, GoTo, TypeOK, localVars, serverVars
<1>3. CASE LookForKey(p)
  <2>1. /\ UNCHANGED <<lock, proofKey, made, trust, receipts, sealed, serverKey, received, answer, failures>>
        /\ pc[p] = "key"
    BY <1>3 DEF LookForKey, localVars, serverVars
  <2>2. CASE proofKey # NoProofKey /\ UseKey(p, proofKey)
    <3>1. proofKey \in (0..MaxProofKeys) \ {NoProofKey}
      BY <1>a, <2>2
    <3>2. QED BY <2>1, <2>2, <3>1, UseKeyTyped DEF TypeOK
  <2>3. CASE GoTo(p, "makekey") /\ UNCHANGED proof
    BY <2>1, <2>3 DEF GoTo, TypeOK
  <2>4. QED BY <1>3, <2>2, <2>3 DEF LookForKey
<1>4. CASE MakeKey(p)
  <2>1. /\ UNCHANGED <<lock, trust, receipts, sealed, serverKey, received, answer, failures>>
        /\ made' = made + 1 /\ proofKey' = made + 1 /\ UseKey(p, made + 1)
    BY <1>4 DEF MakeKey, serverVars
  <2>2. made + 1 \in (0..MaxProofKeys) \ {NoProofKey} /\ proofKey' \in 0..made' /\ made' \in 0..MaxProofKeys
    BY <1>4, <2>1, ReceiptsAssumption DEF MakeKey, TypeOK, ReceiptsAssumption, NoProofKey
  <2>3. QED BY <2>1, <2>2, UseKeyTyped DEF TypeOK
<1>5. CASE VerifyLedgers(p)
  <2> DEFINE q == [proof[p] EXCEPT !.counted = Len(receipts)]
  <2>1. UNCHANGED <<proofKey, made, trust, receipts, sealed, serverKey, received, failures>> /\ pc[p] = "verify"
    BY <1>5 DEF VerifyLedgers, localVars, serverVars
  <2>2. CASE Submitting(p)
    <3>1. proof' = [proof EXCEPT ![p] = q] /\ pc' = [pc EXCEPT ![p] = "post"] /\ UNCHANGED <<lock, answer>>
      BY <1>5, <2>2 DEF VerifyLedgers, GoTo
    <3>2. q \in Proofs /\ q.key = proof[p].key
      <4>1. Len(receipts) \in 0..MaxReceipts /\ proof[p] \in Proofs
        BY ReceiptsAssumption DEF TypeOK, ReceiptsAssumption
      <4>2. QED BY <4>1, ProofCountTyped
    <3> HIDE DEF q
    <3>3. QED BY <2>1, <3>1, <3>2 DEF TypeOK
  <2>3. CASE ~Submitting(p)
    <3>1. Ended(p)
      BY <1>5, <2>3, ReturnEnds DEF VerifyLedgers
    <3>2. QED BY <2>1, <3>1, EndedTyped DEF TypeOK
  <2>4. QED BY <2>2, <2>3
<1>6. CASE RefuseSubmission(p)
  <2>1. UNCHANGED <<proofKey, made, trust, receipts, sealed, serverKey, received, failures>> /\ Ended(p)
    BY <1>6, ReturnEnds DEF RefuseSubmission, localVars, serverVars
  <2>2. QED BY <2>1, EndedTyped DEF TypeOK
<1>7. CASE Post(p)
  BY <1>7, ReceiptTyped DEF Post, GoTo, TypeOK, localVars
<1>8. CASE PostAnsweredWrongly(p)
  <2>1. failures' \in 0..MaxFailures
    BY <1>8, ReceiptsAssumption DEF PostAnsweredWrongly, Fault, TypeOK, ReceiptsAssumption
  <2>2. answer' \in [Process -> AllReceipts]
    BY <1>8, ReceiptTyped DEF PostAnsweredWrongly, TypeOK
  <2>3. QED BY <1>8, <2>1, <2>2 DEF PostAnsweredWrongly, GoTo, TypeOK, localVars, serverVars
<1>9. CASE Trust(p)
  BY <1>9 DEF Trust, GoTo, TypeOK, serverVars, AllReceipts
<1>10. CASE RefuseReceipt(p)
  <2>1. UNCHANGED <<proofKey, made, trust, receipts, sealed, serverKey, received, failures>> /\ Ended(p)
    BY <1>10, ReturnEnds DEF RefuseReceipt, localVars, serverVars
  <2>2. QED BY <2>1, EndedTyped DEF TypeOK
<1>11. CASE AppendReceipt(p)
  <2>1. /\ UNCHANGED <<proofKey, made, trust, sealed, serverKey, received, failures>> /\ Ended(p)
        /\ pc[p] = "append" /\ receipts' = Append(receipts, answer[p])
    BY <1>11, ReturnEnds DEF AppendReceipt, serverVars
  <2>2. Len(receipts) < MaxReceipts
    BY <2>1 DEF LockInv, HoldsAcross, Room, Requesting, Submitting
  <2>3. receipts' \in Seq(AllReceipts) /\ Len(receipts') <= MaxReceipts
    BY <2>1, <2>2, ReceiptsAssumption DEF TypeOK, ReceiptsAssumption
  <2>4. QED BY <2>1, <2>3, EndedTyped DEF TypeOK
<1>12. CASE Fail(p) \/ Die(p)
  <2>1. /\ UNCHANGED <<proofKey, made, trust, serverKey>> /\ Ended(p) /\ Leftovers(p)
        /\ received' \in SUBSET Proofs /\ failures' = failures + 1 /\ failures < MaxFailures
    BY <1>12, ReturnEnds, DieEnds DEF Fail, Die, Fault, serverVars, TypeOK
  <2>2. failures' \in 0..MaxFailures
    BY <2>1, ReceiptsAssumption DEF TypeOK, ReceiptsAssumption
  <2>3. QED BY <2>1, <2>2, EndedTyped, LeftoversAppend DEF TypeOK
<1>13. QED
  BY <1>1, <1>2, <1>3, <1>4, <1>5, <1>6, <1>7, <1>8, <1>9, <1>10, <1>11, <1>12 DEF Call

-----------------------------------------------------------------------------
(* What a step of one call leaves alone.                                    *)

Grows(p) == pc[p] = "append" /\ receipts' = Append(receipts, answer[p])

\* A step of p is the end of its call, the only step that may add a receipt; or a step
\* within it, which leaves the ledger, and once begun the lock, as they are.
LEMMA CallFrame ==
  ASSUME NEW p \in Process, TypeOK, Call(p)
  PROVE  /\ \A o \in Process \ {p} : pc'[o] = pc[o] /\ proof'[o] = proof[o] /\ answer'[o] = answer[o]
         /\ \/ Ended(p) /\ (receipts' = receipts \/ Grows(p))
            \/ SubmitProof(p)
            \/ receipts' = receipts /\ lock' = lock /\ (pc[p] = "idle" => lock # p)
<1> USE DEF localVars, serverVars
<1>1. CASE GetProof(p) BY <1>1 DEF GetProof, GoTo, TypeOK
<1>2. CASE SubmitProof(p) BY <1>2 DEF SubmitProof, GoTo, TypeOK
<1>3. CASE LookForKey(p) BY <1>3 DEF LookForKey, UseKey, GoTo, TypeOK
<1>4. CASE MakeKey(p) BY <1>4 DEF MakeKey, UseKey, GoTo, TypeOK
<1>5. CASE VerifyLedgers(p)
  <2>1. CASE Submitting(p) BY <1>5, <2>1 DEF VerifyLedgers, GoTo, TypeOK
  <2>2. CASE ~Submitting(p)
    <3>1. Ended(p) /\ receipts' = receipts BY <1>5, <2>2, ReturnEnds DEF VerifyLedgers
    <3>2. QED BY <3>1, EndedTyped
  <2>3. QED BY <2>1, <2>2
<1>6. CASE RefuseSubmission(p) \/ RefuseReceipt(p)
  <2>1. Ended(p) /\ receipts' = receipts BY <1>6, ReturnEnds DEF RefuseSubmission, RefuseReceipt
  <2>2. QED BY <2>1, EndedTyped
<1>7. CASE Post(p) BY <1>7 DEF Post, GoTo, TypeOK
<1>8. CASE PostAnsweredWrongly(p) BY <1>8 DEF PostAnsweredWrongly, GoTo, TypeOK
<1>9. CASE Trust(p) BY <1>9 DEF Trust, GoTo, TypeOK
<1>10. CASE AppendReceipt(p)
  <2>1. Ended(p) /\ Grows(p) BY <1>10, ReturnEnds DEF AppendReceipt, Grows
  <2>2. QED BY <2>1, EndedTyped
<1>11. CASE Fail(p) \/ Die(p)
  <2>1. Ended(p) /\ Leftovers(p) BY <1>11, ReturnEnds, DieEnds DEF Fail, Die
  <2>2. QED BY <2>1, EndedTyped DEF Leftovers, Grows
<1>12. QED BY <1>1, <1>2, <1>3, <1>4, <1>5, <1>6, <1>7, <1>8, <1>9, <1>10, <1>11 DEF Call

\* Into the stages around the request there is one way, and it starts with the lock.
LEMMA EntersRequest ==
  ASSUME NEW p \in Process, TypeOK, HoldsAcross, Call(p), pc'[p] \in Requesting
  PROVE  lock = p /\ lock' = lock /\ receipts' = receipts
<1> USE DEF localVars, serverVars, Requesting, TypeOK
<1>1. ~Ended(p)
  BY EndedTyped
<1>2. (VerifyLedgers(p) /\ Submitting(p)) \/ Post(p) \/ PostAnsweredWrongly(p) \/ Trust(p)
  BY <1>1, ReturnEnds, DieEnds
  DEF Call, GetProof, SubmitProof, LookForKey, MakeKey, UseKey, VerifyLedgers, RefuseSubmission, RefuseReceipt,
      AppendReceipt, Fail, Die, GoTo
<1>3. QED
  BY <1>2 DEF HoldsAcross, VerifyLedgers, Submitting, Post, PostAnsweredWrongly, Trust, GoTo

LEMMA CallKeepsLock ==
  ASSUME NEW p \in Process, TypeOK, LockInv, Call(p)
  PROVE  LockInv'
<1> USE DEF LockInv
<1>1. Nobody \notin Process
  BY ReceiptsAssumption DEF ReceiptsAssumption
<1>2. CASE Ended(p) /\ (receipts' = receipts \/ Grows(p))
  <2>1. pc'[p] = "idle" /\ lock' \in {lock, Nobody} /\ (lock # p => lock' = lock)
    BY <1>2, EndedTyped DEF Ended
  <2>2. Grows(p) => lock = p
    BY DEF Grows, HoldsAcross, Requesting
  <2>3. HoldsAcross'
    BY <2>1, CallFrame DEF HoldsAcross, Requesting
  <2>4. Room'
    BY <1>1, <1>2, <2>1, <2>2, CallFrame DEF Room, Submitting
  <2>5. QED BY <2>3, <2>4
<1>3. CASE SubmitProof(p)
  <2>1. /\ lock = Nobody /\ lock' = p /\ pc'[p] = "key" /\ receipts' = receipts /\ Len(receipts) < MaxReceipts
    BY <1>3 DEF SubmitProof, GoTo, localVars, TypeOK
  <2>2. QED BY <1>1, <2>1, CallFrame DEF HoldsAcross, Room, Submitting, Requesting
<1>4. CASE receipts' = receipts /\ lock' = lock /\ (pc[p] = "idle" => lock # p)
  <2>1. HoldsAcross'
    BY <1>4, CallFrame, EntersRequest DEF HoldsAcross
  <2>2. Room'
    BY <1>4, CallFrame DEF Room, Submitting
  <2>3. QED BY <2>1, <2>2
<1>5. QED BY <1>2, <1>3, <1>4, CallFrame

\* The steps that are no call's: a lock left by a dead process is removed, the server
\* changes its key.
LEMMA OthersKeepLock ==
  ASSUME TypeOK, LockInv, ReclaimLock \/ RotateServerKey \/ UNCHANGED vars
  PROVE  TypeOK' /\ LockInv'
<1> USE DEF LockInv, localVars, serverVars
<1>1. CASE ReclaimLock
  <2>1. PICK p \in Process : lock = p /\ pc[p] = "idle"
    BY <1>1 DEF ReclaimLock
  <2>2. TypeOK'
    BY <1>1 DEF ReclaimLock, TypeOK
  <2>3. Nobody \notin Process
    BY ReceiptsAssumption DEF ReceiptsAssumption
  <2>4. HoldsAcross' /\ Room'
    BY <1>1, <2>1, <2>3 DEF ReclaimLock, HoldsAcross, Room, Submitting, Requesting
  <2>5. QED BY <2>2, <2>4
<1>2. CASE RotateServerKey
  <2>1. failures' \in 0..MaxFailures
    BY <1>2, ReceiptsAssumption DEF RotateServerKey, Fault, TypeOK, ReceiptsAssumption
  <2>2. QED BY <1>2, <2>1 DEF RotateServerKey, TypeOK, HoldsAcross, Room, Submitting, Requesting
<1>3. CASE UNCHANGED vars
  BY <1>3 DEF vars, TypeOK, HoldsAcross, Room, Submitting, Requesting
<1>4. QED BY <1>1, <1>2, <1>3

LEMMA LockInvariant == Spec => [](TypeOK /\ LockInv)
<1>1. Init => TypeOK /\ LockInv
  BY InitTyped, ReceiptsAssumption
  DEF Init, LockInv, HoldsAcross, Room, Submitting, Requesting, ReceiptsAssumption
<1>2. TypeOK /\ LockInv /\ [Next]_vars => (TypeOK /\ LockInv)'
  BY CallTyped, CallKeepsLock, OthersKeepLock DEF Next
<1>3. QED BY <1>1, <1>2, PTL DEF Spec

\* The files, the server and the calls keep the types TypeOK gives them.
THEOREM TypeCorrect == Spec => []TypeOK
  BY LockInvariant, PTL

-----------------------------------------------------------------------------
(* The order of the receipts and who signed them.                           *)

\* The trusted key changes in Trust alone, and no more after the first time.
LEMMA TrustFrame ==
  ASSUME NEW p \in Process, TypeOK, Call(p)
  PROVE  trust' = trust \/ (Trust(p) /\ trust = NoServerKey)
<1>1. CASE Trust(p)
  BY <1>1 DEF Trust, Bindable
<1>2. CASE ~Trust(p)
  BY <1>2
  DEF Call, GetProof, SubmitProof, LookForKey, MakeKey, VerifyLedgers, RefuseSubmission, Post, PostAnsweredWrongly,
      RefuseReceipt, AppendReceipt, Fail, Die, localVars
<1>3. QED BY <1>1, <1>2

\* The steps of a submission from the reading of the ledgers to the append.
LEMMA RequestSteps ==
  ASSUME NEW p \in Process, TypeOK, Call(p), pc'[p] \in Requesting
  PROVE  \/ pc'[p] = "post" /\ proof'[p].counted = Len(receipts) /\ answer' = answer
         \/ /\ pc[p] = "post" /\ pc'[p] = "answered" /\ proof' = proof
            /\ \E q \in Proofs : answer'[p] = ReceiptOf(q, serverKey)
         \/ Trust(p) /\ pc[p] = "answered" /\ pc'[p] = "append" /\ proof' = proof /\ answer' = answer
<1> USE DEF Requesting, TypeOK
<1>1. ~Ended(p)
  BY EndedTyped
<1>2. (VerifyLedgers(p) /\ Submitting(p)) \/ Post(p) \/ PostAnsweredWrongly(p) \/ Trust(p)
  BY <1>1, ReturnEnds, DieEnds
  DEF Call, GetProof, SubmitProof, LookForKey, MakeKey, UseKey, VerifyLedgers, RefuseSubmission, RefuseReceipt,
      AppendReceipt, Fail, Die, GoTo
<1>3. CASE VerifyLedgers(p) /\ Submitting(p)
  <2> DEFINE q == [proof[p] EXCEPT !.counted = Len(receipts)]
  <2>1. proof' = [proof EXCEPT ![p] = q] /\ pc' = [pc EXCEPT ![p] = "post"] /\ answer' = answer
    BY <1>3 DEF VerifyLedgers, GoTo
  <2>2. Len(receipts) \in 0..MaxReceipts /\ proof[p] \in Proofs
    BY ReceiptsAssumption DEF ReceiptsAssumption
  <2>3. q.counted = Len(receipts)
    BY <2>2, ProofCountTyped
  <2> HIDE DEF q
  <2>4. QED BY <2>1, <2>3
<1>4. CASE Post(p)
  BY <1>4 DEF Post, GoTo
<1>5. CASE PostAnsweredWrongly(p)
  BY <1>5 DEF PostAnsweredWrongly, GoTo
<1>6. CASE Trust(p)
  BY <1>6 DEF Trust, GoTo
<1>7. QED BY <1>2, <1>3, <1>4, <1>5, <1>6

LEMMA CallKeepsOrder ==
  ASSUME NEW p \in Process, TypeOK, LockInv, OrderInv, Call(p)
  PROVE  ProofIsCurrent' /\ AnswerIsChecked' /\ ReceiptContinuesItsProof'
<1> USE DEF LockInv, OrderInv
<1>1. Len(receipts) \in Nat /\ receipts \in Seq(AllReceipts) /\ answer[p] \in AllReceipts
  BY DEF TypeOK
<1>2. receipts' = receipts \/ Grows(p)
  BY CallFrame DEF SubmitProof, localVars
<1>3. Grows(p) => lock = p
  BY DEF Grows, HoldsAcross, Requesting
<1>4. ProofIsCurrent'
  <2>1. ASSUME NEW o \in Process \ {p}, pc'[o] \in Requesting PROVE (proof[o].counted = Len(receipts))'
    BY <1>2, <1>3, <2>1, CallFrame DEF ProofIsCurrent, HoldsAcross
  <2>2. ASSUME pc'[p] \in Requesting PROVE (proof[p].counted = Len(receipts))'
    BY <2>2, RequestSteps, EntersRequest DEF ProofIsCurrent, Requesting
  <2>3. QED BY <2>1, <2>2 DEF ProofIsCurrent
<1>5. AnswerIsChecked'
  <2>1. ASSUME NEW o \in Process \ {p}, pc'[o] = "append" PROVE (answer[o].proof = proof[o] /\ answer[o].key = trust)'
    <3>1. pc[o] = "append" /\ lock = o
      BY <2>1, CallFrame DEF HoldsAcross, Requesting
    <3>2. trust' = trust
      BY <3>1, TrustFrame DEF Trust, HoldsAcross, Requesting
    <3>3. QED BY <2>1, <3>1, <3>2, CallFrame DEF AnswerIsChecked
  <2>2. ASSUME pc'[p] = "append" PROVE (answer[p].proof = proof[p] /\ answer[p].key = trust)'
    BY <2>2, RequestSteps DEF Requesting, Trust, Verified
  <2>3. QED BY <2>1, <2>2 DEF AnswerIsChecked
<1>6. ReceiptContinuesItsProof'
  <2>1. CASE receipts' = receipts
    BY <2>1 DEF ReceiptContinuesItsProof
  <2>2. CASE Grows(p)
    <3>1. answer[p].proof.counted = Len(receipts)
      BY <2>2 DEF Grows, AnswerIsChecked, ProofIsCurrent, Requesting
    <3>2. /\ DOMAIN receipts' = 1..(Len(receipts) + 1)
          /\ \A i \in 1..Len(receipts) : receipts'[i] = receipts[i]
          /\ receipts'[Len(receipts) + 1] = answer[p]
      BY <1>1, <2>2 DEF Grows
    <3>3. QED BY <1>1, <3>1, <3>2 DEF ReceiptContinuesItsProof
  <2>3. QED BY <1>2, <2>1, <2>2
<1>7. QED BY <1>4, <1>5, <1>6

LEMMA CallKeepsTrust ==
  ASSUME NEW p \in Process, TypeOK, TrustInv, Call(p), NoServerKey \notin ServerKeys
  PROVE  AnswerIsSigned' /\ RecordsAreSigned' /\ TrustedSigner'
<1> USE DEF TrustInv
<1>1. Len(receipts) \in Nat /\ receipts \in Seq(AllReceipts) /\ answer[p] \in AllReceipts
  BY DEF TypeOK
<1>2. receipts' = receipts \/ Grows(p)
  BY CallFrame DEF SubmitProof, localVars
<1>3. AnswerIsSigned'
  <2>1. ASSUME NEW o \in Process \ {p}, pc'[o] \in {"answered", "append"} PROVE answer'[o].key # NoServerKey
    BY <2>1, CallFrame DEF AnswerIsSigned
  <2>2. ASSUME pc'[p] \in {"answered", "append"} PROVE answer'[p].key # NoServerKey
    <3>1. CASE \E q \in Proofs : answer'[p] = ReceiptOf(q, serverKey)
      BY <3>1, ReceiptTyped DEF TypeOK
    <3>2. CASE pc[p] = "answered" /\ answer' = answer
      BY <3>2 DEF AnswerIsSigned
    <3>3. QED BY <2>2, <3>1, <3>2, RequestSteps DEF Requesting
  <2>3. QED BY <2>1, <2>2 DEF AnswerIsSigned
<1>4. CASE receipts' = receipts
  <2>1. trust' = trust \/ DOMAIN receipts = {}
    BY TrustFrame DEF TrustedSigner, RecordsAreSigned
  <2>2. QED BY <1>3, <1>4, <2>1 DEF TrustedSigner, RecordsAreSigned
<1>5. CASE Grows(p)
  <2>1. trust' = trust /\ answer[p].key = trust /\ answer[p].key # NoServerKey
    BY <1>5, TrustFrame DEF Grows, Trust, AnswerIsChecked, AnswerIsSigned
  <2>2. /\ DOMAIN receipts' = 1..(Len(receipts) + 1)
        /\ \A i \in 1..Len(receipts) : receipts'[i] = receipts[i]
        /\ receipts'[Len(receipts) + 1] = answer[p]
    BY <1>1, <1>5 DEF Grows
  <2>3. QED BY <1>1, <1>3, <2>1, <2>2 DEF TrustedSigner, RecordsAreSigned
<1>6. QED BY <1>2, <1>4, <1>5

\* Neither the removal of a dead process's lock nor a new server key touches the
\* ledger, the trusted key or what a call has in hand.
LEMMA OthersKeepInv ==
  ASSUME TypeOK, OrderInv, TrustInv, ReclaimLock \/ RotateServerKey \/ UNCHANGED vars
  PROVE  OrderInv' /\ TrustInv'
<1>1. UNCHANGED <<pc, proof, answer, receipts, trust>>
  BY DEF ReclaimLock, RotateServerKey, vars, localVars, serverVars
<1>2. LockInv'
  BY OthersKeepLock DEF OrderInv
<1>3. QED
  BY <1>1, <1>2
  DEF OrderInv, TrustInv, ProofIsCurrent, AnswerIsChecked, AnswerIsSigned, RecordsAreSigned, TrustedSigner,
      ReceiptContinuesItsProof

LEMMA LedgerInvariant == Spec => [](TypeOK /\ OrderInv /\ TrustInv)
<1>1. Init => OrderInv /\ TrustInv
  BY ReceiptsAssumption
  DEF Init, OrderInv, TrustInv, LockInv, HoldsAcross, Room, Submitting, Requesting, ProofIsCurrent, AnswerIsChecked,
      AnswerIsSigned, RecordsAreSigned, TrustedSigner, ReceiptContinuesItsProof, ReceiptsAssumption
<1>2. TypeOK /\ OrderInv /\ TrustInv /\ [Next]_vars => (TypeOK /\ OrderInv /\ TrustInv)'
  <2> SUFFICES ASSUME TypeOK, OrderInv, TrustInv, [Next]_vars PROVE (TypeOK /\ OrderInv /\ TrustInv)'
    OBVIOUS
  <2>1. ASSUME NEW p \in Process, Call(p) PROVE (TypeOK /\ OrderInv /\ TrustInv)'
    <3>1. TypeOK' /\ LockInv'
      BY <2>1, CallTyped, CallKeepsLock DEF OrderInv
    <3>2. ProofIsCurrent' /\ AnswerIsChecked' /\ ReceiptContinuesItsProof'
      BY <2>1, CallKeepsOrder DEF OrderInv
    <3>3. AnswerIsSigned' /\ RecordsAreSigned' /\ TrustedSigner'
      BY <2>1, CallKeepsTrust, ReceiptsAssumption DEF ReceiptsAssumption
    <3>4. QED BY <3>1, <3>2, <3>3 DEF OrderInv, TrustInv
  <2>2. CASE ReclaimLock \/ RotateServerKey \/ UNCHANGED vars
    BY <2>2, OthersKeepInv, OthersKeepLock DEF OrderInv
  <2>3. QED BY <2>1, <2>2 DEF Next
<1>3. QED BY <1>1, <1>2, InitTyped, PTL DEF Spec

\* Every receipt in the ledger is signed with the one trusted key, whatever fails and
\* however often the server changes its key.
THEOREM OneSigner == Spec => []TrustedSigner
<1>1. TrustInv => TrustedSigner
  BY DEF TrustInv
<1>2. QED BY <1>1, LedgerInvariant, PTL

\* No receipt comes between the proof a receipt is for and that receipt.
THEOREM Order == Spec => []ReceiptContinuesItsProof
<1>1. OrderInv => ReceiptContinuesItsProof
  BY DEF OrderInv
<1>2. QED BY <1>1, LedgerInvariant, PTL

-----------------------------------------------------------------------------
(* What the server accepted.                                                *)

AcceptInv == HonestServer /\ AcceptedIsRecorded

Recorded(q) == \E i \in DOMAIN receipts : receipts[i].proof = q

\* Without a fault a step of p answers its own proof, records it, or is about nothing
\* the server has accepted.
LEMMA CallKeepsAccepted ==
  ASSUME NEW p \in Process, TypeOK, OrderInv, AcceptInv, Call(p), failures' = 0
  PROVE  AcceptInv'
<1>1. failures = 0 /\ ~PostAnsweredWrongly(p) /\ ~Fail(p) /\ ~Die(p)
  <2>1. failures \in Nat
    BY ReceiptsAssumption DEF TypeOK, ReceiptsAssumption
  <2>2. failures' = failures \/ failures' = failures + 1
    BY DEF Call, GetProof, SubmitProof, LookForKey, MakeKey, VerifyLedgers, RefuseSubmission, Post,
           PostAnsweredWrongly, Trust, RefuseReceipt, AppendReceipt, Fail, Die, Fault
  <2>3. QED BY <2>1, <2>2 DEF PostAnsweredWrongly, Fail, Die, Fault
<1>2. /\ trust \in {NoServerKey, serverKey}
      /\ \A o \in Process : pc[o] \in {"answered", "append"} => answer[o] = ReceiptOf(proof[o], serverKey)
      /\ \A q \in received : InFlight(q) \/ Recorded(q)
  BY <1>1 DEF AcceptInv, HonestServer, AcceptedIsRecorded, Recorded
<1>3. ~RefuseReceipt(p)
  <2>1. pc[p] = "answered" => answer[p].proof = proof[p] /\ answer[p].key = serverKey
    BY <1>2, ReceiptTyped DEF TypeOK
  <2>2. QED BY <1>2, <2>1 DEF RefuseReceipt, Verified, Bindable
<1>4. serverKey' = serverKey /\ (received' = received \/ Post(p))
  BY <1>1 DEF Call, GetProof, SubmitProof, LookForKey, MakeKey, VerifyLedgers, RefuseSubmission, Post, Trust,
              RefuseReceipt, AppendReceipt, serverVars
<1>5. CASE Post(p)
  <2>1. /\ pc' = [pc EXCEPT ![p] = "answered"] /\ proof' = proof /\ receipts' = receipts /\ trust' = trust
        /\ received' = received \cup {proof[p]}
        /\ answer' = [answer EXCEPT ![p] = ReceiptOf(proof[p], serverKey)]
        /\ pc[p] = "post"
    BY <1>5 DEF Post, GoTo, localVars
  <2>2. HonestServer'
    BY <1>2, <1>4, <2>1 DEF HonestServer, TypeOK
  <2>3. ASSUME NEW q \in received' PROVE InFlight(q)' \/ Recorded(q)'
    BY <1>2, <2>1 DEF InFlight, Recorded, TypeOK
  <2>4. QED BY <2>2, <2>3 DEF AcceptInv, AcceptedIsRecorded, Recorded
<1>6. CASE Trust(p)
  <2>1. /\ pc' = [pc EXCEPT ![p] = "append"] /\ proof' = proof /\ receipts' = receipts /\ answer' = answer
        /\ received' = received /\ trust' = answer[p].key /\ pc[p] = "answered"
    BY <1>6 DEF Trust, GoTo, serverVars
  <2>2. HonestServer'
    BY <1>2, <1>4, <2>1 DEF HonestServer, TypeOK, ReceiptOf
  <2>3. ASSUME NEW q \in received' PROVE InFlight(q)' \/ Recorded(q)'
    BY <1>2, <2>1 DEF InFlight, Recorded, TypeOK
  <2>4. QED BY <2>2, <2>3 DEF AcceptInv, AcceptedIsRecorded, Recorded
<1>7. CASE AppendReceipt(p)
  <2>1. /\ Ended(p) /\ receipts' = Append(receipts, answer[p]) /\ trust' = trust /\ received' = received
        /\ pc[p] = "append"
    BY <1>7, ReturnEnds DEF AppendReceipt, serverVars
  <2>2. /\ receipts \in Seq(AllReceipts) /\ answer[p] \in AllReceipts /\ answer[p].proof = proof[p]
    BY <2>1 DEF TypeOK, OrderInv, AnswerIsChecked
  <2>3. /\ \A i \in DOMAIN receipts : i \in DOMAIN receipts' /\ receipts'[i] = receipts[i]
        /\ Len(receipts) + 1 \in DOMAIN receipts' /\ receipts'[Len(receipts) + 1] = answer[p]
    BY <2>1, <2>2
  <2>4. HonestServer'
    BY <1>2, <1>4, <2>1, EndedTyped DEF HonestServer
  <2>5. ASSUME NEW q \in received' PROVE InFlight(q)' \/ Recorded(q)'
    <3>1. CASE Recorded(q)
      BY <2>3, <3>1 DEF Recorded
    <3>2. CASE q = proof[p]
      BY <2>2, <2>3, <3>2 DEF Recorded
    <3>3. CASE q # proof[p] /\ InFlight(q)
      BY <2>1, <3>3, EndedTyped DEF InFlight
    <3>4. QED BY <1>2, <2>1, <2>5, <3>1, <3>2, <3>3
  <2>6. QED BY <2>4, <2>5 DEF AcceptInv, AcceptedIsRecorded, Recorded
<1>8. CASE ~Post(p) /\ ~Trust(p) /\ ~AppendReceipt(p)
  <2>1. pc[p] \notin {"answered", "append"} /\ pc'[p] \notin {"answered", "append"} /\ trust' = trust /\ receipts' = receipts
    BY <1>1, <1>3, <1>8, ReturnEnds, EndedTyped
    DEF Call, GetProof, SubmitProof, LookForKey, MakeKey, UseKey, VerifyLedgers, RefuseSubmission, GoTo, localVars, TypeOK
  <2>2. HonestServer'
    BY <1>2, <1>4, <2>1, CallFrame DEF HonestServer
  <2>3. ASSUME NEW q \in received' PROVE InFlight(q)' \/ Recorded(q)'
    BY <1>2, <1>4, <1>8, <2>1, CallFrame DEF InFlight, Recorded
  <2>4. QED BY <2>2, <2>3 DEF AcceptInv, AcceptedIsRecorded, Recorded
<1>9. QED BY <1>5, <1>6, <1>7, <1>8

\* As long as nothing fails and the server keeps its key, no proof it accepted is left
\* without its receipt.
THEOREM Accepted == Spec => []AcceptedIsRecorded
<1>1. Init => AcceptInv
  BY DEF Init, AcceptInv, HonestServer, AcceptedIsRecorded
<1>2. TypeOK /\ OrderInv /\ AcceptInv /\ [Next]_vars => AcceptInv'
  <2> SUFFICES ASSUME TypeOK, OrderInv, AcceptInv, [Next]_vars PROVE AcceptInv'
    OBVIOUS
  <2>1. CASE failures' # 0
    BY <2>1 DEF AcceptInv, HonestServer, AcceptedIsRecorded
  <2>2. CASE failures' = 0 /\ \E p \in Process : Call(p)
    BY <2>2, CallKeepsAccepted
  <2>3. CASE ReclaimLock \/ UNCHANGED vars
    BY <2>3 DEF ReclaimLock, vars, localVars, serverVars, AcceptInv, HonestServer, AcceptedIsRecorded, InFlight
  <2>4. CASE failures' = 0 /\ RotateServerKey
    BY <2>4, ReceiptsAssumption DEF RotateServerKey, Fault, TypeOK, ReceiptsAssumption
  <2>5. QED BY <2>1, <2>2, <2>3, <2>4 DEF Next
<1>3. AcceptInv => AcceptedIsRecorded
  BY DEF AcceptInv
<1>4. QED BY <1>1, <1>2, <1>3, LedgerInvariant, PTL DEF Spec
=============================================================================
