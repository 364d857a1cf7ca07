------------------------------- MODULE Receipts --------------------------------
(***************************************************************************)
(* Commerce proofs and server receipts: CommerceProof signs the state of   *)
(* the ledgers with a key of this machine, SubmitCommerceProof sends such  *)
(* a proof to the Pro server and appends the receipt it answers with       *)
(* (internal/core/commerce_proof.go and commerce_receipt.go).              *)
(*                                                                         *)
(* A submission holds the mutation lock throughout, the request included;  *)
(* a plain proof takes no lock.  The receipt ledger is what SealedLog      *)
(* promises of it: records, and whether it still takes any.                *)
(***************************************************************************)
EXTENDS Naturals, Sequences

CONSTANTS
  Process,       \* agtx processes, or requests of one commerce server
  ServerKeys,    \* keys the server may sign receipts with over time
  Nobody,        \* holds the lock when nobody does
  NoServerKey,   \* no commerce-receipt-trust.json
  MaxReceipts,   \* bound on receipts in the ledger
  MaxProofKeys,  \* bound on proof keys made
  MaxFailures    \* bound on errors, crashes and wrong answers

ASSUME ReceiptsAssumption ==
  /\ Nobody \notin Process
  /\ NoServerKey \notin ServerKeys
  /\ MaxReceipts \in Nat /\ MaxProofKeys \in Nat \ {0} /\ MaxFailures \in Nat

VARIABLES
  lock,       \* holder of agtx.lock
  proofKey,   \* commerce-proof-key.json, NoProofKey when there is none
  made,       \* proof keys generated so far
  trust,      \* commerce-receipt-trust.json: the server key it binds
  receipts,   \* the records of commerce-receipts.jsonl
  sealed,     \* that ledger fails verification and takes no more
  serverKey,  \* the key the server signs with
  received,   \* proofs the server has accepted
  pc, proof, answer,  \* of each call: where it is, its proof, the receipt it got
  failures

localVars == <<proofKey, made, trust, receipts, sealed>>
serverVars == <<serverKey, received>>
vars == <<localVars, serverVars, lock, pc, proof, answer, failures>>

NoProofKey == 0
NoProof == [key |-> NoProofKey, counted |-> 0]
Proofs == [key : 0..MaxProofKeys, counted : 0..MaxReceipts]

\* A receipt names the proof it is for: VerifyCommerceReceipt compares payload
\* hash, signature, key, challenge and device.
ReceiptOf(q, k) == [proof |-> q, key |-> k]
AllReceipts == [proof : Proofs, key : ServerKeys \cup {NoServerKey}]
NoReceipt == ReceiptOf(NoProof, NoServerKey)

Submitting(p) == lock = p /\ pc[p] # "idle"

TypeOK ==
  /\ lock \in Process \cup {Nobody}
  /\ proofKey \in 0..made /\ made \in 0..MaxProofKeys
  /\ trust \in ServerKeys \cup {NoServerKey}
  /\ receipts \in Seq(AllReceipts) /\ Len(receipts) <= MaxReceipts
  /\ sealed \in BOOLEAN
  /\ serverKey \in ServerKeys
  /\ received \in SUBSET Proofs
  /\ pc \in [Process -> {"idle", "key", "makekey", "verify", "post", "answered", "append"}]
  /\ proof \in [Process -> Proofs]
  /\ answer \in [Process -> AllReceipts]
  /\ failures \in 0..MaxFailures
  /\ \A p \in Process : pc[p] \in {"verify", "post", "answered", "append"} => proof[p].key # NoProofKey

Init ==
  /\ lock = Nobody
  /\ proofKey = NoProofKey
  /\ made = 0
  /\ trust = NoServerKey
  /\ receipts = <<>>
  /\ sealed = FALSE
  /\ serverKey \in ServerKeys
  /\ received = {}
  /\ pc = [p \in Process |-> "idle"]
  /\ proof = [p \in Process |-> NoProof]
  /\ answer = [p \in Process |-> NoReceipt]
  /\ failures = 0

GoTo(p, label) == pc' = [pc EXCEPT ![p] = label]

\* The call returns; a submission gives the lock back.
Return(p) ==
  /\ GoTo(p, "idle")
  /\ lock' = IF lock = p THEN Nobody ELSE lock
  /\ proof' = [proof EXCEPT ![p] = NoProof]
  /\ answer' = [answer EXCEPT ![p] = NoReceipt]

Fault == failures < MaxFailures /\ failures' = failures + 1

-----------------------------------------------------------------------------
(* CommerceProof.                                                           *)

GetProof(p) ==
  /\ pc[p] = "idle" /\ lock # p
  /\ GoTo(p, "key")
  /\ UNCHANGED <<localVars, serverVars, lock, proof, answer, failures>>

SubmitProof(p) ==
  /\ pc[p] = "idle"
  /\ lock = Nobody
  /\ Len(receipts) < MaxReceipts
  /\ lock' = p
  /\ GoTo(p, "key")
  /\ UNCHANGED <<localVars, serverVars, proof, answer, failures>>

UseKey(p, k) ==
  /\ proof' = [proof EXCEPT ![p].key = k]
  /\ GoTo(p, "verify")

\* loadOrCreateCommerceProofKey: the key on disk, or a new one.
LookForKey(p) ==
  /\ pc[p] = "key"
  /\ \/ proofKey # NoProofKey /\ UseKey(p, proofKey)
     \/ proofKey = NoProofKey /\ GoTo(p, "makekey") /\ UNCHANGED proof
  /\ UNCHANGED <<localVars, serverVars, lock, answer, failures>>

MakeKey(p) ==
  /\ pc[p] = "makekey"
  /\ made < MaxProofKeys
  /\ made' = made + 1
  /\ proofKey' = made + 1
  /\ UseKey(p, made + 1)
  /\ UNCHANGED <<trust, receipts, sealed, serverVars, lock, answer, failures>>

\* The payload carries the summaries of the ledgers; the proof is then signed.
VerifyLedgers(p) ==
  LET q == [proof[p] EXCEPT !.counted = Len(receipts)]
  IN  /\ pc[p] = "verify"
      /\ IF Submitting(p)
           THEN /\ ~sealed
                /\ proof' = [proof EXCEPT ![p] = q]
                /\ GoTo(p, "post")
                /\ UNCHANGED <<lock, answer>>
           ELSE Return(p)
      /\ UNCHANGED <<localVars, serverVars, failures>>

\* A submission whose ledgers do not verify is refused before the request.
RefuseSubmission(p) ==
  /\ pc[p] = "verify" /\ Submitting(p) /\ sealed
  /\ Return(p)
  /\ UNCHANGED <<localVars, serverVars, failures>>

-----------------------------------------------------------------------------
(* The request and its answer.                                              *)

\* Mutant: the lock is released for the time of the request.
PostUnlocked(p) ==
  /\ pc[p] = "post"
  /\ received' = received \cup {proof[p]}
  /\ answer' = [answer EXCEPT ![p] = ReceiptOf(proof[p], serverKey)]
  /\ GoTo(p, "answered")
  /\ lock' = Nobody
  /\ UNCHANGED <<localVars, serverKey, proof, failures>>

Post(p) ==
  /\ pc[p] = "post"
  /\ received' = received \cup {proof[p]}
  /\ answer' = [answer EXCEPT ![p] = ReceiptOf(proof[p], serverKey)]
  /\ GoTo(p, "answered")
  /\ UNCHANGED <<localVars, serverKey, lock, proof, failures>>

\* The server answers with a receipt it issued for an earlier proof.
PostAnsweredWrongly(p) ==
  /\ pc[p] = "post"
  /\ Fault
  /\ \E q \in received :
       q # proof[p] /\ answer' = [answer EXCEPT ![p] = ReceiptOf(q, serverKey)]
  /\ GoTo(p, "answered")
  /\ UNCHANGED <<localVars, serverVars, lock, proof>>

Verified(p) == answer[p].proof = proof[p]

Bindable(p) == trust \in {NoServerKey, answer[p].key}

\* Mutant: the trust file follows the server.
TrustNewest(p) ==
  /\ pc[p] = "answered"
  /\ Verified(p)
  /\ trust' = answer[p].key
  /\ GoTo(p, "append")
  /\ UNCHANGED <<proofKey, made, receipts, sealed, serverVars, lock, proof, answer, failures>>

\* Mutant: a first binding ends the call.
TrustThenReturn(p) ==
  /\ pc[p] = "answered"
  /\ Verified(p)
  /\ Bindable(p)
  /\ trust' = answer[p].key
  /\ IF trust = NoServerKey THEN Return(p)
     ELSE GoTo(p, "append") /\ UNCHANGED <<lock, proof, answer>>
  /\ UNCHANGED <<proofKey, made, receipts, sealed, serverVars, failures>>

\* trustCommerceReceiptKey: the first key is bound, a later one must equal it.
Trust(p) ==
  /\ pc[p] = "answered"
  /\ Verified(p)
  /\ Bindable(p)
  /\ trust' = answer[p].key
  /\ GoTo(p, "append")
  /\ UNCHANGED <<proofKey, made, receipts, sealed, serverVars, lock, proof, answer, failures>>

RefuseReceipt(p) ==
  /\ pc[p] = "answered"
  /\ ~Verified(p) \/ ~Bindable(p)
  /\ Return(p)
  /\ UNCHANGED <<localVars, serverVars, failures>>

AppendReceipt(p) ==
  /\ pc[p] = "append"
  /\ receipts' = Append(receipts, answer[p])
  /\ Return(p)
  /\ UNCHANGED <<proofKey, made, trust, sealed, serverVars, failures>>

-----------------------------------------------------------------------------
(* Faults.                                                                  *)

\* An append that stops half way leaves the record out, or in; with the record
\* in the ledger may be sealed, see Ledger.
Leftovers(p) ==
  \/ UNCHANGED <<receipts, sealed>>
  \/ pc[p] = "append" /\ receipts' = Append(receipts, answer[p]) /\ sealed' \in BOOLEAN
  \/ pc[p] = "append" /\ receipts' = receipts /\ sealed' = TRUE

\* The request is lost on its way there or back; a file cannot be written.
Fail(p) ==
  /\ pc[p] # "idle"
  /\ Fault
  /\ Leftovers(p)
  /\ received' = IF pc[p] = "post" THEN received \cup {proof[p]} ELSE received
  /\ Return(p)
  /\ UNCHANGED <<proofKey, made, trust, serverKey>>

\* The process dies; a lock it held stays on disk until it is reclaimed.
Die(p) ==
  /\ pc[p] # "idle"
  /\ Fault
  /\ Leftovers(p)
  /\ GoTo(p, "idle")
  /\ proof' = [proof EXCEPT ![p] = NoProof]
  /\ answer' = [answer EXCEPT ![p] = NoReceipt]
  /\ UNCHANGED <<proofKey, made, trust, serverVars, lock>>

ReclaimLock ==
  /\ \E p \in Process : lock = p /\ pc[p] = "idle"
  /\ lock' = Nobody
  /\ UNCHANGED <<localVars, serverVars, pc, proof, answer, failures>>

RotateServerKey ==
  /\ serverKey' \in ServerKeys \ {serverKey}
  /\ Fault
  /\ UNCHANGED <<localVars, received, lock, pc, proof, answer>>

-----------------------------------------------------------------------------

Call(p) ==
  \/ GetProof(p) \/ SubmitProof(p)
  \/ LookForKey(p) \/ MakeKey(p)
  \/ VerifyLedgers(p) \/ RefuseSubmission(p)
  \/ Post(p) \/ PostAnsweredWrongly(p)
  \/ Trust(p) \/ RefuseReceipt(p) \/ AppendReceipt(p)
  \/ Fail(p) \/ Die(p)

Next == ReclaimLock \/ RotateServerKey \/ \E p \in Process : Call(p)

Spec == Init /\ [][Next]_vars

-----------------------------------------------------------------------------

\* Every receipt in the ledger is signed with the one key the trust file binds:
\* the binding precedes the first append, survives crashes between the two, and
\* a server that changes its key is not followed.
TrustedSigner == \A i \in DOMAIN receipts : receipts[i].key = trust

\* A receipt stands in the ledger at the place its proof described: no receipt
\* was added between the reading of the ledgers for the proof and the append,
\* although a network request lies between them.
ReceiptContinuesItsProof == \A i \in DOMAIN receipts : receipts[i].proof.counted = i - 1

\* Without faults, and while the server keeps its key, no proof the server has
\* accepted is left without its receipt in the ledger.
InFlight(q) == \E p \in Process : pc[p] \in {"answered", "append"} /\ proof[p] = q

AcceptedIsRecorded ==
  failures = 0 =>
    \A q \in received : InFlight(q) \/ \E i \in DOMAIN receipts : receipts[i].proof = q
=============================================================================
