SPECIFICATION Spec
CONSTANTS
  p1 = p1
  p2 = p2
  k1 = k1
  k2 = k2
  Nobody = Nobody
  NoServerKey = NoServerKey
  Process = {p1, p2}
  ServerKeys = {k1, k2}
  MaxReceipts = 3
  MaxProofKeys = 3
  MaxFailures = 2
INVARIANTS
  TrustedSigner
  ReceiptContinuesItsProof
  AcceptedIsRecorded
