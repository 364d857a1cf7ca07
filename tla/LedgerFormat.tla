----------------------------- MODULE LedgerFormat -----------------------------
(***************************************************************************)
(* What agtx reads out of the files of one commerce ledger:                *)
(* internal/core/ledger_integrity.go, verify*Records and the operators     *)
(* under it.  A ledger is a .jsonl file of hash-chained records, a head    *)
(* file and two anchor files; this module has no state of its own.         *)
(*                                                                         *)
(* A hash is a number: the HMAC of a record is abstracted to a value no    *)
(* other record has, NoHash stands for the empty string.  A record signed  *)
(* under another key or over another predecessor would fail the same check *)
(* as a wrong PreviousHash, so one comparison models both.                 *)
(***************************************************************************)
EXTENDS Naturals, Sequences, FiniteSetsExt

NoHash == 0

\* A line of the .jsonl file; hash = NoHash for a record without signature.
Line(seq, prev, hash) == [seq |-> seq, prev |-> prev, hash |-> hash]
LegacyLine == Line(0, NoHash, NoHash)

\* The head file and an anchor file: the position and hash they vouch for.
\* records = 0 stands for a missing file.
Mark(records, hash) == [records |-> records, hash |-> hash]
NoMark == Mark(0, NoHash)

Signed(ls) == {i \in DOMAIN ls : ls[i].hash # NoHash}

\* lastHash before record n: an unsigned record does not advance it.
HashBefore(ls, n) ==
  LET earlier == {i \in Signed(ls) : i < n}
  IN  IF earlier = {} THEN NoHash ELSE ls[Max(earlier)].hash

LastHash(ls) == HashBefore(ls, Len(ls) + 1)

LineVerified(ls, i, key) ==
  /\ ls[i].seq = i
  /\ ls[i].prev = HashBefore(ls, i)
  /\ key

\* A missing anchor is skipped; a present one must carry a known key and
\* agree with the records and with the head.
AnchorMatches(ls, head, anchor, key) ==
  \/ anchor = NoMark
  \/ /\ key
     /\ anchor.records = Len(ls)
     /\ anchor.hash = LastHash(ls)
     /\ anchor.hash = head.hash

\* summary.Failed > 0.  A head that lags is not among the failures.
HasFailures(ls, head, anchors, key) ==
  \/ \E i \in Signed(ls) : ~LineVerified(ls, i, key)
  \/ \E a \in DOMAIN anchors : ~AnchorMatches(ls, head, anchors[a], key)

HeadMatched(ls, head) ==
  \/ Len(ls) = 0 /\ head.hash = NoHash
  \/ Len(ls) > 0 /\ LastHash(ls) # NoHash /\ LastHash(ls) = head.hash

\* finalizeLedgerIntegritySummary, in the order of its switch.
Status(ls, head, anchors, key) ==
  CASE HasFailures(ls, head, anchors, key)            -> "failed"
    [] OTHER ->
  CASE Len(ls) = 0 /\ head.hash = NoHash              -> "empty"
    [] OTHER ->
  CASE Signed(ls) # {} /\ ~HeadMatched(ls, head)      -> "failed"
    [] OTHER ->
  CASE Signed(ls) # DOMAIN ls                         -> "legacy_unsigned"
    [] OTHER ->
  IF HeadMatched(ls, head) THEN "verified" ELSE "failed"
=============================================================================
