---------------------------- MODULE CommerceProofs ----------------------------
(***************************************************************************)
(* Proofs about Commerce and CommerceServer, for any processes, packs,     *)
(* meters, versions and numbers of calls and interruptions.                *)
(***************************************************************************)
EXTENDS CommerceServer, FiniteSetTheorems, TLAPS

Stages == {"idle"} \cup InstallStages \cup RunStages

CallRecords ==
  [stage : Stages, id : 0..MaxCalls, pack : Packs \cup {"no_pack"}, skills : Seq(Skills), changed : BOOLEAN,
   meters : SUBSET Meters]

Typed == TypeOK /\ call \in [Procs -> CallRecords]

-----------------------------------------------------------------------------
(* What the steps make of a call.                                           *)

Others(p) == \A q \in Procs \ {p} : call'[q] = call[q]

LEMMA NoCallTyped == NoCall \in CallRecords /\ NoCall.stage = "idle"
<1>1. <<>> \in Seq(Skills)
  OBVIOUS
<1>2. 0 \in 0..MaxCalls
  BY CommerceAssumption DEF CommerceAssumption
<1>3. QED BY <1>1, <1>2 DEF NoCall, CallRecords, Stages

\* A new call has the next number and is otherwise what was asked for.
LEMMA StartFacts ==
  ASSUME Typed, NEW p \in Procs, NEW c \in CallRecords, Start(p, c)
  PROVE  /\ call' \in [Procs -> CallRecords] /\ Others(p) /\ call[p].stage = "idle"
         /\ calls' = calls + 1 /\ calls' \in 1..MaxCalls
         /\ call'[p].id = calls + 1
         /\ call'[p].stage = c.stage /\ call'[p].pack = c.pack /\ call'[p].changed = c.changed
         /\ call'[p].meters = c.meters /\ call'[p].skills = c.skills
<1> DEFINE r == [c EXCEPT !.id = calls + 1]
<1>1. calls + 1 \in 1..MaxCalls /\ calls + 1 \in 0..MaxCalls
  BY CommerceAssumption DEF Start, Typed, TypeOK, CommerceAssumption
<1>2. /\ r \in CallRecords /\ r.id = calls + 1 /\ r.stage = c.stage /\ r.pack = c.pack /\ r.changed = c.changed
      /\ r.meters = c.meters /\ r.skills = c.skills
  BY <1>1 DEF CallRecords
<1>3. call' = [call EXCEPT ![p] = r] /\ calls' = calls + 1 /\ call[p].stage = "idle"
  BY DEF Start
<1> HIDE DEF r
<1>4. QED BY <1>1, <1>2, <1>3 DEF Typed, Others

LEMMA EndFacts ==
  ASSUME Typed, NEW p \in Procs, NEW how \in {"ok", "error"}, End(p, how), call[p].id # 0
  PROVE  /\ call' \in [Procs -> CallRecords] /\ Others(p) /\ call'[p].stage = "idle"
         /\ ended' \in [1..MaxCalls -> {"open", "ok", "error"}] /\ ended'[call[p].id] = how
         /\ \A id \in 1..MaxCalls : id # call[p].id => ended'[id] = ended[id]
         /\ holder' \in {holder, "free"} /\ (holder # p => holder' = holder)
<1>1. call[p].id \in 1..MaxCalls
  BY CommerceAssumption DEF Typed, CallRecords, CommerceAssumption
<1>2. QED BY <1>1, NoCallTyped DEF Typed, TypeOK, End, Others

LEMMA InstallSkillFacts ==
  ASSUME Typed, NEW p \in Procs, InstallSkill(p)
  PROVE  /\ call' \in [Procs -> CallRecords] /\ Others(p)
         /\ call'[p].id = call[p].id /\ call'[p].pack = call[p].pack /\ call'[p].meters = call[p].meters
         /\ call'[p].stage \in {"skills", "record"} /\ call[p].stage = "skills"
         /\ call[p].changed => call'[p].changed
         /\ earned' = earned \/ (earned' = earned \cup {call[p].id} /\ call'[p].changed /\ call[p].pack # "no_pack")
         /\ call'[p].changed /\ ~call[p].changed /\ call[p].pack # "no_pack" => call[p].id \in earned'
         /\ call'[p].skills = Tail(call[p].skills)
         /\ call'[p].stage = IF Len(call[p].skills) = 1 THEN "record" ELSE "skills"
         /\ call'[p].changed /\ ~call[p].changed => installed[Head(call[p].skills)] # offered[Head(call[p].skills)]
<1> DEFINE moved == installed[Head(call[p].skills)] # offered[Head(call[p].skills)]
           st == IF Len(call[p].skills) = 1 THEN "record" ELSE "skills"
           ch == call[p].changed \/ moved
           r == [call[p] EXCEPT !.skills = Tail(@), !.changed = ch, !.stage = st]
<1>1. call[p] \in CallRecords /\ call[p].skills \in Seq(Skills) /\ call[p].skills # <<>> /\ call[p].changed \in BOOLEAN
  BY DEF Typed, CallRecords, InstallSkill
<1>2. Tail(call[p].skills) \in Seq(Skills)
  BY <1>1
<1>3. st \in Stages /\ st \in {"skills", "record"}
  BY DEF Stages, InstallStages
<1>4. moved \in BOOLEAN
  OBVIOUS
<1>5. ch \in BOOLEAN /\ (call[p].changed => ch) /\ (moved => ch) /\ (~moved => ch = call[p].changed)
  <2> HIDE DEF moved
  <2> QED BY <1>1, <1>4, Zenon
<1>6. call' = [call EXCEPT ![p] = r] /\ call[p].stage = "skills"
      /\ earned' = IF moved /\ call[p].pack # "no_pack" THEN earned \cup {call[p].id} ELSE earned
  BY DEF InstallSkill
<1> HIDE DEF moved, st, ch
<1>7. /\ r \in CallRecords /\ r.id = call[p].id /\ r.pack = call[p].pack /\ r.meters = call[p].meters
      /\ r.stage = st /\ r.changed = ch /\ r.skills = Tail(call[p].skills)
  BY <1>1, <1>2, <1>3, <1>5 DEF CallRecords
<1> HIDE DEF r
<1>8. call' \in [Procs -> CallRecords] /\ Others(p) /\ call'[p] = r
  BY <1>6, <1>7 DEF Typed, Others
<1>9. /\ call'[p].stage = IF Len(call[p].skills) = 1 THEN "record" ELSE "skills"
      /\ call'[p].changed /\ ~call[p].changed => installed[Head(call[p].skills)] # offered[Head(call[p].skills)]
  BY <1>5, <1>7, <1>8 DEF st, moved
<1>10. QED BY <1>1, <1>3, <1>5, <1>6, <1>7, <1>8, <1>9

\* One step of the billing: one more meter is billed, and after the last one the call ends.
LEMMA BillNextFacts ==
  ASSUME Typed, NEW p \in Procs, BillNext(p), call[p].id # 0
  PROVE  \E meter \in call[p].meters :
           /\ bills' = bills \cup {[id |-> call[p].id, meter |-> meter]}
           /\ \/ call[p].meters = {meter} /\ End(p, "ok")
              \/ /\ call' \in [Procs -> CallRecords] /\ Others(p) /\ call'[p].stage = call[p].stage
                 /\ call'[p].id = call[p].id /\ call'[p].pack = call[p].pack /\ call'[p].changed = call[p].changed
                 /\ call'[p].meters = call[p].meters \ {meter} /\ UNCHANGED <<ended, holder>>
<1>1. PICK meter \in call[p].meters :
        /\ bills' = bills \cup {[id |-> call[p].id, meter |-> meter]}
        /\ IF call[p].meters = {meter}
           THEN End(p, "ok")
           ELSE call' = [call EXCEPT ![p].meters = @ \ {meter}] /\ UNCHANGED <<ended, holder>>
  BY DEF BillNext
<1> DEFINE r == [call[p] EXCEPT !.meters = @ \ {meter}]
<1>2. CASE call[p].meters = {meter}
  BY <1>1, <1>2
<1>3. CASE call[p].meters # {meter}
  <2>1. call' = [call EXCEPT ![p] = r] /\ UNCHANGED <<ended, holder>>
    BY <1>1, <1>3
  <2>2. /\ r \in CallRecords /\ r.meters = call[p].meters \ {meter} /\ r.stage = call[p].stage /\ r.id = call[p].id
        /\ r.pack = call[p].pack /\ r.changed = call[p].changed
    BY DEF Typed, CallRecords
  <2> HIDE DEF r
  <2>3. QED BY <1>1, <2>1, <2>2 DEF Typed, Others
<1>4. QED BY <1>2, <1>3

\* The stage of a call moves on, and perhaps the meters it still has to deal with.
LEMMA MoveFacts ==
  ASSUME Typed, NEW p \in Procs, NEW stage \in Stages, NEW meters, meters \subseteq Meters,
         call' = [call EXCEPT ![p].stage = stage, ![p].meters = meters]
  PROVE  /\ call' \in [Procs -> CallRecords] /\ Others(p)
         /\ call'[p].stage = stage /\ call'[p].meters = meters
         /\ call'[p].id = call[p].id /\ call'[p].pack = call[p].pack /\ call'[p].changed = call[p].changed
<1> DEFINE r == [call[p] EXCEPT !.stage = stage, !.meters = meters]
<1>1. /\ r \in CallRecords /\ r.stage = stage /\ r.meters = meters /\ r.id = call[p].id /\ r.pack = call[p].pack
      /\ r.changed = call[p].changed
  BY DEF Typed, CallRecords
<1>2. call' = [call EXCEPT ![p] = r]
  OBVIOUS
<1> HIDE DEF r
<1>3. QED BY <1>1, <1>2 DEF Typed, Others

-----------------------------------------------------------------------------
(* The inductive invariant.                                                 *)

Busy(p) == call[p].stage # "idle"

\* What a call at work may rely on, from the number it was given to the meters
\* it still has to bill.
CallInv(p) ==
  /\ Busy(p) => call[p].id \in 1..calls /\ ended[call[p].id] = "open"
  /\ Busy(p) => \A r \in records : r.status = "already_installed" => r.id # call[p].id
  /\ call[p].stage \in InstallStages \cup {"sign"} => holder = p
  /\ call[p].stage = "skills" => sealed = {}
  /\ call[p].stage \in {"bill", "report", "lock", "sign"} => call[p].id \in earned
  /\ call[p].stage \in {"skills", "record"} /\ call[p].changed /\ call[p].pack # "no_pack" => call[p].id \in earned
  /\ call[p].stage \in {"skills", "record"} /\ call[p].id \in earned => call[p].changed /\ call[p].pack # "no_pack"
  /\ call[p].stage = "running" => call[p].id \notin earned
  /\ call[p].stage \in {"skills", "record", "running", "report", "lock"} => \A b \in bills : b.id # call[p].id
  /\ call[p].stage \in {"bill", "sign"} =>
       \A meter \in Meters \ call[p].meters : [id |-> call[p].id, meter |-> meter] \in bills
  /\ call[p].stage = "lock" => call[p].meters = Meters

DistinctIds == \A p, q \in Procs : p # q /\ Busy(p) /\ Busy(q) => call[p].id # call[q].id

BooksInv ==
  /\ earned \subseteq 1..calls
  /\ \A e \in bills \cup usage : e.id \in earned
  /\ \A r \in records : r.id \in 1..calls
  /\ \A r \in records : r.status = "already_installed" => \A b \in bills : b.id # r.id
  /\ \A id \in earned, meter \in Meters : ended[id] = "ok" => [id |-> id, meter |-> meter] \in bills
  /\ \A id \in 1..MaxCalls : id > calls => ended[id] = "open"

IInv == Typed /\ (\A p \in Procs : CallInv(p)) /\ DistinctIds /\ BooksInv

-----------------------------------------------------------------------------
(* The calls of the other processes.                                        *)

\* A step of p leaves the books of every call but the i-th alone, and takes the
\* lock from nobody else.
Touches(p, i) ==
  /\ Others(p)
  /\ call'[p].stage # "idle" => call'[p].id = i
  /\ calls' \in Nat /\ calls <= calls'
  /\ \A id \in 1..MaxCalls : id # i => ended'[id] = ended[id]
  /\ \A id : id # i => (id \in earned' <=> id \in earned)
  /\ bills \subseteq bills' /\ \A b \in bills' : b.id = i \/ b \in bills
  /\ \A r \in records' : r.id = i \/ r \in records
  /\ holder' # holder => holder \in {p, "free"}
  /\ sealed' # sealed => holder = p

LEMMA OthersKeep ==
  ASSUME IInv, NEW p \in Procs, NEW i \in Nat, Touches(p, i),
         (Busy(p) /\ i = call[p].id) \/ (~Busy(p) /\ i = calls + 1)
  PROVE  (\A q \in Procs \ {p} : CallInv(q)') /\ DistinctIds'
<1>1. ASSUME NEW q \in Procs \ {p} PROVE call'[q] = call[q] /\ CallInv(q) /\ (Busy(q) => call[q].id # i /\ call[q].id \in 1..MaxCalls)
  <2>1. call'[q] = call[q] /\ CallInv(q)
    BY DEF Touches, Others, IInv
  <2>2. Busy(q) => call[q].id \in 1..calls /\ calls \in Nat /\ calls <= MaxCalls /\ MaxCalls \in Nat
    BY <2>1, CommerceAssumption DEF CallInv, IInv, Typed, TypeOK, CommerceAssumption
  <2>3. Busy(q) /\ Busy(p) => call[q].id # call[p].id
    BY DEF IInv, DistinctIds
  <2>4. QED BY <2>1, <2>2, <2>3
<1>2. ASSUME NEW q \in Procs \ {p} PROVE CallInv(q)'
  <2>1. q # "free" /\ q # p
    BY CommerceAssumption DEF CommerceAssumption
  <2>2. CASE ~Busy(q)
    BY <1>1, <2>2 DEF CallInv, Busy, InstallStages
  <2>3. CASE Busy(q)
    <3>1. call'[q] = call[q] /\ CallInv(q) /\ call[q].id # i /\ call[q].id \in 1..MaxCalls
      BY <1>1, <2>3
    <3>2. call[q].id \in 1..calls' /\ ended'[call[q].id] = "open"
      BY <3>1, <2>3, CommerceAssumption DEF CallInv, Touches, IInv, Typed, TypeOK, CommerceAssumption
    <3>3. \A r \in records' : r.status = "already_installed" => r.id # call[q].id
      BY <3>1, <2>3 DEF CallInv, Touches
    <3>4. call[q].stage \in InstallStages \cup {"sign"} => holder' = q
      BY <3>1, <2>1 DEF CallInv, Touches
    <3>5. call[q].stage = "skills" => sealed' = {}
      BY <3>1, <2>1 DEF CallInv, Touches, InstallStages
    <3>6. call[q].id \in earned' <=> call[q].id \in earned
      BY <3>1 DEF Touches
    <3>7. bills \subseteq bills' /\ \A b \in bills' : b.id = call[q].id => b \in bills
      BY <3>1 DEF Touches
    <3>8. QED BY <3>1, <3>2, <3>3, <3>4, <3>5, <3>6, <3>7 DEF CallInv, Busy
  <2>4. QED BY <2>2, <2>3
<1>3. DistinctIds'
  <2>1. SUFFICES ASSUME NEW q1 \in Procs, NEW q2 \in Procs, q1 # q2, Busy(q1)', Busy(q2)'
                 PROVE  call'[q1].id # call'[q2].id
    BY DEF DistinctIds
  <2>2. CASE q1 = p
    BY <1>1, <2>1, <2>2 DEF Touches, Busy
  <2>3. CASE q2 = p
    BY <1>1, <2>1, <2>3 DEF Touches, Busy
  <2>4. CASE q1 # p /\ q2 # p
    BY <1>1, <2>1, <2>4 DEF IInv, DistinctIds, Busy
  <2>5. QED BY <2>2, <2>3, <2>4
<1>4. QED BY <1>2, <1>3

-----------------------------------------------------------------------------
(* Steps that begin a call.                                                 *)

LEMMA StartKeeps ==
  ASSUME IInv, NEW p \in Procs, NEW c \in CallRecords, Start(p, c), c.changed = FALSE,
         \/ c.stage = "skills" /\ sealed = {} /\ holder = "free" /\ holder' = p
         \/ c.stage = "running" /\ UNCHANGED holder,
         UNCHANGED <<store, books, sealed, ended, earned, interrupts>>
  PROVE  IInv'
<1>1. /\ Typed /\ CallInv(p) /\ BooksInv /\ DistinctIds
      /\ UNCHANGED <<offered, installed, records, bills, usage, sealed, ended, earned, interrupts>>
  BY DEF IInv, store, books
<1>2. /\ call' \in [Procs -> CallRecords] /\ Others(p) /\ ~Busy(p)
      /\ calls' = calls + 1 /\ calls' \in 1..MaxCalls /\ calls \in Nat /\ calls + 1 \in Nat
      /\ call'[p].id = calls + 1 /\ call'[p].stage = c.stage /\ call'[p].changed = FALSE
  BY <1>1, StartFacts, CommerceAssumption DEF Busy, Typed, TypeOK, CommerceAssumption
<1>3. Typed'
  BY <1>1, <1>2 DEF Typed, TypeOK, CallRecords, Stages, InstallStages, RunStages
<1>4. Touches(p, calls + 1)
  BY <1>1, <1>2 DEF Touches
<1>5. (\A q \in Procs \ {p} : CallInv(q)') /\ DistinctIds'
  BY <1>2, <1>4, OthersKeep
<1>6. BooksInv'
  <2>1. 1..calls \subseteq 1..calls'
    BY <1>2
  <2>2. earned' \subseteq 1..calls' /\ \A r \in records' : r.id \in 1..calls'
    BY <1>1, <2>1 DEF BooksInv
  <2>3. \A id \in 1..MaxCalls : id > calls' => ended'[id] = "open"
    BY <1>1, <1>2, CommerceAssumption DEF BooksInv, CommerceAssumption
  <2>4. QED BY <1>1, <2>2, <2>3 DEF BooksInv
<1>7. CallInv(p)'
  <2>1. calls + 1 \in 1..MaxCalls /\ calls + 1 \in 1..calls' /\ calls + 1 \notin 1..calls /\ ended[calls + 1] = "open"
    BY <1>1, <1>2, CommerceAssumption DEF BooksInv, CommerceAssumption
  <2>2. calls + 1 \notin earned /\ (\A r \in records : r.id # calls + 1) /\ (\A b \in bills : b.id # calls + 1)
    BY <1>1, <2>1 DEF BooksInv
  <2>3. QED BY <1>1, <1>2, <2>1, <2>2 DEF CallInv, Busy, InstallStages
<1>8. QED BY <1>3, <1>5, <1>6, <1>7 DEF IInv

-----------------------------------------------------------------------------
(* Steps that end one.                                                      *)

\* A call ends well only when all it earned is billed, and a pack found as it
\* was is recorded only by a call without bills.
LEMMA EndKeeps ==
  ASSUME IInv, NEW p \in Procs, Busy(p), NEW how \in {"ok", "error"}, End(p, how),
         UNCHANGED <<store, calls, usage>>, interrupts' \in 0..MaxInterrupts,
         sealed' \subseteq Ledgers, sealed' # sealed => holder = p,
         earned' = earned \/ earned' = earned \cup {call[p].id},
         bills' = bills \/ (call[p].id \in earned /\ \E meter \in Meters : bills' = bills \cup {[id |-> call[p].id, meter |-> meter]}),
         \/ records' = records
         \/ /\ call[p].stage = "record" /\ bills' = bills
            /\ records' = records \cup {[id |-> call[p].id, pack |-> call[p].pack, status |-> InstallStatus(p)]},
         how = "ok" /\ call[p].id \in earned' => \A meter \in Meters : [id |-> call[p].id, meter |-> meter] \in bills'
  PROVE  IInv'
<1> DEFINE i == call[p].id
           record == [id |-> i, pack |-> call[p].pack, status |-> InstallStatus(p)]
<1>1. /\ Typed /\ TypeOK /\ CallInv(p) /\ BooksInv /\ UNCHANGED <<offered, installed, calls, usage>>
  BY DEF IInv, Typed, store
<1>2. i \in 1..calls /\ i \in 1..MaxCalls /\ i # 0 /\ i \in Nat /\ calls \in Nat
  BY <1>1, CommerceAssumption DEF CallInv, TypeOK, CommerceAssumption
<1>3. /\ call' \in [Procs -> CallRecords] /\ Others(p) /\ call'[p].stage = "idle"
      /\ ended' \in [1..MaxCalls -> {"open", "ok", "error"}] /\ ended'[i] = how
      /\ \A id \in 1..MaxCalls : id # i => ended'[id] = ended[id]
      /\ holder' \in {holder, "free"} /\ (holder # p => holder' = holder)
  BY <1>1, <1>2, EndFacts
<1>4. bills' \subseteq Events /\ bills \subseteq bills' /\ \A b \in bills' : b \in bills \/ (b.id = i /\ i \in earned)
  BY <1>1, <1>2 DEF TypeOK, Events
<1>5. /\ records' \subseteq [id : 1..MaxCalls, pack : Packs \cup {"no_pack"}, status : {"installed", "already_installed"}]
      /\ \A r \in records' : r \in records \/ (r = record /\ call[p].stage = "record" /\ bills' = bills)
  <2>1. call[p] \in CallRecords /\ InstallStatus(p) \in {"installed", "already_installed"}
    BY <1>1 DEF Typed, InstallStatus
  <2>2. record \in [id : 1..MaxCalls, pack : Packs \cup {"no_pack"}, status : {"installed", "already_installed"}]
    BY <1>2, <2>1 DEF CallRecords
  <2>3. QED BY <1>1, <2>2 DEF TypeOK
<1>6. earned' \subseteq 1..MaxCalls /\ earned \subseteq earned' /\ earned' \subseteq 1..calls
      /\ \A id : id # i => (id \in earned' <=> id \in earned)
  BY <1>1, <1>2 DEF TypeOK, BooksInv
<1>7. Typed'
  <2>1. \A q \in Procs : /\ call'[q].stage \in Stages /\ call'[q].id \in 0..MaxCalls
                         /\ call'[q].pack \in Packs \cup {"no_pack"} /\ call'[q].meters \subseteq Meters
    BY <1>3 DEF CallRecords
  <2>2. holder' \in Procs \cup {"free"}
    BY <1>1, <1>3 DEF TypeOK
  <2>3. QED BY <1>1, <1>3, <1>4, <1>5, <1>6, <2>1, <2>2 DEF Typed, TypeOK, Stages
<1>8. Touches(p, i)
  BY <1>1, <1>2, <1>3, <1>4, <1>5, <1>6 DEF Touches
<1>9. (\A q \in Procs \ {p} : CallInv(q)') /\ DistinctIds'
  BY <1>2, <1>8, OthersKeep
<1>10. CallInv(p)'
  BY <1>3 DEF CallInv, Busy, InstallStages
<1>11. BooksInv'
  <2>1. \A e \in bills' \cup usage' : e.id \in earned'
    BY <1>1, <1>4, <1>6 DEF BooksInv
  <2>2. \A r \in records' : r.id \in 1..calls'
    BY <1>1, <1>2, <1>5 DEF BooksInv
  <2>3. ASSUME NEW r \in records', r.status = "already_installed", NEW b \in bills' PROVE b.id # r.id
    <3>1. CASE r \in records
      BY <1>1, <1>4, <2>3, <3>1 DEF BooksInv, CallInv
    <3>2. CASE r = record /\ call[p].stage = "record" /\ bills' = bills
      BY <1>1, <2>3, <3>2 DEF CallInv
    <3>3. QED BY <1>5, <3>1, <3>2
  <2>4. ASSUME NEW id \in earned', NEW meter \in Meters, ended'[id] = "ok" PROVE [id |-> id, meter |-> meter] \in bills'
    <3>1. CASE id = i
      BY <1>3, <2>4, <3>1
    <3>2. CASE id # i
      BY <1>1, <1>3, <1>4, <1>6, <2>4, <3>2 DEF BooksInv
    <3>3. QED BY <3>1, <3>2
  <2>5. \A id \in 1..MaxCalls : id > calls' => ended'[id] = "open"
    BY <1>1, <1>2, <1>3 DEF BooksInv
  <2>6. QED BY <1>1, <1>6, <2>1, <2>2, <2>3, <2>4, <2>5 DEF BooksInv
<1>12. QED BY <1>7, <1>9, <1>10, <1>11 DEF IInv

-----------------------------------------------------------------------------
(* Steps within one.                                                        *)

LEMMA MoveKeeps ==
  ASSUME IInv, NEW p \in Procs, Busy(p), Busy(p)', CallInv(p)',
         call' \in [Procs -> CallRecords], Others(p), call'[p].id = call[p].id,
         UNCHANGED <<offered, calls, sealed, ended, interrupts>>,
         installed' \in [Skills -> 0..MaxVersion],
         holder' = holder \/ (holder = "free" /\ holder' = p),
         earned' = earned \/ earned' = earned \cup {call[p].id},
         usage' = usage \/ (call[p].id \in earned /\ \E meter \in Meters : usage' = usage \cup {[id |-> call[p].id, meter |-> meter]}),
         bills' = bills \/ (call[p].id \in earned /\ \E meter \in Meters : bills' = bills \cup {[id |-> call[p].id, meter |-> meter]}),
         \/ records' = records
         \/ \E k \in Packs \cup {"no_pack"} :
              records' = records \cup {[id |-> call[p].id, pack |-> k, status |-> "installed"]}
  PROVE  IInv'
<1> DEFINE i == call[p].id
<1>1. Typed /\ TypeOK /\ CallInv(p) /\ BooksInv
  BY DEF IInv, Typed
<1>2. i \in 1..calls /\ i \in 1..MaxCalls /\ i \in Nat /\ calls \in Nat /\ ended[i] = "open"
  BY <1>1, CommerceAssumption DEF CallInv, TypeOK, CommerceAssumption
<1>3. \A meter \in Meters : [id |-> i, meter |-> meter] \in Events
  BY <1>2 DEF Events
<1>4. bills' \subseteq Events /\ bills \subseteq bills' /\ \A b \in bills' : b \in bills \/ (b.id = i /\ i \in earned)
  BY <1>1, <1>3 DEF TypeOK
<1>5. usage' \subseteq Events /\ \A e \in usage' : e \in usage \/ (e.id = i /\ i \in earned)
  BY <1>1, <1>3 DEF TypeOK
<1>6. /\ records' \subseteq [id : 1..MaxCalls, pack : Packs \cup {"no_pack"}, status : {"installed", "already_installed"}]
      /\ \A r \in records' : r \in records \/ (r.id = i /\ r.status = "installed")
  BY <1>1, <1>2 DEF TypeOK
<1>7. earned' \subseteq 1..MaxCalls /\ earned \subseteq earned' /\ earned' \subseteq 1..calls
      /\ \A id : id # i => (id \in earned' <=> id \in earned)
  BY <1>1, <1>2 DEF TypeOK, BooksInv
<1>8. Typed'
  <2>1. \A q \in Procs : /\ call'[q].stage \in Stages /\ call'[q].id \in 0..MaxCalls
                         /\ call'[q].pack \in Packs \cup {"no_pack"} /\ call'[q].meters \subseteq Meters
    BY DEF CallRecords
  <2>2. holder' \in Procs \cup {"free"}
    BY <1>1 DEF TypeOK
  <2>3. QED BY <1>1, <1>4, <1>5, <1>6, <1>7, <2>1, <2>2 DEF Typed, TypeOK, Stages
<1>9. Touches(p, i)
  BY <1>1, <1>2, <1>4, <1>6, <1>7 DEF Touches
<1>10. (\A q \in Procs \ {p} : CallInv(q)') /\ DistinctIds'
  BY <1>2, <1>9, OthersKeep
<1>11. BooksInv'
  <2>1. \A e \in bills' \cup usage' : e.id \in earned'
    BY <1>1, <1>4, <1>5, <1>7 DEF BooksInv
  <2>2. \A r \in records' : r.id \in 1..calls'
    BY <1>1, <1>2, <1>6 DEF BooksInv
  <2>3. ASSUME NEW r \in records', r.status = "already_installed", NEW b \in bills' PROVE b.id # r.id
    <3>1. r \in records
      BY <1>6, <2>3
    <3>2. QED BY <1>1, <1>4, <2>3, <3>1 DEF BooksInv, CallInv
  <2>4. ASSUME NEW id \in earned', NEW meter \in Meters, ended'[id] = "ok" PROVE [id |-> id, meter |-> meter] \in bills'
    <3>1. id # i
      BY <1>2, <2>4
    <3>2. QED BY <1>1, <1>4, <1>7, <2>4, <3>1 DEF BooksInv
  <2>5. QED BY <1>1, <1>7, <2>1, <2>2, <2>3, <2>4 DEF BooksInv
<1>12. QED BY <1>8, <1>10, <1>11 DEF IInv

-----------------------------------------------------------------------------
(* The actions.                                                             *)

LEMMA BusyFacts ==
  ASSUME IInv, NEW p \in Procs, Busy(p)
  PROVE  /\ Typed /\ TypeOK /\ CallInv(p) /\ BooksInv /\ call[p] \in CallRecords
         /\ call[p].id \in 1..calls /\ call[p].id \in 1..MaxCalls /\ call[p].id # 0 /\ ended[call[p].id] = "open"
<1>1. Typed /\ TypeOK /\ CallInv(p) /\ BooksInv
  BY DEF IInv, Typed
<1>2. QED BY <1>1, CommerceAssumption DEF CallInv, TypeOK, Typed, CommerceAssumption

LEMMA OthersKeepStore ==
  ASSUME IInv,
         (\E s \in Skills, v \in 1..MaxVersion : Publish(s, v)) \/ (\E s \in Skills, v \in 0..MaxVersion : OtherCommand(s, v))
  PROVE  IInv'
<1>1. /\ offered' \in [Skills -> 1..MaxVersion] /\ installed' \in [Skills -> 0..MaxVersion]
      /\ UNCHANGED <<holder, call, calls, records, bills, usage, sealed, ended, earned, interrupts>>
  BY DEF IInv, Typed, TypeOK, Publish, OtherCommand, books
<1>2. Typed'
  BY <1>1 DEF IInv, Typed, TypeOK
<1>3. (\A p \in Procs : CallInv(p)') /\ DistinctIds' /\ BooksInv'
  BY <1>1 DEF IInv, CallInv, DistinctIds, BooksInv, Busy
<1>4. QED BY <1>2, <1>3 DEF IInv

LEMMA BeginKeeps ==
  ASSUME IInv, NEW p \in Procs,
         (\E k \in Packs : BeginPack(p, k)) \/ (\E s \in Skills : BeginSkill(p, s)) \/ BeginRun(p)
  PROVE  IInv'
<1>1. ASSUME NEW k \in Packs, BeginPack(p, k) PROVE IInv'
  <2> DEFINE c == [NoCall EXCEPT !.stage = "skills", !.pack = k, !.skills = PackSkills[k]]
  <2>1. PackSkills[k] \in Seq(Skills)
    BY CommerceAssumption DEF CommerceAssumption
  <2>2. c \in CallRecords /\ c.stage = "skills" /\ c.changed = FALSE
    BY <2>1, NoCallTyped DEF NoCall, CallRecords, Stages, InstallStages
  <2>3. Take(p, c)
    BY <1>1 DEF BeginPack
  <2> HIDE DEF c
  <2>4. QED BY <2>2, <2>3, StartKeeps DEF Take
<1>2. ASSUME NEW s \in Skills, BeginSkill(p, s) PROVE IInv'
  <2> DEFINE c == [NoCall EXCEPT !.stage = "skills", !.skills = <<s>>]
  <2>1. <<s>> \in Seq(Skills)
    OBVIOUS
  <2>2. c \in CallRecords /\ c.stage = "skills" /\ c.changed = FALSE
    BY <2>1, NoCallTyped DEF NoCall, CallRecords, Stages, InstallStages
  <2>3. Take(p, c)
    BY <1>2 DEF BeginSkill
  <2> HIDE DEF c
  <2>4. QED BY <2>2, <2>3, StartKeeps DEF Take
<1>3. ASSUME BeginRun(p) PROVE IInv'
  <2> DEFINE c == [NoCall EXCEPT !.stage = "running"]
  <2>1. c \in CallRecords /\ c.stage = "running" /\ c.changed = FALSE
    BY NoCallTyped DEF NoCall, CallRecords, Stages, RunStages
  <2>2. Start(p, c) /\ UNCHANGED <<store, holder, books, sealed, ended, earned, interrupts>>
    BY <1>3 DEF BeginRun
  <2> HIDE DEF c
  <2>3. QED BY <2>1, <2>2, StartKeeps
<1>4. QED BY <1>1, <1>2, <1>3

LEMMA InstallSkillKeeps ==
  ASSUME IInv, NEW p \in Procs, InstallSkill(p)
  PROVE  IInv'
<1>1. Busy(p)
  BY DEF Busy, InstallSkill
<1>2. Typed /\ TypeOK /\ CallInv(p) /\ call[p] \in CallRecords
  BY <1>1, BusyFacts
<1>3. /\ UNCHANGED <<offered, holder, calls, records, bills, usage, sealed, ended, interrupts>>
      /\ installed' \in [Skills -> 0..MaxVersion]
  <2>1. Head(call[p].skills) \in Skills
    BY <1>2 DEF CallRecords, InstallSkill
  <2>2. offered[Head(call[p].skills)] \in 0..MaxVersion
    BY <1>2, <2>1, CommerceAssumption DEF TypeOK, CommerceAssumption
  <2>3. QED BY <1>2, <2>2 DEF TypeOK, InstallSkill, books
<1>4. /\ call' \in [Procs -> CallRecords] /\ Others(p)
      /\ call'[p].id = call[p].id /\ call'[p].pack = call[p].pack
      /\ call'[p].stage \in {"skills", "record"} /\ call[p].stage = "skills"
      /\ call[p].changed => call'[p].changed
      /\ earned' = earned \/ (earned' = earned \cup {call[p].id} /\ call'[p].changed /\ call[p].pack # "no_pack")
      /\ call'[p].changed /\ ~call[p].changed /\ call[p].pack # "no_pack" => call[p].id \in earned'
  BY <1>2, InstallSkillFacts
<1>5. Busy(p)'
  BY <1>4 DEF Busy
<1>6. call[p].changed /\ call[p].pack # "no_pack" => call[p].id \in earned
  BY <1>2, <1>4 DEF CallInv
<1>7. call[p].id \in earned => call[p].changed /\ call[p].pack # "no_pack"
  BY <1>2, <1>4 DEF CallInv
<1>8. call'[p].changed /\ call'[p].pack # "no_pack" => call'[p].id \in earned'
  BY <1>4, <1>6
<1>9. call'[p].id \in earned' => call'[p].changed /\ call'[p].pack # "no_pack"
  BY <1>4, <1>7
<1>10. CallInv(p)'
  BY <1>2, <1>3, <1>4, <1>8, <1>9 DEF CallInv, Busy, InstallStages
<1>11. QED BY <1>1, <1>3, <1>4, <1>5, <1>10, MoveKeeps

\* What an install records of itself.
LEMMA StatusFacts ==
  ASSUME IInv, NEW p \in Procs, call[p].stage = "record"
  PROVE  /\ InstallStatus(p) \in {"installed", "already_installed"}
         /\ call[p].id \in earned => call[p].pack # "no_pack" /\ InstallStatus(p) = "installed"
         /\ InstallStatus(p) = "installed" /\ call[p].pack # "no_pack" => call[p].id \in earned
<1>1. Busy(p)
  BY DEF Busy
<1>2. CallInv(p)
  BY <1>1, BusyFacts
<1>3. QED BY <1>2 DEF CallInv, InstallStatus

LEMMA RecordKeeps ==
  ASSUME IInv, NEW p \in Procs, Record(p)
  PROVE  IInv'
<1>1. Busy(p) /\ call[p].stage = "record"
  BY DEF Busy, Record
<1>2. Typed /\ TypeOK /\ CallInv(p) /\ call[p] \in CallRecords /\ call[p].pack \in Packs \cup {"no_pack"}
  BY <1>1, BusyFacts DEF CallRecords
<1>3. UNCHANGED <<offered, installed, calls, bills, usage, sealed, earned, interrupts>>
  BY DEF Record, store
<1> DEFINE record == [id |-> call[p].id, pack |-> call[p].pack, status |-> InstallStatus(p)]
<1>4. records' = records \/ records' = records \cup {record}
  BY DEF Record
<1>5. CASE call[p].pack # "no_pack" /\ InstallStatus(p) = "installed" /\ Meters # {}
  <2>1. call' = [call EXCEPT ![p].stage = "bill", ![p].meters = Meters] /\ UNCHANGED <<ended, holder>>
    BY <1>5 DEF Record
  <2>2. /\ call' \in [Procs -> CallRecords] /\ Others(p) /\ call'[p].stage = "bill" /\ call'[p].meters = Meters
        /\ call'[p].id = call[p].id /\ call'[p].pack = call[p].pack
    <3>1. "bill" \in Stages /\ Meters \subseteq Meters
      BY DEF Stages, InstallStages
    <3>2. call'[p].meters = Meters
      <4> DEFINE r == [call[p] EXCEPT !.stage = "bill", !.meters = Meters]
      <4>1. call' = [call EXCEPT ![p] = r]
        BY <2>1
      <4>2. r.meters = Meters
        BY <1>2 DEF CallRecords
      <4> HIDE DEF r
      <4>3. QED BY <1>2, <4>1, <4>2 DEF Typed
    <3>3. call' \in [Procs -> CallRecords] /\ Others(p) /\ call'[p].stage = "bill"
      BY <1>2, <2>1, <3>1, MoveFacts, Zenon
    <3>4. call'[p].id = call[p].id /\ call'[p].pack = call[p].pack
      BY <1>2, <2>1, <3>1, MoveFacts, Zenon
    <3>5. QED BY <3>2, <3>3, <3>4
  <2>3. call[p].id \in earned
    BY <1>1, <1>5, StatusFacts
  <2>4. \A r \in records' : r.status = "already_installed" => r.id # call[p].id
    BY <1>1, <1>2, <1>4, <1>5 DEF CallInv
  <2>5. CallInv(p)'
    BY <1>1, <1>2, <1>3, <2>1, <2>2, <2>3, <2>4 DEF CallInv, Busy, InstallStages
  <2>6. Busy(p)' /\ installed' \in [Skills -> 0..MaxVersion]
    BY <1>2, <1>3, <2>2 DEF Busy, TypeOK
  <2>7. records' = records \/ \E k \in Packs \cup {"no_pack"} :
          records' = records \cup {[id |-> call[p].id, pack |-> k, status |-> "installed"]}
    BY <1>2, <1>4, <1>5
  <2>8. QED BY <1>1, <1>3, <2>1, <2>2, <2>5, <2>6, <2>7, MoveKeeps
<1>6. CASE ~(call[p].pack # "no_pack" /\ InstallStatus(p) = "installed" /\ Meters # {})
  <2>1. End(p, "ok")
    BY <1>6 DEF Record
  <2>2. call[p].id \in earned => Meters = {}
    BY <1>1, <1>6, StatusFacts
  <2>3. interrupts' \in 0..MaxInterrupts /\ sealed' \subseteq Ledgers
    BY <1>2, <1>3 DEF TypeOK
  <2>4. QED BY <1>1, <1>3, <1>4, <2>1, <2>2, <2>3, EndKeeps DEF store
<1>7. QED BY <1>5, <1>6

LEMMA BillKeeps ==
  ASSUME IInv, NEW p \in Procs, BillPack(p) \/ SignUsage(p)
  PROVE  IInv'
<1>1. Busy(p) /\ call[p].stage \in {"bill", "sign"} /\ BillNext(p)
      /\ UNCHANGED <<offered, installed, calls, records, usage, sealed, earned, interrupts>>
  BY DEF Busy, BillPack, SignUsage, store
<1>2. Typed /\ TypeOK /\ CallInv(p) /\ call[p] \in CallRecords /\ call[p].meters \subseteq Meters /\ call[p].id # 0
      /\ call[p].id \in earned
  BY <1>1, BusyFacts DEF CallRecords, CallInv
<1>3. PICK meter \in call[p].meters :
        /\ bills' = bills \cup {[id |-> call[p].id, meter |-> meter]}
        /\ \/ call[p].meters = {meter} /\ End(p, "ok")
           \/ /\ call' \in [Procs -> CallRecords] /\ Others(p) /\ call'[p].stage = call[p].stage
              /\ call'[p].id = call[p].id /\ call'[p].pack = call[p].pack /\ call'[p].changed = call[p].changed
              /\ call'[p].meters = call[p].meters \ {meter} /\ UNCHANGED <<ended, holder>>
  BY <1>1, <1>2, BillNextFacts
<1>4. meter \in Meters /\ \A m \in Meters \ (call[p].meters \ {meter}) : [id |-> call[p].id, meter |-> m] \in bills'
  BY <1>1, <1>2, <1>3 DEF CallInv
<1>5. interrupts' \in 0..MaxInterrupts /\ sealed' \subseteq Ledgers /\ installed' \in [Skills -> 0..MaxVersion]
  BY <1>1, <1>2 DEF TypeOK
<1>6. CASE call[p].meters = {meter} /\ End(p, "ok")
  <2>1. \A m \in Meters : [id |-> call[p].id, meter |-> m] \in bills'
    BY <1>4, <1>6
  <2>2. QED BY <1>1, <1>2, <1>3, <1>4, <1>5, <1>6, <2>1, EndKeeps DEF store
<1>7. CASE /\ call' \in [Procs -> CallRecords] /\ Others(p) /\ call'[p].stage = call[p].stage
           /\ call'[p].id = call[p].id /\ call'[p].pack = call[p].pack /\ call'[p].changed = call[p].changed
           /\ call'[p].meters = call[p].meters \ {meter} /\ UNCHANGED <<ended, holder>>
  <2>1. CallInv(p)' /\ Busy(p)'
    BY <1>1, <1>2, <1>4, <1>7 DEF CallInv, Busy, InstallStages
  <2>2. QED BY <1>1, <1>2, <1>3, <1>4, <1>5, <1>7, <2>1, MoveKeeps
<1>8. QED BY <1>3, <1>6, <1>7

LEMMA RunKeeps ==
  ASSUME IInv, NEW p \in Procs, RunFails(p) \/ RunSucceeds(p)
  PROVE  IInv'
<1>1. Busy(p) /\ call[p].stage = "running"
      /\ UNCHANGED <<offered, installed, calls, records, bills, usage, sealed, interrupts>>
  BY DEF Busy, RunFails, RunSucceeds, store, books
<1>2. Typed /\ TypeOK /\ CallInv(p) /\ call[p] \in CallRecords
  BY <1>1, BusyFacts
<1>3. interrupts' \in 0..MaxInterrupts /\ sealed' \subseteq Ledgers /\ installed' \in [Skills -> 0..MaxVersion]
  BY <1>1, <1>2 DEF TypeOK
<1>4. CASE RunFails(p)
  BY <1>1, <1>3, <1>4, EndKeeps DEF RunFails, store
<1>5. CASE RunSucceeds(p)
  <2>1. earned' = earned \cup {call[p].id}
    BY <1>5 DEF RunSucceeds
  <2>2. CASE Meters = {}
    BY <1>1, <1>3, <1>5, <2>1, <2>2, EndKeeps DEF RunSucceeds, store
  <2>3. CASE Meters # {}
    <3>1. call' = [call EXCEPT ![p].stage = "report", ![p].meters = Meters] /\ UNCHANGED <<ended, holder>>
      BY <1>5, <2>3 DEF RunSucceeds
    <3>2. /\ call' \in [Procs -> CallRecords] /\ Others(p) /\ call'[p].stage = "report" /\ call'[p].id = call[p].id
      <4>1. "report" \in Stages /\ Meters \subseteq Meters
        BY DEF Stages, RunStages
      <4>2. QED BY <1>2, <3>1, <4>1, MoveFacts, Zenon
    <3>3. CallInv(p)' /\ Busy(p)'
      BY <1>1, <1>2, <2>1, <3>1, <3>2 DEF CallInv, Busy, InstallStages
    <3>4. QED BY <1>1, <1>3, <2>1, <3>1, <3>2, <3>3, MoveKeeps
  <2>4. QED BY <2>2, <2>3
<1>6. QED BY <1>4, <1>5

LEMMA ReportKeeps ==
  ASSUME IInv, NEW p \in Procs, NEW meter \in Meters, Report(p, meter)
  PROVE  IInv'
<1>1. Busy(p) /\ call[p].stage = "report"
      /\ UNCHANGED <<offered, installed, holder, calls, records, bills, sealed, ended, earned, interrupts>>
  BY DEF Busy, Report, store
<1>2. Typed /\ TypeOK /\ CallInv(p) /\ call[p] \in CallRecords /\ call[p].meters \subseteq Meters /\ call[p].id \in earned
  BY <1>1, BusyFacts DEF CallRecords, CallInv
<1> DEFINE left == IF call[p].meters = {meter} THEN Meters ELSE call[p].meters \ {meter}
           next == IF call[p].meters = {meter} THEN "lock" ELSE "report"
<1>3. call' = [call EXCEPT ![p].stage = next, ![p].meters = left]
  BY DEF Report
<1>4. next \in Stages /\ left \subseteq Meters /\ next \in {"lock", "report"} /\ (next = "lock" => left = Meters)
  BY <1>2 DEF Stages, RunStages
<1> HIDE DEF left, next
<1>5. /\ call' \in [Procs -> CallRecords] /\ Others(p) /\ call'[p].stage = next /\ call'[p].meters = left
      /\ call'[p].id = call[p].id
  <2>1. call'[p].meters = left
    <3> DEFINE r == [call[p] EXCEPT !.stage = next, !.meters = left]
    <3>1. call' = [call EXCEPT ![p] = r]
      BY <1>3
    <3>2. r.meters = left
      BY <1>2 DEF CallRecords
    <3> HIDE DEF r
    <3>3. QED BY <1>2, <3>1, <3>2 DEF Typed
  <2>2. call' \in [Procs -> CallRecords] /\ Others(p) /\ call'[p].stage = next
    BY <1>2, <1>3, <1>4, MoveFacts, Zenon
  <2>3. call'[p].id = call[p].id
    BY <1>2, <1>3, <1>4, MoveFacts, Zenon
  <2>4. QED BY <2>1, <2>2, <2>3
<1>6. CallInv(p)' /\ Busy(p)'
  BY <1>1, <1>2, <1>4, <1>5 DEF CallInv, Busy, InstallStages
<1>7. usage' = usage \/ usage' = usage \cup {[id |-> call[p].id, meter |-> meter]}
  BY DEF Report
<1>8. installed' \in [Skills -> 0..MaxVersion]
  BY <1>1, <1>2 DEF TypeOK
<1>9. QED BY <1>1, <1>2, <1>5, <1>6, <1>7, <1>8, MoveKeeps

LEMMA LockKeeps ==
  ASSUME IInv, NEW p \in Procs, LockForBilling(p) \/ BillingLockBusy(p) \/ UsageRefused(p)
  PROVE  IInv'
<1>1. Busy(p) /\ call[p].stage \in {"lock", "sign"}
      /\ UNCHANGED <<offered, installed, calls, records, bills, usage, sealed, earned, interrupts>>
  BY DEF Busy, LockForBilling, BillingLockBusy, UsageRefused, store, books
<1>2. Typed /\ TypeOK /\ CallInv(p) /\ call[p] \in CallRecords /\ call[p].meters \subseteq Meters
  BY <1>1, BusyFacts DEF CallRecords
<1>3. interrupts' \in 0..MaxInterrupts /\ sealed' \subseteq Ledgers /\ installed' \in [Skills -> 0..MaxVersion]
  BY <1>1, <1>2 DEF TypeOK
<1>4. CASE BillingLockBusy(p) \/ UsageRefused(p)
  <2>1. End(p, "error")
    BY <1>4 DEF BillingLockBusy, UsageRefused
  <2>2. QED BY <1>1, <1>3, <2>1, EndKeeps DEF store
<1>5. CASE LockForBilling(p)
  <2>1. /\ call' = [call EXCEPT ![p].stage = "sign"] /\ holder = "free" /\ holder' = p /\ UNCHANGED ended
        /\ call[p].stage = "lock"
    BY <1>5 DEF LockForBilling
  <2>2. call' = [call EXCEPT ![p].stage = "sign", ![p].meters = call[p].meters]
    <3> DEFINE r == [call[p] EXCEPT !.stage = "sign"]
               w == [call[p] EXCEPT !.stage = "sign", !.meters = call[p].meters]
    <3>1. r = w
      BY <1>2 DEF CallRecords
    <3>2. QED BY <2>1, <3>1
  <2>3. /\ call' \in [Procs -> CallRecords] /\ Others(p) /\ call'[p].stage = "sign"
        /\ call'[p].meters = call[p].meters /\ call'[p].id = call[p].id
    <3>1. "sign" \in Stages /\ call[p].meters \subseteq Meters
      BY <1>2 DEF Stages, RunStages
    <3>2. call'[p].meters = call[p].meters
      <4> DEFINE r == [call[p] EXCEPT !.stage = "sign", !.meters = call[p].meters]
      <4>1. call' = [call EXCEPT ![p] = r]
        BY <2>2
      <4>2. r.meters = call[p].meters
        BY <1>2 DEF CallRecords
      <4> HIDE DEF r
      <4>3. QED BY <1>2, <4>1, <4>2 DEF Typed
    <3>3. call' \in [Procs -> CallRecords] /\ Others(p) /\ call'[p].stage = "sign"
      BY <1>2, <2>2, <3>1, MoveFacts, Zenon
    <3>4. call'[p].id = call[p].id
      BY <1>2, <2>2, <3>1, MoveFacts, Zenon
    <3>5. QED BY <3>2, <3>3, <3>4
  <2>4. CallInv(p)' /\ Busy(p)'
    BY <1>1, <1>2, <2>1, <2>3 DEF CallInv, Busy, InstallStages
  <2>5. QED BY <1>1, <1>3, <2>1, <2>3, <2>4, MoveKeeps
<1>6. QED BY <1>4, <1>5

LEMMA InterruptKeeps ==
  ASSUME IInv, NEW p \in Procs, Interrupt(p)
  PROVE  IInv'
<1>1. Busy(p) /\ End(p, "error") /\ UNCHANGED <<offered, installed, calls, usage, earned>>
  BY DEF Busy, Interrupt, store
<1>2. Typed /\ TypeOK /\ CallInv(p) /\ call[p] \in CallRecords /\ call[p].meters \subseteq Meters
  BY <1>1, BusyFacts DEF CallRecords
<1>3. interrupts' \in 0..MaxInterrupts
  BY <1>2, CommerceAssumption DEF Interrupt, TypeOK, CommerceAssumption
<1>4. sealed' \subseteq Ledgers /\ (sealed' # sealed => holder = p)
  BY <1>2 DEF Interrupt, TypeOK, CallInv, InstallStages, Ledgers
<1>5. bills' = bills \/ (call[p].id \in earned /\ \E meter \in Meters : bills' = bills \cup {[id |-> call[p].id, meter |-> meter]})
  BY <1>2 DEF Interrupt, CallInv
<1>6. \/ records' = records
      \/ /\ call[p].stage = "record" /\ bills' = bills
         /\ records' = records \cup {[id |-> call[p].id, pack |-> call[p].pack, status |-> InstallStatus(p)]}
  BY DEF Interrupt
<1>7. QED BY <1>1, <1>3, <1>4, <1>5, <1>6, EndKeeps DEF store

-----------------------------------------------------------------------------
(* The theorems.                                                            *)

LEMMA InitHolds == Init => IInv
<1> SUFFICES ASSUME Init PROVE IInv
  OBVIOUS
<1>2. /\ call = [p \in Procs |-> NoCall] /\ call \in [Procs -> CallRecords]
      /\ \A p \in Procs : call[p].stage = "idle"
  <2>1. call = [p \in Procs |-> NoCall]
    BY DEF Init
  <2>2. QED BY <2>1, NoCallTyped
<1>3. 0 \in 0..MaxCalls /\ 0 \in 0..MaxInterrupts /\ 0 \in 0..MaxVersion
  BY CommerceAssumption DEF CommerceAssumption
<1>4. TypeOK
  <2>1. \A p \in Procs : /\ call[p].stage \in Stages /\ call[p].id \in 0..MaxCalls
                         /\ call[p].pack \in Packs \cup {"no_pack"} /\ call[p].meters \subseteq Meters
    BY <1>2 DEF CallRecords
  <2>2. offered \in [Skills -> 1..MaxVersion]
    <3>1. 1 \in 1..MaxVersion
      BY CommerceAssumption DEF CommerceAssumption
    <3>2. offered = [s \in Skills |-> 1]
      BY DEF Init
    <3>3. QED BY <3>1, <3>2
  <2>3. QED BY <1>3, <2>1, <2>2 DEF Init, TypeOK, Stages
<1>5. QED BY <1>2, <1>4 DEF Init, IInv, Typed, CallInv, DistinctIds, BooksInv, Busy, InstallStages

LEMMA StepHolds == IInv /\ [Next]_vars => IInv'
<1>1. SUFFICES ASSUME IInv, [Next]_vars PROVE IInv'
  OBVIOUS
<1>2. CASE UNCHANGED vars
  BY <1>1, <1>2 DEF vars, IInv, Typed, TypeOK, CallInv, DistinctIds, BooksInv, Busy
<1>3. CASE (\E s \in Skills, v \in 1..MaxVersion : Publish(s, v)) \/ (\E s \in Skills, v \in 0..MaxVersion : OtherCommand(s, v))
  BY <1>1, <1>3, OthersKeepStore
<1>4. ASSUME NEW p \in Procs,
             \/ \E k \in Packs : BeginPack(p, k)
             \/ \E s \in Skills : BeginSkill(p, s)
             \/ InstallSkill(p) \/ Record(p) \/ BillPack(p)
             \/ BeginRun(p) \/ RunFails(p) \/ RunSucceeds(p)
             \/ \E meter \in Meters : Report(p, meter)
             \/ LockForBilling(p) \/ BillingLockBusy(p) \/ SignUsage(p) \/ UsageRefused(p)
             \/ Interrupt(p)
      PROVE  IInv'
  BY <1>1, <1>4, BeginKeeps, InstallSkillKeeps, RecordKeeps, BillKeeps, RunKeeps, ReportKeeps, LockKeeps, InterruptKeeps
<1>5. QED BY <1>1, <1>2, <1>3, <1>4 DEF Next

LEMMA Invariance == Spec => []IInv
BY InitHolds, StepHolds, PTL DEF Spec

\* The variables keep their types.  A call at work has a number, so that what it
\* records and bills is a record of a call that was begun.
THEOREM TypeCorrect == Spec => []TypeOK
<1>1. IInv => TypeOK
  BY DEF IInv, Typed
<1>2. QED BY Invariance, <1>1, PTL

\* Nothing is billed or reported for a pack that was found as it was or a run that
\* did not succeed, however many commands work at once and whatever interrupts
\* them (installCapabilityPack, RunSkillWithOptions).
THEOREM Earned == Spec => []BilledWhenEarned
<1>1. IInv => BilledWhenEarned
  BY DEF IInv, BooksInv, CallInv, BilledWhenEarned
<1>2. QED BY Invariance, <1>1, PTL

\* A call that reports success has billed every meter for what it did
\* (billingRecordsForPackInstall, recordRunUsage).
THEOREM Billed == Spec => []SuccessIsBilled
<1>1. IInv => SuccessIsBilled
  BY DEF IInv, BooksInv, SuccessIsBilled
<1>2. QED BY Invariance, <1>1, PTL

\* ensureCommerceLedgersAppendable is asked once, at the start: the lock held to
\* the last step of the install makes the answer last.
THEOREM Gate == Spec => GateHoldsThroughout
<1>1. IInv /\ [Next]_vars => [holder # "free" /\ installed' # installed => sealed = {}]_vars
  <2>1. SUFFICES ASSUME IInv, [Next]_vars, holder # "free", installed' # installed PROVE sealed = {}
    OBVIOUS
  <2>2. PICK p \in Procs : InstallSkill(p)
    BY <2>1 DEF Next, vars, store, Publish, OtherCommand, BeginPack, BeginSkill, Take, Record, BillPack, BeginRun,
         RunFails, RunSucceeds, Report, LockForBilling, BillingLockBusy, SignUsage, UsageRefused, Interrupt
  <2>3. QED BY <2>1, <2>2 DEF InstallSkill, IInv, CallInv
<1>2. QED BY Invariance, <1>1, PTL DEF Spec, GateHoldsThroughout

-----------------------------------------------------------------------------
(* A client that repeats an install (CommerceServer).                       *)

\* The handlers take steps of Commerce.
LEMMA ServerStepsAreSteps == [ServerNext]_serverVars => [Next]_vars
BY CommerceServerAssumption DEF CommerceServerAssumption, ServerNext, serverVars, Post, Meanwhile, Next

LEMMA ServerInvariance == ServerSpec => []IInv
<1>1. ServerInit => IInv
  BY InitHolds DEF ServerInit
<1>2. QED BY <1>1, StepHolds, ServerStepsAreSteps, PTL DEF ServerSpec

OneOf(s, skills) == \E n \in 1..Len(skills) : skills[n] = s

\* Every skill of the pack is the one the registry offers: another install of the
\* pack would find it as it is.
Settled == \A s \in Skills : OneOf(s, PackSkills[Wanted]) => installed[s] = offered[s]

\* What a call of the client may rely on while nobody disturbs the pack: the skills it
\* has been through are settled, and once it has moved one, it is the only of the
\* client's calls that has billed or will.
AskedCall(p) ==
  Busy(p) /\ call[p].id \in asked =>
    /\ call[p].stage \in InstallStages
    /\ call[p].stage = "skills" =>
         \A s \in Skills :
           /\ OneOf(s, call[p].skills) => OneOf(s, PackSkills[Wanted])
           /\ OneOf(s, PackSkills[Wanted]) => installed[s] = offered[s] \/ OneOf(s, call[p].skills)
    /\ call[p].stage \in {"record", "bill"} => Settled
    /\ call[p].changed \/ call[p].stage = "bill" => \A b \in bills : b.id \in asked => b.id = call[p].id

AskedBills ==
  /\ \A b \in bills : b.id \in asked => Settled
  /\ \A b, c \in bills : b.id \in asked /\ c.id \in asked => b.id = c.id

RetryInv ==
  /\ asked \subseteq 1..calls
  /\ ~disturbed => (\A p \in Procs : AskedCall(p)) /\ AskedBills

\* While p takes a step, the client's other calls wait: a call in its install holds the
\* lock, so that p has neither a skill to move nor a meter to bill.
LEMMA OthersWait ==
  ASSUME IInv, RetryInv, ~disturbed, NEW p \in Procs, Others(p), UNCHANGED offered,
         (UNCHANGED <<installed, bills>>) \/ holder = p,
         asked' = asked \/ asked' = asked \cup {calls + 1}
  PROVE  \A q \in Procs \ {p} : AskedCall(q)'
<1> SUFFICES ASSUME NEW q \in Procs \ {p}, Busy(q), call[q].id \in asked' PROVE AskedCall(q)'
  BY DEF Others, AskedCall, Busy
<1>1. call'[q] = call[q] /\ AskedCall(q) /\ call[q].id \in 1..calls /\ calls \in Nat
  BY BusyFacts DEF Others, RetryInv, TypeOK
<1>2. call[q].id \in asked
  BY <1>1
<1>3. holder = q
  BY <1>1, <1>2, BusyFacts DEF AskedCall, CallInv
<1>4. UNCHANGED <<installed, bills, offered>>
  BY <1>3
<1>5. \A b \in bills : b.id \in 1..calls
  BY DEF IInv, BooksInv
<1>6. \A b \in bills : b.id \in asked' => b.id \in asked
  BY <1>1, <1>5
<1>7. QED BY <1>1, <1>2, <1>4, <1>6 DEF AskedCall, Busy, Settled

\* A step that neither bills nor moves a skill.
LEMMA BillsStay ==
  ASSUME IInv, RetryInv, ~disturbed, UNCHANGED <<offered, installed, bills>>,
         asked' = asked \/ asked' = asked \cup {calls + 1}
  PROVE  AskedBills'
<1>1. \A b \in bills : b.id \in 1..calls
  BY DEF IInv, BooksInv
<1>2. calls \in Nat
  BY DEF IInv, Typed, TypeOK
<1>3. \A b \in bills : b.id \in asked' => b.id \in asked
  BY <1>1, <1>2
<1>4. QED BY <1>3 DEF RetryInv, AskedBills, Settled

\* The end of a call is the end of what it relied on.
LEMMA EndedRelies == ASSUME NEW p \in Procs, call'[p].stage = "idle" PROVE AskedCall(p)'
BY DEF AskedCall, Busy

LEMMA MeanwhileFacts == Meanwhile => asked' = asked /\ (~disturbed' => ~disturbed)
BY Zenon DEF Meanwhile

\* The other commands disturb, or come before the client's first call.
LEMMA StoreKeepsRetry ==
  ASSUME IInv, RetryInv, Meanwhile,
         (\E s \in Skills, v \in 1..MaxVersion : Publish(s, v)) \/ (\E s \in Skills, v \in 0..MaxVersion : OtherCommand(s, v))
  PROVE  RetryInv'
<1>1. offered' # offered \/ (holder = "free" /\ installed' # installed)
  BY DEF IInv, Typed, TypeOK, Publish, OtherCommand
<1>2. asked' = asked /\ calls' = calls
  BY DEF Meanwhile, Publish, OtherCommand
<1>3. ~disturbed' => asked' = {}
  BY <1>1, <1>2 DEF Meanwhile
<1>4. QED BY <1>2, <1>3 DEF RetryInv, AskedCall, AskedBills

\* The request itself: a call that has moved nothing yet and has every skill before it.
LEMMA PostKeeps ==
  ASSUME IInv, RetryInv, NEW p \in Procs, Post(p)
  PROVE  RetryInv'
<1> DEFINE c == [NoCall EXCEPT !.stage = "skills", !.pack = Wanted, !.skills = PackSkills[Wanted]]
<1>1. Take(p, c) /\ asked' = asked \cup {calls'} /\ disturbed' = disturbed
  BY DEF Post, BeginPack
<1>2. c \in CallRecords /\ c.stage = "skills" /\ c.changed = FALSE /\ c.skills = PackSkills[Wanted]
  <2>1. PackSkills[Wanted] \in Seq(Skills)
    BY CommerceAssumption, CommerceServerAssumption DEF CommerceAssumption, CommerceServerAssumption
  <2>2. QED BY <2>1, NoCallTyped, CommerceServerAssumption
           DEF NoCall, CallRecords, Stages, InstallStages, CommerceServerAssumption
<1> HIDE DEF c
<1>3. Start(p, c) /\ UNCHANGED <<offered, installed, bills>>
  BY <1>1 DEF Take, store, books
<1>4. /\ Others(p) /\ calls' = calls + 1 /\ calls \in Nat
      /\ call'[p].id = calls + 1 /\ call'[p].stage = "skills" /\ call'[p].changed = FALSE
      /\ call'[p].skills = PackSkills[Wanted]
  BY <1>2, <1>3, StartFacts DEF IInv, Typed, TypeOK
<1>5. asked' = asked \cup {calls + 1}
  BY <1>1, <1>4
<1>6. asked' \subseteq 1..calls'
  <2>1. calls + 1 \in 1..(calls + 1) /\ 1..calls \subseteq 1..(calls + 1)
    BY <1>4
  <2>2. asked \subseteq 1..calls
    BY DEF RetryInv
  <2>3. QED BY <1>4, <1>5, <2>1, <2>2
<1>7. AskedCall(p)'
  BY <1>4 DEF AskedCall, InstallStages
<1>8. ~disturbed' => (\A q \in Procs : AskedCall(q)') /\ AskedBills'
  BY <1>1, <1>3, <1>4, <1>5, <1>7, OthersWait, BillsStay
<1>9. QED BY <1>6, <1>8 DEF RetryInv

\* A call somebody else asks for has a number of its own.
LEMMA BeginKeepsRetry ==
  ASSUME IInv, RetryInv, Meanwhile, NEW p \in Procs,
         (\E k \in Packs : BeginPack(p, k)) \/ (\E s \in Skills : BeginSkill(p, s)) \/ BeginRun(p)
  PROVE  RetryInv'
<1>1. /\ UNCHANGED <<offered, installed, bills>> /\ calls' = calls + 1 /\ calls \in Nat
      /\ asked' = asked /\ (~disturbed' => ~disturbed)
  <2>1. UNCHANGED <<offered, installed, bills>> /\ calls' = calls + 1
    BY DEF BeginPack, BeginSkill, BeginRun, Take, Start, store, books
  <2>2. asked' = asked /\ (~disturbed' => ~disturbed)
    BY MeanwhileFacts
  <2>3. calls \in Nat
    BY DEF IInv, Typed, TypeOK
  <2>4. QED BY <2>1, <2>2, <2>3
<1>2. Others(p) /\ call'[p].id = calls + 1
  <2>1. PICK c : Start(p, c) /\ c \in CallRecords
    <3>1. ASSUME NEW k \in Packs, BeginPack(p, k) PROVE \E c : Start(p, c) /\ c \in CallRecords
      <4> DEFINE c == [NoCall EXCEPT !.stage = "skills", !.pack = k, !.skills = PackSkills[k]]
      <4>1. PackSkills[k] \in Seq(Skills)
        BY CommerceAssumption DEF CommerceAssumption
      <4>2. c \in CallRecords
        BY <4>1, NoCallTyped DEF NoCall, CallRecords, Stages, InstallStages
      <4>3. Start(p, c)
        BY <3>1 DEF BeginPack, Take
      <4> HIDE DEF c
      <4>4. QED BY <4>2, <4>3
    <3>2. ASSUME NEW s \in Skills, BeginSkill(p, s) PROVE \E c : Start(p, c) /\ c \in CallRecords
      <4> DEFINE c == [NoCall EXCEPT !.stage = "skills", !.skills = <<s>>]
      <4>1. <<s>> \in Seq(Skills)
        OBVIOUS
      <4>2. c \in CallRecords
        BY <4>1, NoCallTyped DEF NoCall, CallRecords, Stages, InstallStages
      <4>3. Start(p, c)
        BY <3>2 DEF BeginSkill, Take
      <4> HIDE DEF c
      <4>4. QED BY <4>2, <4>3
    <3>3. ASSUME BeginRun(p) PROVE \E c : Start(p, c) /\ c \in CallRecords
      <4> DEFINE c == [NoCall EXCEPT !.stage = "running"]
      <4>1. c \in CallRecords
        BY NoCallTyped DEF NoCall, CallRecords, Stages, RunStages
      <4>2. Start(p, c)
        BY <3>3 DEF BeginRun
      <4> HIDE DEF c
      <4>3. QED BY <4>1, <4>2
    <3>4. QED BY <3>1, <3>2, <3>3
  <2>2. QED BY <2>1, StartFacts DEF IInv
<1>3. AskedCall(p)'
  BY <1>1, <1>2 DEF RetryInv, AskedCall
<1>4. asked' \subseteq 1..calls'
  BY <1>1 DEF RetryInv
<1>5. QED BY <1>1, <1>2, <1>3, <1>4, OthersWait, BillsStay DEF RetryInv

\* An install settles the skill it takes; a call of the client moves one only while none
\* of them has billed.
LEMMA InstallKeepsRetry ==
  ASSUME IInv, RetryInv, Meanwhile, NEW p \in Procs, InstallSkill(p)
  PROVE  RetryInv'
<1> DEFINE taken == Head(call[p].skills)
<1>1. /\ Busy(p) /\ call[p].stage = "skills" /\ call[p].skills # <<>> /\ UNCHANGED <<offered, calls, bills>>
      /\ installed' = [installed EXCEPT ![taken] = offered[taken]]
      /\ asked' = asked /\ (~disturbed' => ~disturbed)
  BY DEF Meanwhile, InstallSkill, books, Busy
<1>2. /\ Typed /\ TypeOK /\ holder = p /\ call[p].skills \in Seq(Skills) /\ taken \in Skills
  BY <1>1, BusyFacts DEF CallInv, CallRecords, InstallStages
<1>3. \A s \in Skills : installed'[s] = IF s = taken THEN offered[s] ELSE installed[s]
  BY <1>1, <1>2 DEF TypeOK
<1>4. /\ Others(p) /\ call'[p].id = call[p].id
      /\ call'[p].skills = Tail(call[p].skills)
      /\ call'[p].stage = IF Len(call[p].skills) = 1 THEN "record" ELSE "skills"
      /\ call'[p].changed /\ ~call[p].changed => installed[taken] # offered[taken]
  BY <1>2, InstallSkillFacts
<1>5. \A s \in Skills : OneOf(s, call[p].skills) <=> s = taken \/ OneOf(s, Tail(call[p].skills))
  <2>1. /\ Len(call[p].skills) \in Nat \ {0} /\ Len(Tail(call[p].skills)) = Len(call[p].skills) - 1
        /\ taken = call[p].skills[1]
        /\ \A n \in 1..(Len(call[p].skills) - 1) : Tail(call[p].skills)[n] = call[p].skills[n + 1]
    BY <1>1, <1>2
  <2>2. ASSUME NEW s \in Skills, OneOf(s, call[p].skills) PROVE s = taken \/ OneOf(s, Tail(call[p].skills))
    <3>1. PICK n \in 1..Len(call[p].skills) : call[p].skills[n] = s
      BY <2>2 DEF OneOf
    <3>2. n = 1 \/ (n - 1 \in 1..(Len(call[p].skills) - 1) /\ (n - 1) + 1 = n)
      BY <2>1
    <3>3. QED BY <2>1, <3>1, <3>2 DEF OneOf
  <2>3. ASSUME NEW s \in Skills, OneOf(s, Tail(call[p].skills)) PROVE OneOf(s, call[p].skills)
    <3>1. PICK n \in 1..(Len(call[p].skills) - 1) : Tail(call[p].skills)[n] = s
      BY <2>1, <2>3 DEF OneOf
    <3>2. n + 1 \in 1..Len(call[p].skills)
      BY <2>1
    <3>3. QED BY <2>1, <3>1, <3>2 DEF OneOf
  <2>4. OneOf(taken, call[p].skills)
    <3>1. 1 \in 1..Len(call[p].skills)
      BY <2>1
    <3>2. QED BY <2>1, <3>1 DEF OneOf
  <2>5. QED BY <2>2, <2>3, <2>4
<1>6. Settled => Settled'
  BY <1>1, <1>3 DEF Settled
<1>7. ASSUME ~disturbed', call[p].id \in asked PROVE AskedCall(p)'
  <2>1. AskedCall(p) /\ AskedBills
    BY <1>1, <1>7 DEF RetryInv
  <2>2. \A s \in Skills :
          /\ OneOf(s, Tail(call[p].skills)) => OneOf(s, PackSkills[Wanted])
          /\ OneOf(s, PackSkills[Wanted]) => installed'[s] = offered[s] \/ OneOf(s, Tail(call[p].skills))
    BY <1>1, <1>3, <1>5, <1>7, <2>1 DEF AskedCall
  <2>3. OneOf(taken, PackSkills[Wanted])
    BY <1>1, <1>2, <1>5, <1>7, <2>1 DEF AskedCall
  <2>4. Len(call[p].skills) = 1 => Settled'
    <3>1. Len(call[p].skills) = 1 => Len(Tail(call[p].skills)) = 0
      BY <1>2
    <3>2. Len(call[p].skills) = 1 => \A s \in Skills : ~OneOf(s, Tail(call[p].skills))
      BY <3>1 DEF OneOf
    <3>3. QED BY <1>1, <2>2, <3>2 DEF Settled
  <2>5. call'[p].changed => \A b \in bills : b.id \in asked => b.id = call[p].id
    <3>1. CASE call[p].changed
      BY <1>1, <1>7, <2>1, <3>1 DEF AskedCall
    <3>2. CASE call'[p].changed /\ ~call[p].changed
      <4>1. ~Settled
        BY <1>2, <1>4, <2>3, <3>2 DEF Settled
      <4>2. QED BY <2>1, <4>1 DEF AskedBills
    <3>3. QED BY <3>1, <3>2
  <2>6. QED BY <1>1, <1>4, <2>2, <2>4, <2>5 DEF AskedCall, InstallStages
<1>8. call[p].id \notin asked => AskedCall(p)'
  BY <1>1, <1>4 DEF AskedCall
<1>9. ~disturbed' => AskedBills'
  BY <1>1, <1>6 DEF RetryInv, AskedBills
<1>10. ~disturbed' => \A q \in Procs : AskedCall(q)'
  BY <1>1, <1>2, <1>4, <1>7, <1>8, OthersWait
<1>11. QED BY <1>1, <1>9, <1>10 DEF RetryInv

\* After the skills a call of the client bills: all it moved is settled, and the other
\* calls of the client have billed nothing.
LEMMA RestKeepsRetry ==
  ASSUME IInv, RetryInv, Meanwhile, NEW p \in Procs, Busy(p), Others(p), UNCHANGED <<offered, installed, calls>>,
         \/ bills' = bills
         \/ /\ call[p].stage \in {"bill", "sign"}
            /\ \E meter \in Meters : bills' = bills \cup {[id |-> call[p].id, meter |-> meter]},
         \/ call'[p].stage = "idle"
         \/ /\ call'[p].id = call[p].id /\ call'[p].stage = "bill"
            /\ call[p].stage = "bill" \/ (call[p].stage = "record" /\ call[p].changed)
         \/ call'[p].id = call[p].id /\ call[p].stage \notin InstallStages
  PROVE  RetryInv'
<1>1. asked' = asked /\ (~disturbed' => ~disturbed)
  BY MeanwhileFacts
<1>2. Settled => Settled'
  BY DEF Settled
<1>3. bills' = bills \/ holder = p
  BY BusyFacts DEF CallInv, InstallStages
<1>4. ASSUME ~disturbed' PROVE AskedCall(p)' /\ AskedBills'
  <2>1. AskedCall(p) /\ AskedBills
    BY <1>1, <1>4 DEF RetryInv
  <2>2. CASE call[p].id \notin asked
    <3>1. \A b \in bills' : b.id \in asked => b \in bills
      BY <2>2
    <3>2. call'[p].stage = "idle" \/ call'[p].id = call[p].id
      OBVIOUS
    <3>3. QED BY <1>1, <1>2, <2>1, <2>2, <3>1, <3>2 DEF AskedCall, AskedBills, Busy
  <2>3. CASE call[p].id \in asked
    <3>1. call[p].stage \in InstallStages
      BY <2>1, <2>3 DEF AskedCall
    <3>2. call[p].stage = "bill" => Settled /\ \A b \in bills : b.id \in asked => b.id = call[p].id
      BY <2>1, <2>3 DEF AskedCall
    <3>3. bills' # bills => call[p].stage = "bill" /\ \E meter \in Meters : bills' = bills \cup {[id |-> call[p].id, meter |-> meter]}
      BY <3>1 DEF InstallStages
    <3>4. AskedBills'
      <4>1. CASE bills' = bills
        BY <1>1, <1>2, <2>1, <4>1 DEF AskedBills
      <4>2. CASE bills' # bills
        <5>1. Settled' /\ \A b \in bills' : b.id \in asked => b.id = call[p].id
          BY <1>2, <3>2, <3>3, <4>2
        <5>2. QED BY <1>1, <5>1 DEF AskedBills
      <4>3. QED BY <4>1, <4>2
    <3>5. CASE call'[p].stage = "idle"
      BY <3>4, <3>5, EndedRelies
    <3>6. CASE /\ call'[p].id = call[p].id /\ call'[p].stage = "bill"
               /\ call[p].stage = "bill" \/ (call[p].stage = "record" /\ call[p].changed)
      <4>1. Settled /\ \A b \in bills : b.id \in asked => b.id = call[p].id
        BY <2>1, <2>3, <3>6 DEF AskedCall
      <4>2. Settled' /\ \A b \in bills' : b.id \in asked => b.id = call[p].id
        BY <1>2, <3>3, <4>1
      <4>3. AskedCall(p)'
        BY <1>1, <3>6, <4>2 DEF AskedCall, InstallStages
      <4>4. QED BY <3>4, <4>3
    <3>7. QED BY <3>1, <3>5, <3>6
  <2>4. QED BY <2>2, <2>3
<1>5. ~disturbed' => \A q \in Procs : AskedCall(q)'
  BY <1>1, <1>3, <1>4, OthersWait
<1>6. asked' \subseteq 1..calls'
  BY <1>1 DEF RetryInv
<1>7. QED BY <1>4, <1>5, <1>6 DEF RetryInv

\* What End and a move to another stage make of the call.
LEMMA EndRests ==
  ASSUME Typed, NEW p \in Procs, NEW how, End(p, how)
  PROVE  Others(p) /\ call'[p].stage = "idle"
BY NoCallTyped DEF Typed, End, Others

LEMMA RecordKeepsRetry ==
  ASSUME IInv, RetryInv, Meanwhile, NEW p \in Procs, Record(p)
  PROVE  RetryInv'
<1>1. Busy(p) /\ call[p].stage = "record" /\ UNCHANGED <<offered, installed, calls, bills>>
  BY DEF Busy, Record, store
<1>2. Typed
  BY DEF IInv
<1>3. CASE InstallStatus(p) = "installed" /\ call' = [call EXCEPT ![p].stage = "bill", ![p].meters = Meters]
  <2>1. "bill" \in Stages /\ Meters \subseteq Meters
    BY DEF Stages, InstallStages
  <2>2. Others(p) /\ call'[p].stage = "bill"
    BY <1>2, <1>3, <2>1, MoveFacts, Zenon
  <2>3. call'[p].id = call[p].id
    BY <1>2, <1>3, <2>1, MoveFacts, Zenon
  <2>4. call[p].changed
    BY <1>3 DEF InstallStatus
  <2>5. QED BY <1>1, <2>2, <2>3, <2>4, RestKeepsRetry
<1>4. CASE End(p, "ok")
  BY <1>1, <1>2, <1>4, EndRests, RestKeepsRetry
<1>5. QED BY <1>3, <1>4 DEF Record

LEMMA BillKeepsRetry ==
  ASSUME IInv, RetryInv, Meanwhile, NEW p \in Procs, BillPack(p) \/ SignUsage(p)
  PROVE  RetryInv'
<1>1. Busy(p) /\ call[p].stage \in {"bill", "sign"} /\ BillNext(p) /\ UNCHANGED <<offered, installed, calls>>
  BY DEF Busy, BillPack, SignUsage, store
<1>2. Typed /\ call[p].id # 0 /\ call[p].meters \subseteq Meters
  BY <1>1, BusyFacts DEF CallRecords
<1>3. PICK meter \in call[p].meters :
        /\ bills' = bills \cup {[id |-> call[p].id, meter |-> meter]}
        /\ End(p, "ok") \/ (Others(p) /\ call'[p].stage = call[p].stage /\ call'[p].id = call[p].id)
  BY <1>1, <1>2, BillNextFacts
<1>4. Others(p) /\ (call'[p].stage = "idle" \/ (call'[p].stage = call[p].stage /\ call'[p].id = call[p].id))
  BY <1>2, <1>3, EndRests
<1>5. call[p].stage = "sign" => call[p].stage \notin InstallStages
  BY DEF InstallStages
<1>6. QED BY <1>1, <1>2, <1>3, <1>4, <1>5, RestKeepsRetry

\* No call of the client is a run: what a run does is none of its business.
LEMMA RunKeepsRetry ==
  ASSUME IInv, RetryInv, Meanwhile, NEW p \in Procs,
         \/ RunFails(p) \/ RunSucceeds(p) \/ (\E meter \in Meters : Report(p, meter))
         \/ LockForBilling(p) \/ BillingLockBusy(p) \/ UsageRefused(p)
  PROVE  RetryInv'
<1>1. Busy(p) /\ call[p].stage \in RunStages /\ UNCHANGED <<offered, installed, calls, bills>>
  BY DEF Busy, RunFails, RunSucceeds, Report, LockForBilling, BillingLockBusy, UsageRefused, store, books, RunStages
<1>2. Typed /\ call[p].meters \subseteq Meters /\ call[p].stage \notin InstallStages
  BY <1>1, BusyFacts DEF CallRecords, InstallStages, RunStages
<1>3. CASE \E how \in {"ok", "error"} : End(p, how)
  BY <1>1, <1>2, <1>3, EndRests, RestKeepsRetry
<1>4. CASE \E stage \in Stages, meters \in SUBSET Meters : call' = [call EXCEPT ![p].stage = stage, ![p].meters = meters]
  <2>1. PICK stage \in Stages, meters \in SUBSET Meters : call' = [call EXCEPT ![p].stage = stage, ![p].meters = meters]
    BY <1>4
  <2>2. Others(p)
    BY <1>2, <2>1, MoveFacts, Zenon
  <2>3. call'[p].id = call[p].id
    BY <1>2, <2>1, MoveFacts, Zenon
  <2>4. QED BY <1>1, <1>2, <2>2, <2>3, RestKeepsRetry
<1>5. CASE LockForBilling(p)
  <2> DEFINE r == [call[p] EXCEPT !.stage = "sign"]
  <2>1. call' = [call EXCEPT ![p] = r] /\ r.id = call[p].id
    BY <1>2, <1>5 DEF LockForBilling, Typed, CallRecords
  <2> HIDE DEF r
  <2>2. Others(p) /\ call'[p].id = call[p].id
    BY <1>2, <2>1 DEF Typed, Others
  <2>3. QED BY <1>1, <1>2, <2>2, RestKeepsRetry
<1>6. CASE RunFails(p) \/ BillingLockBusy(p) \/ UsageRefused(p)
  BY <1>3, <1>6 DEF RunFails, BillingLockBusy, UsageRefused
<1>7. CASE RunSucceeds(p)
  <2>1. "report" \in Stages /\ Meters \in SUBSET Meters
    BY DEF Stages, RunStages
  <2>2. End(p, "ok") \/ call' = [call EXCEPT ![p].stage = "report", ![p].meters = Meters]
    BY <1>7 DEF RunSucceeds
  <2>3. QED BY <1>3, <1>4, <2>1, <2>2
<1>8. ASSUME NEW meter \in Meters, Report(p, meter) PROVE RetryInv'
  <2> DEFINE left == IF call[p].meters = {meter} THEN Meters ELSE call[p].meters \ {meter}
             next == IF call[p].meters = {meter} THEN "lock" ELSE "report"
  <2>1. call' = [call EXCEPT ![p].stage = next, ![p].meters = left]
    BY <1>8 DEF Report
  <2>2. next \in Stages /\ left \in SUBSET Meters
    BY <1>2 DEF Stages, RunStages
  <2> HIDE DEF left, next
  <2>3. QED BY <1>4, <2>1, <2>2
<1>9. QED BY <1>5, <1>6, <1>7, <1>8

LEMMA InterruptKeepsRetry ==
  ASSUME IInv, RetryInv, Meanwhile, NEW p \in Procs, Interrupt(p)
  PROVE  RetryInv'
<1>1. Busy(p) /\ End(p, "error") /\ UNCHANGED <<offered, installed, calls>>
  BY DEF Busy, Interrupt, store
<1>2. Typed /\ call[p].meters \subseteq Meters
  BY <1>1, BusyFacts DEF CallRecords
<1>3. \/ bills' = bills
      \/ /\ call[p].stage \in {"bill", "sign"}
         /\ \E meter \in Meters : bills' = bills \cup {[id |-> call[p].id, meter |-> meter]}
  BY <1>2 DEF Interrupt
<1>4. QED BY <1>1, <1>2, <1>3, EndRests, RestKeepsRetry

LEMMA RetryStep == IInv /\ RetryInv /\ [ServerNext]_serverVars => RetryInv'
<1>1. SUFFICES ASSUME IInv, RetryInv, [ServerNext]_serverVars PROVE RetryInv'
  OBVIOUS
<1>2. CASE UNCHANGED serverVars
  BY <1>1, <1>2 DEF serverVars, vars, RetryInv, AskedCall, AskedBills, Settled, Busy
<1>3. CASE \E p \in Procs : Post(p)
  BY <1>1, <1>3, PostKeeps
<1>4. CASE Meanwhile
  <2>1. CASE (\E s \in Skills, v \in 1..MaxVersion : Publish(s, v)) \/ (\E s \in Skills, v \in 0..MaxVersion : OtherCommand(s, v))
    BY <1>1, <1>4, <2>1, StoreKeepsRetry
  <2>2. ASSUME NEW p \in Procs,
               \/ \E k \in Packs : BeginPack(p, k)
               \/ \E s \in Skills : BeginSkill(p, s)
               \/ InstallSkill(p) \/ Record(p) \/ BillPack(p)
               \/ BeginRun(p) \/ RunFails(p) \/ RunSucceeds(p)
               \/ \E meter \in Meters : Report(p, meter)
               \/ LockForBilling(p) \/ BillingLockBusy(p) \/ SignUsage(p) \/ UsageRefused(p)
               \/ Interrupt(p)
        PROVE  RetryInv'
    BY <1>1, <1>4, <2>2, BeginKeepsRetry, InstallKeepsRetry, RecordKeepsRetry, BillKeepsRetry, RunKeepsRetry,
       InterruptKeepsRetry
  <2>3. QED BY <1>4, <2>1, <2>2 DEF Meanwhile, Next
<1>5. QED BY <1>1, <1>2, <1>3, <1>4 DEF ServerNext

\* A client that repeats its install, at any time and however often, is billed once for
\* it: a call that finds every skill as the registry offers it bills nothing, and the
\* lock keeps two calls of the client from moving skills at once.
THEOREM BilledOnce == ServerSpec => []RetryBillsOnce
<1>1. ServerInit => RetryInv
  <2> SUFFICES ASSUME ServerInit PROVE RetryInv
    OBVIOUS
  <2>1. asked = {}
    BY DEF ServerInit
  <2>2. QED BY <2>1 DEF RetryInv, AskedCall, AskedBills
<1>2. IInv /\ RetryInv => RetryBillsOnce
  <2> SUFFICES ASSUME IInv, RetryInv, ~disturbed, NEW meter \in Meters
      PROVE  Cardinality({b \in bills : b.id \in asked /\ b.meter = meter}) <= 1
    BY DEF RetryBillsOnce
  <2> DEFINE mine == {b \in bills : b.id \in asked /\ b.meter = meter}
  <2>1. ASSUME NEW b \in mine, NEW c \in mine PROVE b = c
    <3>1. b \in Events /\ c \in Events
      BY DEF IInv, Typed, TypeOK
    <3>2. b.id = c.id
      BY DEF RetryInv, AskedBills
    <3>3. QED BY <3>1, <3>2 DEF Events
  <2> HIDE DEF mine
  <2>2. mine = {} \/ \E b : mine = {b}
    BY <2>1
  <2>3. Cardinality(mine) <= 1
    <3>1. CASE mine = {}
      BY <3>1, FS_EmptySet
    <3>2. CASE \E b : mine = {b}
      <4>1. PICK b : mine = {b}
        BY <3>2
      <4>2. Cardinality({b}) = 1
        BY FS_Singleton, Zenon
      <4>3. QED BY <4>1, <4>2
    <3>3. QED BY <2>2, <3>1, <3>2
  <2>4. QED BY <2>3 DEF mine
<1>3. QED BY <1>1, <1>2, RetryStep, ServerInvariance, PTL DEF ServerSpec
=============================================================================
