---------------------------- MODULE ProAuthProofs -----------------------------
(***************************************************************************)
(* Proofs about ProAuth, for any processes, logins and refreshes, and      *)
(* about Settings, for any keys, values, manifests and answers of the      *)
(* registry.  A token is issued once: while an answer of the server is on  *)
(* its way to the disk nobody else knows the token in it, so nobody can    *)
(* spend it.  A refreshed manifest is merged last, so nothing below it can *)
(* take a skill away or bring an older version of it back.                 *)
(***************************************************************************)
EXTENDS Settings, FiniteSetTheorems, WellFoundedInduction, TLAPS

\* The tokens somebody has: on disk, in a copy, or about to be saved.
Held(t) == t = file.token \/ \E p \in Process : t = mem[p].token \/ t = work[p].token

\* What a process is doing, as far as its place in the code tells.
OpInv ==
  \A p \in Process :
    /\ pc[p] = "exchange" => op[p] = "callback"
    /\ pc[p] = "refresh" => op[p] # "callback"
    /\ pc[p] = "save" /\ op[p] # "callback" => work[p].token.refreshes > 0

PendingInv ==
  /\ file.pending <= started
  /\ \A p \in Process : mem[p].pending <= started /\ work[p].pending <= started

\* A login has one live token, and no token anybody has is newer.
TokenInv ==
  /\ \A t \in live : codes[t.login] = "spent" /\ \A u \in live : u.login = t.login => u = t
  /\ \A t : Held(t) /\ t # NoToken => \E u \in live : u.login = t.login /\ t.refreshes <= u.refreshes

\* An answer of the server is known to the process that asked, and to nobody else.
FreshInv ==
  \A p \in Process :
    pc[p] = "save" =>
      /\ work[p].token \in live
      /\ file.token # work[p].token
      /\ \A q \in Process : mem[q].token # work[p].token /\ (q # p => work[q].token # work[p].token)

\* A copy that is not behind agrees with the file, up to what its owner has
\* learned from the server since.
CopyInv ==
  \A p \in Process :
    /\ pc[p] # "closed" /\ <<p, "mem">> \notin behind => mem[p] = file
    /\ <<p, "work">> \notin behind =>
         /\ pc[p] = "exchange" => work[p].pending = file.pending
         /\ pc[p] = "save" /\ op[p] = "callback" => work[p].token = FirstToken(file.pending)
         /\ pc[p] = "refresh" => work[p] = file
         /\ pc[p] = "save" /\ op[p] # "callback" =>
              work[p].token.login = file.token.login /\ work[p].pending = file.pending

IInv == TypeOK /\ OpInv /\ PendingInv /\ TokenInv /\ FreshInv /\ CopyInv /\ SessionSurvives

-----------------------------------------------------------------------------
(* Tokens and states.                                                       *)

LEMMA LoginFacts == MaxLogins \in Nat /\ MaxLogins > 0 /\ MaxRefreshes \in Nat /\ NoLogin \notin Logins
BY AuthAssumption DEF AuthAssumption, NoLogin, Logins

LEMMA TokenFacts ==
  /\ NoToken \notin Tokens /\ NoToken.login = 0 /\ NoToken.refreshes = 0
  /\ \A l \in Logins : FirstToken(l) \in Tokens /\ FirstToken(l).login = l /\ FirstToken(l).refreshes = 0
  /\ \A t \in Tokens : t.login \in Logins /\ t.refreshes \in 0..MaxRefreshes
BY LoginFacts DEF NoToken, Tokens, FirstToken, NoLogin

LEMMA NextFacts ==
  ASSUME NEW t \in Tokens, t.refreshes < MaxRefreshes
  PROVE  /\ NextToken(t) \in Tokens /\ NextToken(t).login = t.login /\ NextToken(t).refreshes = t.refreshes + 1
         /\ PreviousToken(NextToken(t)) = t
<1> DEFINE n == NextToken(t)
<1>1. n = [login |-> t.login, refreshes |-> t.refreshes + 1]
  BY DEF Tokens, NextToken
<1>2. n \in Tokens /\ n.login = t.login /\ n.refreshes = t.refreshes + 1
  BY <1>1, LoginFacts DEF Tokens
<1>3. PreviousToken(n) = [login |-> n.login, refreshes |-> n.refreshes - 1]
  BY <1>1 DEF PreviousToken
<1>4. n.refreshes - 1 = t.refreshes
  BY <1>2, LoginFacts DEF Tokens
<1>5. PreviousToken(n) = [login |-> t.login, refreshes |-> t.refreshes]
  BY <1>2, <1>3, <1>4
<1>6. t = [login |-> t.login, refreshes |-> t.refreshes]
  BY DEF Tokens
<1>7. QED BY <1>2, <1>5, <1>6

LEMMA PreviousFacts ==
  ASSUME NEW t \in Tokens, t.refreshes > 0
  PROVE  PreviousToken(t) \in Tokens
BY LoginFacts DEF Tokens, PreviousToken, Logins

LEMMA StateFacts ==
  /\ Empty \in AuthStates /\ Empty.token = NoToken /\ Empty.pending = 0
  /\ \A a \in AuthStates :
       /\ a.token \in Tokens \cup {NoToken} /\ a.pending \in Logins \cup {NoLogin}
       /\ a.token # NoToken => a.token \in Tokens
       /\ \A l \in Logins : LET b == [a EXCEPT !.pending = l] IN b \in AuthStates /\ b.token = a.token /\ b.pending = l
       /\ \A t \in Tokens : LET b == [a EXCEPT !.token = t] IN b \in AuthStates /\ b.token = t /\ b.pending = a.pending
  /\ \A t \in Tokens : LET b == [token |-> t, pending |-> NoLogin] IN b \in AuthStates /\ b.token = t /\ b.pending = 0
BY DEF AuthStates, Empty, NoLogin

\* Which copies are behind after p has written the file.
LEMMA WrittenFacts ==
  ASSUME NEW p \in Process, NEW fresh \in SUBSET {"mem", "work"}, behind' = Copies \ {<<p, copy>> : copy \in fresh}
  PROVE  /\ behind' \in SUBSET Copies
         /\ \A q \in Process, copy \in {"mem", "work"} : <<q, copy>> \notin behind' => q = p /\ copy \in fresh
BY DEF Copies

-----------------------------------------------------------------------------
(* What holds of every state, unpacked.                                     *)

LEMMA Unpacked ==
  ASSUME IInv
  PROVE  /\ file \in AuthStates /\ file.token \in Tokens \cup {NoToken} /\ file.pending \in Nat
         /\ started \in Nat
         /\ \A p \in Process :
              /\ mem[p] \in AuthStates /\ mem[p].token \in Tokens \cup {NoToken} /\ mem[p].pending \in Nat
              /\ work[p] \in AuthStates /\ work[p].token \in Tokens \cup {NoToken} /\ work[p].pending \in Nat
              /\ pc[p] = "save" => work[p].token \in Tokens /\ work[p].token \in live
              /\ pc[p] = "refresh" => work[p].token \in Tokens
              /\ pc[p] = "exchange" => work[p].pending \in Logins
<1>1. TypeOK /\ FreshInv
  BY DEF IInv
<1>2. \A n \in Logins \cup {NoLogin} : n \in Nat
  BY DEF Logins, NoLogin
<1>3. QED BY <1>1, <1>2, StateFacts DEF TypeOK, FreshInv

-----------------------------------------------------------------------------
(* Tokens change hands.                                                     *)

\* A step that issues no token leaves every login with the newest it had.
LEMMA TokensKept ==
  ASSUME IInv, UNCHANGED live, \A l \in Logins : codes[l] = "spent" => codes'[l] = "spent",
         \A t : Held(t)' => Held(t) \/ t = NoToken
  PROVE  TokenInv'
<1>1. \A t \in live : t.login \in Logins
  BY TokenFacts DEF IInv, TypeOK
<1>2. QED BY <1>1 DEF IInv, TokenInv

\* The session survives a step that leaves its token, and what is known of it, alone.
LEMMA SurvivesKept ==
  ASSUME IInv, UNCHANGED <<live, unsaved>>, file'.token = file.token, stale => stale',
         \A p \in Process : pc[p] = "save" => pc'[p] = "save" /\ op'[p] = op[p] /\ work'[p] = work[p]
  PROVE  SessionSurvives'
BY DEF IInv, SessionSurvives, BeingReplaced

-----------------------------------------------------------------------------
(* The actions.                                                             *)

LEMMA OpenKeeps ==
  ASSUME IInv, NEW p \in Process, Open(p)
  PROVE  IInv'
<1>1. /\ pc[p] = "closed" /\ pc' = [pc EXCEPT ![p] = "idle"] /\ mem' = [mem EXCEPT ![p] = file]
      /\ behind' = behind \ {<<p, "mem">>}
      /\ UNCHANGED <<file, work, op, started, codes, live, expired, stale, unsaved, lost>>
  BY DEF Open, GoTo
<1>2. TypeOK /\ OpInv /\ PendingInv /\ FreshInv /\ CopyInv
  BY DEF IInv
<1>3. TypeOK'
  BY <1>1, <1>2 DEF TypeOK
<1>4. OpInv' /\ PendingInv'
  BY <1>1, <1>2 DEF OpInv, PendingInv, TypeOK
<1>5. TokenInv'
  BY <1>1, <1>2, TokensKept DEF Held, TypeOK
<1>6. FreshInv'
  BY <1>1, <1>2 DEF FreshInv, TypeOK
<1>7. CopyInv'
  BY <1>1, <1>2 DEF CopyInv, TypeOK
<1>8. SessionSurvives'
  BY <1>1, <1>2, SurvivesKept DEF TypeOK
<1>9. QED BY <1>3, <1>4, <1>5, <1>6, <1>7, <1>8 DEF IInv

LEMMA LoadUnchangedKeeps ==
  ASSUME IInv, NEW p \in Process, LoadUnchanged(p)
  PROVE  IInv'
<1>1. /\ pc[p] = "idle" /\ mem' = [mem EXCEPT ![p] = file]
      /\ behind' = behind \ {<<p, "mem">>}
      /\ UNCHANGED <<file, pc, work, op, started, codes, live, expired, stale, unsaved, lost>>
  BY DEF LoadUnchanged
<1>2. TypeOK /\ OpInv /\ PendingInv /\ FreshInv /\ CopyInv
  BY DEF IInv
<1>3. TypeOK'
  BY <1>1, <1>2 DEF TypeOK
<1>4. OpInv' /\ PendingInv'
  BY <1>1, <1>2 DEF OpInv, PendingInv, TypeOK
<1>5. TokenInv'
  BY <1>1, <1>2, TokensKept DEF Held, TypeOK
<1>6. FreshInv'
  BY <1>1, <1>2 DEF FreshInv, TypeOK
<1>7. CopyInv'
  BY <1>1, <1>2 DEF CopyInv, TypeOK
<1>8. SessionSurvives'
  BY <1>1, <1>2, SurvivesKept DEF TypeOK
<1>9. QED BY <1>3, <1>4, <1>5, <1>6, <1>7, <1>8 DEF IInv

LEMMA LoginStartKeeps ==
  ASSUME IInv, NEW p \in Process, ProLoginStart(p)
  PROVE  IInv'
<1> DEFINE new == [mem[p] EXCEPT !.pending = started + 1]
<1>1. /\ pc[p] = "idle" /\ started < MaxLogins /\ started' = started + 1
      /\ file' = new /\ mem' = [mem EXCEPT ![p] = new]
      /\ behind' = Copies \ {<<p, copy>> : copy \in {"mem"}} /\ stale' = (stale \/ <<p, "mem">> \in behind)
      /\ UNCHANGED <<pc, work, op, codes, live, expired, unsaved, lost>>
  BY DEF ProLoginStart, Written
<1>2. TypeOK /\ OpInv /\ PendingInv /\ FreshInv /\ CopyInv
  BY DEF IInv
<1>3. started + 1 \in Logins /\ started + 1 \in 0..MaxLogins /\ started \in Nat
  BY <1>1, <1>2, LoginFacts DEF TypeOK, Logins
<1>4. new \in AuthStates /\ new.token = mem[p].token /\ new.pending = started + 1
  BY <1>3, Unpacked, StateFacts
<1> HIDE DEF new
<1>5. /\ behind' \in SUBSET Copies
      /\ \A q \in Process, copy \in {"mem", "work"} : <<q, copy>> \notin behind' => q = p /\ copy = "mem"
  BY <1>1, WrittenFacts
<1>6. stale' \in BOOLEAN
  BY <1>1, <1>2 DEF TypeOK
<1>7. TypeOK'
  BY <1>1, <1>2, <1>3, <1>4, <1>5, <1>6 DEF TypeOK
<1>8. OpInv' /\ PendingInv'
  <2>1. OpInv'
    BY <1>1, <1>2 DEF OpInv
  <2>2. \A q \in Process : mem[q].pending \in Nat /\ work[q].pending \in Nat
    BY Unpacked
  <2>3. QED BY <1>1, <1>2, <1>3, <1>4, <2>1, <2>2 DEF PendingInv, TypeOK
<1>9. TokenInv'
  BY <1>1, <1>2, <1>4, TokensKept DEF Held, TypeOK
<1>10. FreshInv'
  BY <1>1, <1>2, <1>4 DEF FreshInv, TypeOK
<1>11. CopyInv'
  BY <1>1, <1>2, <1>5 DEF CopyInv, TypeOK
<1>12. SessionSurvives'
  <2>1. CASE <<p, "mem">> \in behind
    BY <1>1, <2>1 DEF SessionSurvives
  <2>2. CASE <<p, "mem">> \notin behind
    <3>1. file'.token = file.token /\ (stale => stale')
      BY <1>1, <1>2, <1>4, <2>2 DEF CopyInv
    <3>2. QED BY <1>1, <3>1, SurvivesKept
  <2>3. QED BY <2>1, <2>2
<1>13. QED BY <1>7, <1>8, <1>9, <1>10, <1>11, <1>12 DEF IInv

LEMMA LogoutKeeps ==
  ASSUME IInv, NEW p \in Process, ProLogout(p)
  PROVE  IInv'
<1>1. /\ pc[p] = "idle" /\ file' = Empty /\ mem' = [mem EXCEPT ![p] = Empty]
      /\ behind' = Copies \ {<<p, "mem">>}
      /\ UNCHANGED <<pc, work, op, started, codes, live, expired, stale, unsaved, lost>>
  BY DEF ProLogout
<1>2. TypeOK /\ OpInv /\ PendingInv /\ FreshInv /\ CopyInv
  BY DEF IInv
<1>3. \A q \in Process, copy \in {"mem", "work"} : <<q, copy>> \notin behind' => q = p /\ copy = "mem"
  BY <1>1 DEF Copies
<1>4. TypeOK'
  BY <1>1, <1>2, StateFacts DEF TypeOK
<1>5. OpInv' /\ PendingInv'
  <2>1. 0 <= started
    BY Unpacked
  <2>2. QED BY <1>1, <1>2, <2>1, StateFacts DEF OpInv, PendingInv, TypeOK
<1>6. TokenInv'
  BY <1>1, <1>2, StateFacts, TokensKept DEF Held, TypeOK
<1>7. FreshInv'
  <2>1. \A q \in Process : pc[q] = "save" => work[q].token # NoToken
    BY Unpacked, TokenFacts
  <2>2. QED BY <1>1, <1>2, <2>1, StateFacts DEF FreshInv, TypeOK
<1>8. CopyInv'
  BY <1>1, <1>2, <1>3 DEF CopyInv, TypeOK
<1>9. SessionSurvives'
  BY <1>1, StateFacts DEF SessionSurvives
<1>10. QED BY <1>4, <1>5, <1>6, <1>7, <1>8, <1>9 DEF IInv

LEMMA WorldKeeps ==
  ASSUME IInv, (\E l \in Logins : Authorize(l)) \/ Expire
  PROVE  IInv'
<1>1. UNCHANGED <<file, mem, pc, work, op, started, live, behind, stale, unsaved, lost>>
  BY DEF Authorize, Expire, history
<1>2. TypeOK
  BY DEF IInv
<1>3. codes' \in [Logins -> {"none", "issued", "spent"}] /\ \A l \in Logins : codes[l] = "spent" => codes'[l] = "spent"
  BY <1>2 DEF Authorize, Expire, TypeOK
<1>4. expired' \in SUBSET Tokens
  BY <1>2, StateFacts DEF Authorize, Expire, TypeOK
<1>5. TypeOK'
  BY <1>1, <1>2, <1>3, <1>4 DEF TypeOK
<1>6. TokenInv'
  BY <1>1, <1>3, TokensKept DEF Held
<1>7. OpInv' /\ PendingInv' /\ FreshInv' /\ CopyInv' /\ SessionSurvives'
  BY <1>1 DEF IInv, OpInv, PendingInv, FreshInv, CopyInv, SessionSurvives, BeingReplaced
<1>8. QED BY <1>5, <1>6, <1>7 DEF IInv

LEMMA CallbackKeeps ==
  ASSUME IInv, NEW p \in Process, NEW l \in Logins, ProCallback(p, l)
  PROVE  IInv'
<1>1. /\ pc[p] = "idle" /\ mem[p].pending = l
      /\ pc' = [pc EXCEPT ![p] = "exchange"] /\ work' = [work EXCEPT ![p] = mem[p]]
      /\ op' = [op EXCEPT ![p] = "callback"]
      /\ UNCHANGED <<file, mem, started, codes, live, expired, stale, unsaved, lost>>
  BY DEF ProCallback, GoTo
<1>2. TypeOK /\ OpInv /\ PendingInv /\ FreshInv /\ CopyInv
  BY DEF IInv
<1>3. /\ behind' \in SUBSET Copies
      /\ \A q \in Process, copy \in {"mem", "work"} :
           <<q, copy>> \notin behind' =>
             IF q = p /\ copy = "work" THEN <<p, "mem">> \notin behind ELSE <<q, copy>> \notin behind
  <2>1. CASE <<p, "mem">> \in behind
    <3>1. behind' = behind \cup {<<p, "work">>}
      BY <2>1 DEF ProCallback
    <3>2. QED BY <1>2, <2>1, <3>1 DEF Copies, TypeOK
  <2>2. CASE <<p, "mem">> \notin behind
    <3>1. behind' = behind \ {<<p, "work">>}
      BY <2>2 DEF ProCallback
    <3>2. QED BY <1>2, <2>2, <3>1 DEF Copies, TypeOK
  <2>3. QED BY <2>1, <2>2
<1>4. TypeOK'
  <2>1. \A q \in Process : /\ pc'[q] = "exchange" => work'[q].pending # NoLogin
                           /\ pc'[q] \in {"refresh", "save"} => work'[q].token # NoToken
    BY <1>1, <1>2, LoginFacts DEF TypeOK
  <2>2. QED BY <1>1, <1>2, <1>3, <2>1 DEF TypeOK
<1>5. OpInv' /\ PendingInv'
  BY <1>1, <1>2 DEF OpInv, PendingInv, TypeOK
<1>6. TokenInv'
  BY <1>1, <1>2, TokensKept DEF Held, TypeOK
<1>7. FreshInv'
  BY <1>1, <1>2 DEF FreshInv, TypeOK
<1>8. CopyInv'
  BY <1>1, <1>2, <1>3 DEF CopyInv, TypeOK
<1>9. SessionSurvives'
  BY <1>1, <1>2, SurvivesKept DEF TypeOK
<1>10. QED BY <1>4, <1>5, <1>6, <1>7, <1>8, <1>9 DEF IInv

LEMMA LoadToRefreshKeeps ==
  ASSUME IInv, NEW p \in Process, NEW caller \in {"own", "request"}, LoadToRefresh(p, caller)
  PROVE  IInv'
<1>1. /\ pc[p] = "idle" /\ file.token # NoToken
      /\ pc' = [pc EXCEPT ![p] = "refresh"] /\ work' = [work EXCEPT ![p] = file] /\ op' = [op EXCEPT ![p] = caller]
      /\ behind' = behind \ {<<p, "work">>}
      /\ UNCHANGED <<file, mem, started, codes, live, expired, stale, unsaved, lost>>
  BY DEF LoadToRefresh, RefreshNeeded, GoTo
<1>2. TypeOK /\ OpInv /\ PendingInv /\ FreshInv /\ CopyInv
  BY DEF IInv
<1>3. TypeOK'
  BY <1>1, <1>2 DEF TypeOK
<1>4. OpInv' /\ PendingInv'
  BY <1>1, <1>2 DEF OpInv, PendingInv, TypeOK
<1>5. TokenInv'
  BY <1>1, <1>2, TokensKept DEF Held, TypeOK
<1>6. FreshInv'
  BY <1>1, <1>2 DEF FreshInv, TypeOK
<1>7. CopyInv'
  BY <1>1, <1>2 DEF CopyInv, TypeOK
<1>8. SessionSurvives'
  BY <1>1, <1>2, SurvivesKept DEF TypeOK
<1>9. QED BY <1>3, <1>4, <1>5, <1>6, <1>7, <1>8 DEF IInv

\* A call returns without an answer: it failed, or its process ends with it.
LEMMA ReturnKeeps ==
  ASSUME IInv, NEW p \in Process, RequestFails(p) \/ Close(p)
  PROVE  IInv'
<1>1. /\ pc[p] \in {"idle", "exchange", "refresh"}
      /\ \E label \in {"idle", "closed"} :
           /\ pc' = [pc EXCEPT ![p] = label]
           /\ mem' = mem \/ (label = "closed" /\ mem' = [mem EXCEPT ![p] = Empty])
      /\ work' = [work EXCEPT ![p] = Empty] /\ op' = [op EXCEPT ![p] = "none"]
      /\ UNCHANGED <<file, started, codes, live, expired, behind, stale, unsaved, lost>>
  BY DEF RequestFails, Close, Return, GoTo, history
<1>2. TypeOK /\ OpInv /\ PendingInv /\ FreshInv /\ CopyInv
  BY DEF IInv
<1>3. TypeOK'
  <2>1. mem' \in [Process -> AuthStates] /\ work' \in [Process -> AuthStates]
    BY <1>1, <1>2, StateFacts DEF TypeOK
  <2>2. QED BY <1>1, <1>2, <2>1 DEF TypeOK
<1>4. OpInv' /\ PendingInv'
  <2>1. 0 <= started
    BY Unpacked
  <2>2. OpInv'
    BY <1>1, <1>2 DEF OpInv, TypeOK
  <2>3. PendingInv'
    BY <1>1, <1>2, <2>1, StateFacts DEF PendingInv, TypeOK
  <2>4. QED BY <2>2, <2>3
<1>5. TokenInv'
  BY <1>1, <1>2, StateFacts, TokensKept DEF Held, TypeOK
<1>6. FreshInv'
  <2>1. \A q \in Process : pc[q] = "save" => work[q].token # NoToken
    BY Unpacked, TokenFacts
  <2>2. QED BY <1>1, <1>2, <2>1, StateFacts DEF FreshInv, TypeOK
<1>7. CopyInv'
  BY <1>1, <1>2 DEF CopyInv, TypeOK
<1>8. SessionSurvives'
  BY <1>1, <1>2, SurvivesKept DEF TypeOK
<1>9. QED BY <1>3, <1>4, <1>5, <1>6, <1>7, <1>8 DEF IInv

LEMMA LoseKeeps ==
  ASSUME IInv, NEW p \in Process, LoseAnswer(p)
  PROVE  IInv'
<1>1. /\ pc[p] = "save" /\ lost < MaxLost /\ lost' = lost + 1
      /\ unsaved' = IF op[p] = "callback" THEN unsaved ELSE unsaved \cup {PreviousToken(work[p].token)}
      /\ pc' = [pc EXCEPT ![p] = "idle"] /\ work' = [work EXCEPT ![p] = Empty] /\ op' = [op EXCEPT ![p] = "none"]
      /\ UNCHANGED <<file, mem, started, codes, live, expired, behind, stale>>
  BY DEF LoseAnswer, Return, GoTo
<1>2. TypeOK /\ OpInv /\ PendingInv /\ FreshInv /\ CopyInv /\ SessionSurvives
  BY DEF IInv
<1>3. TypeOK'
  <2>1. work' \in [Process -> AuthStates]
    BY <1>1, <1>2, StateFacts DEF TypeOK
  <2>2. lost' \in 0..MaxLost
    BY <1>1, <1>2, AuthAssumption DEF TypeOK, AuthAssumption
  <2>3. unsaved' \in SUBSET Tokens
    <3>1. op[p] # "callback" => PreviousToken(work[p].token) \in Tokens
      BY <1>1, <1>2, Unpacked, PreviousFacts DEF OpInv
    <3>2. QED BY <1>1, <1>2, <3>1 DEF TypeOK
  <2>4. QED BY <1>1, <1>2, <2>1, <2>2, <2>3 DEF TypeOK
<1>4. OpInv' /\ PendingInv'
  <2>1. 0 <= started
    BY Unpacked
  <2>2. OpInv'
    BY <1>1, <1>2 DEF OpInv, TypeOK
  <2>3. PendingInv'
    BY <1>1, <1>2, <2>1, StateFacts DEF PendingInv, TypeOK
  <2>4. QED BY <2>2, <2>3
<1>5. TokenInv'
  BY <1>1, <1>2, StateFacts, TokensKept DEF Held, TypeOK
<1>6. FreshInv'
  <2>1. \A q \in Process : pc[q] = "save" => work[q].token # NoToken
    BY Unpacked, TokenFacts
  <2>2. QED BY <1>1, <1>2, <2>1, StateFacts DEF FreshInv, TypeOK
<1>7. CopyInv'
  BY <1>1, <1>2 DEF CopyInv, TypeOK
<1>8. SessionSurvives'
  <2>1. SUFFICES ASSUME file.token # NoToken, ~stale
                 PROVE  file.token \in live' \cup unsaved' \/ BeingReplaced(file.token)'
    BY <1>1 DEF SessionSurvives
  <2>2. CASE file.token \in live \cup unsaved
    BY <1>1, <2>2
  <2>3. CASE BeingReplaced(file.token)
    <3>1. PICK q \in Process : pc[q] = "save" /\ op[q] # "callback" /\ work[q].token = NextToken(file.token)
      BY <2>3 DEF BeingReplaced
    <3>2. CASE q # p
      BY <1>1, <1>2, <3>1, <3>2 DEF BeingReplaced, TypeOK
    <3>3. CASE q = p
      <4>1. file.token \in Tokens /\ NextToken(file.token) \in Tokens
        BY <2>1, <3>1, Unpacked
      <4>2. file.token.refreshes < MaxRefreshes
        <5>1. NextToken(file.token).refreshes = file.token.refreshes + 1
          BY <4>1 DEF Tokens, NextToken
        <5>2. QED BY <4>1, <5>1, TokenFacts, LoginFacts
      <4>3. PreviousToken(work[p].token) = file.token
        BY <3>1, <3>3, <4>1, <4>2, NextFacts
      <4>4. QED BY <1>1, <3>1, <3>3, <4>3
    <3>4. QED BY <3>2, <3>3
  <2>4. QED BY <1>2, <2>1, <2>2, <2>3 DEF SessionSurvives
<1>9. QED BY <1>3, <1>4, <1>5, <1>6, <1>7, <1>8 DEF IInv

LEMMA SaveKeeps ==
  ASSUME IInv, NEW p \in Process, SaveAuth(p)
  PROVE  IInv'
<1> DEFINE fresh == IF op[p] = "request" THEN {} ELSE {"mem"}
<1>1. /\ pc[p] = "save" /\ file' = work[p]
      /\ mem' = IF op[p] = "request" THEN mem ELSE [mem EXCEPT ![p] = work[p]]
      /\ behind' = Copies \ {<<p, copy>> : copy \in fresh} /\ stale' = (stale \/ <<p, "work">> \in behind)
      /\ pc' = [pc EXCEPT ![p] = "idle"] /\ work' = [work EXCEPT ![p] = Empty] /\ op' = [op EXCEPT ![p] = "none"]
      /\ UNCHANGED <<started, codes, live, expired, unsaved, lost>>
  BY DEF SaveAuth, Written, Return, GoTo
<1>2. TypeOK /\ OpInv /\ PendingInv /\ FreshInv /\ CopyInv
  BY DEF IInv
<1>3. /\ behind' \in SUBSET Copies
      /\ \A q \in Process, copy \in {"mem", "work"} :
           <<q, copy>> \notin behind' => q = p /\ copy = "mem" /\ op[p] # "request"
  <2>1. fresh \in SUBSET {"mem", "work"} /\ (\A copy \in fresh : copy = "mem" /\ op[p] # "request")
    OBVIOUS
  <2> HIDE DEF fresh
  <2>2. QED BY <1>1, <2>1, WrittenFacts
<1>4. /\ work[p].token \in live /\ work[p].token \in Tokens
      /\ \A q \in Process : mem'[q] = mem[q] \/ mem'[q] = work[p]
      /\ \A q \in Process \ {p} : mem'[q] = mem[q]
  BY <1>1, <1>2, Unpacked DEF TypeOK
<1>5. TypeOK'
  <2>1. work' \in [Process -> AuthStates] /\ mem' \in [Process -> AuthStates]
    BY <1>1, <1>2, StateFacts DEF TypeOK
  <2>2. stale' \in BOOLEAN
    BY <1>1, <1>2 DEF TypeOK
  <2>3. QED BY <1>1, <1>2, <1>3, <2>1, <2>2 DEF TypeOK
<1>6. OpInv' /\ PendingInv'
  <2>1. 0 <= started
    BY Unpacked
  <2>2. OpInv'
    BY <1>1, <1>2 DEF OpInv, TypeOK
  <2>3. PendingInv'
    BY <1>1, <1>2, <1>4, <2>1, StateFacts DEF PendingInv, TypeOK
  <2>4. QED BY <2>2, <2>3
<1>7. TokenInv'
  BY <1>1, <1>2, <1>4, StateFacts, TokensKept DEF Held, TypeOK
<1>8. FreshInv'
  <2>1. ASSUME NEW q \in Process, pc'[q] = "save"
        PROVE  /\ work'[q].token \in live' /\ file'.token # work'[q].token
               /\ \A r \in Process : mem'[r].token # work'[q].token /\ (r # q => work'[r].token # work'[q].token)
    <3>1. q # p /\ pc[q] = "save" /\ work'[q] = work[q] /\ work[q].token # NoToken
      BY <1>1, <1>2, <2>1, Unpacked, TokenFacts DEF TypeOK
    <3>2. work[p].token # work[q].token
      BY <1>2, <3>1 DEF FreshInv
    <3>3. QED BY <1>1, <1>2, <1>4, <3>1, <3>2, StateFacts DEF FreshInv, TypeOK
  <2>2. QED BY <2>1 DEF FreshInv
<1>9. CopyInv'
  BY <1>1, <1>2, <1>3 DEF CopyInv, TypeOK
<1>10. SessionSurvives'
  BY <1>1, <1>4 DEF SessionSurvives
<1>11. QED BY <1>5, <1>6, <1>7, <1>8, <1>9, <1>10 DEF IInv

-----------------------------------------------------------------------------
(* The server issues a token.                                               *)

LEMMA ExchangeKeeps ==
  ASSUME IInv, NEW p \in Process, ExchangeCode(p)
  PROVE  IInv'
<1> DEFINE l == work[p].pending
           f == FirstToken(l)
           state == [token |-> f, pending |-> NoLogin]
<1>1. /\ pc[p] = "exchange" /\ codes[l] = "issued" /\ codes' = [codes EXCEPT ![l] = "spent"]
      /\ live' = live \cup {f} /\ work' = [work EXCEPT ![p] = state] /\ pc' = [pc EXCEPT ![p] = "save"]
      /\ UNCHANGED <<file, mem, op, started, expired, behind, stale, unsaved, lost>>
  BY DEF ExchangeCode, GoTo, history
<1>2. TypeOK /\ OpInv /\ PendingInv /\ TokenInv /\ FreshInv /\ CopyInv /\ op[p] = "callback"
  BY <1>1 DEF IInv, OpInv
<1>3. l \in Logins /\ f \in Tokens /\ f.login = l /\ f.refreshes = 0 /\ f # NoToken
  BY <1>1, Unpacked, TokenFacts
<1>4. state \in AuthStates /\ state.token = f /\ state.pending = 0
  BY <1>3, StateFacts
<1> HIDE DEF l, f, state
<1>5. ~Held(f) /\ \A u \in live : u.login # l
  BY <1>1, <1>2, <1>3 DEF TokenInv
<1>6. TypeOK'
  <2>1. \A q \in Process : /\ pc'[q] = "exchange" => work'[q].pending # NoLogin
                           /\ pc'[q] \in {"refresh", "save"} => work'[q].token # NoToken
    BY <1>1, <1>2, <1>3, <1>4 DEF TypeOK
  <2>2. QED BY <1>1, <1>2, <1>3, <1>4, <2>1 DEF TypeOK
<1>7. OpInv' /\ PendingInv'
  <2>1. 0 <= started
    BY Unpacked
  <2>2. OpInv'
    BY <1>1, <1>2 DEF OpInv, TypeOK
  <2>3. PendingInv'
    BY <1>1, <1>2, <1>4, <2>1 DEF PendingInv, TypeOK
  <2>4. QED BY <2>2, <2>3
<1>8. TokenInv'
  <2>1. \A t \in live' : codes'[t.login] = "spent" /\ \A u \in live' : u.login = t.login => u = t
    <3>1. \A t \in live : t.login \in Logins
      BY <1>2, TokenFacts DEF TypeOK
    <3>2. QED BY <1>1, <1>2, <1>3, <1>5, <3>1 DEF TokenInv, TypeOK
  <2>2. ASSUME NEW t, Held(t)', t # NoToken PROVE \E u \in live' : u.login = t.login /\ t.refreshes <= u.refreshes
    <3>1. Held(t) \/ t = f
      BY <1>1, <1>2, <1>4, <2>2 DEF Held, TypeOK
    <3>2. CASE Held(t)
      BY <1>1, <1>2, <2>2, <3>2 DEF TokenInv
    <3>3. CASE t = f
      BY <1>1, <1>3, <3>3
    <3>4. QED BY <3>1, <3>2, <3>3
  <2>3. QED BY <2>1, <2>2 DEF TokenInv
<1>9. FreshInv'
  BY <1>1, <1>2, <1>4, <1>5 DEF FreshInv, Held, TypeOK
<1>10. CopyInv'
  <2>1. <<p, "work">> \notin behind => f = FirstToken(file.pending)
    BY <1>1, <1>2 DEF CopyInv, f, l
  <2>2. QED BY <1>1, <1>2, <1>4, <2>1 DEF CopyInv, TypeOK
<1>11. SessionSurvives'
  BY <1>1, <1>2 DEF IInv, SessionSurvives, BeingReplaced, TypeOK
<1>12. QED BY <1>6, <1>7, <1>8, <1>9, <1>10, <1>11 DEF IInv

LEMMA RefreshKeeps ==
  ASSUME IInv, NEW p \in Process, RefreshAccessToken(p)
  PROVE  IInv'
<1> DEFINE t == work[p].token
           n == NextToken(t)
           state == [work[p] EXCEPT !.token = n]
<1>1. /\ pc[p] = "refresh" /\ t \in live /\ t.refreshes < MaxRefreshes
      /\ live' = (live \ {t}) \cup {n} /\ work' = [work EXCEPT ![p] = state] /\ pc' = [pc EXCEPT ![p] = "save"]
      /\ UNCHANGED <<file, mem, op, started, codes, expired, behind, stale, unsaved, lost>>
  BY DEF RefreshAccessToken, Rotate, GoTo, history
<1>2. TypeOK /\ OpInv /\ PendingInv /\ TokenInv /\ FreshInv /\ CopyInv /\ op[p] # "callback"
  BY <1>1 DEF IInv, OpInv
<1>3. /\ t \in Tokens /\ n \in Tokens /\ n.login = t.login /\ n.refreshes = t.refreshes + 1 /\ n # NoToken
      /\ t.refreshes \in Nat
  BY <1>1, Unpacked, TokenFacts, NextFacts
<1>4. state \in AuthStates /\ state.token = n /\ state.pending = work[p].pending
  BY <1>3, Unpacked, StateFacts
<1> HIDE DEF t, n, state
<1>5. ~Held(n) /\ n \notin live
  <2>1. \A u \in live : u.login = n.login => u = t
    BY <1>1, <1>2, <1>3 DEF TokenInv
  <2>2. QED BY <1>2, <1>3, <2>1 DEF TokenInv
<1>6. TypeOK'
  <2>1. \A q \in Process : /\ pc'[q] = "exchange" => work'[q].pending # NoLogin
                           /\ pc'[q] \in {"refresh", "save"} => work'[q].token # NoToken
    BY <1>1, <1>2, <1>3, <1>4 DEF TypeOK
  <2>2. QED BY <1>1, <1>2, <1>3, <1>4, <2>1 DEF TypeOK
<1>7. OpInv' /\ PendingInv'
  <2>1. OpInv'
    BY <1>1, <1>2, <1>3, <1>4 DEF OpInv, TypeOK
  <2>2. PendingInv'
    BY <1>1, <1>2, <1>4 DEF PendingInv, TypeOK
  <2>3. QED BY <2>1, <2>2
<1>8. TokenInv'
  <2>1. \A v \in live' : codes'[v.login] = "spent" /\ \A u \in live' : u.login = v.login => u = v
    BY <1>1, <1>2, <1>3 DEF TokenInv
  <2>2. ASSUME NEW v, Held(v)', v # NoToken PROVE \E u \in live' : u.login = v.login /\ v.refreshes <= u.refreshes
    <3>1. Held(v) \/ v = n
      BY <1>1, <1>2, <1>4, <2>2 DEF Held, TypeOK
    <3>2. CASE Held(v)
      <4>1. PICK u \in live : u.login = v.login /\ v.refreshes <= u.refreshes
        BY <1>2, <2>2, <3>2 DEF TokenInv
      <4>2. v \in Tokens
        BY <2>2, <3>2, Unpacked DEF Held
      <4>3. CASE u = t
        BY <1>1, <1>3, <4>1, <4>2, <4>3, TokenFacts
      <4>4. CASE u # t
        BY <1>1, <4>1, <4>4
      <4>5. QED BY <4>3, <4>4
    <3>3. CASE v = n
      BY <1>1, <1>3, <3>3
    <3>4. QED BY <3>1, <3>2, <3>3
  <2>3. QED BY <2>1, <2>2 DEF TokenInv
<1>9. FreshInv'
  <2>1. ASSUME NEW q \in Process, q # p, pc[q] = "save" PROVE work[q].token # t
    BY <1>2, <2>1 DEF FreshInv, t
  <2>2. QED BY <1>1, <1>2, <1>4, <1>5, <2>1 DEF FreshInv, Held, TypeOK
<1>10. CopyInv'
  <2>1. <<p, "work">> \notin behind => n.login = file.token.login /\ work[p].pending = file.pending
    BY <1>1, <1>2, <1>3 DEF CopyInv, t
  <2>2. QED BY <1>1, <1>2, <1>4, <2>1 DEF CopyInv, TypeOK
<1>11. SessionSurvives'
  <2>1. SUFFICES ASSUME file.token # NoToken, ~stale
                 PROVE  file.token \in live' \cup unsaved \/ BeingReplaced(file.token)'
    BY <1>1 DEF SessionSurvives
  <2>2. CASE file.token = t
    <3>1. pc'[p] = "save" /\ op'[p] # "callback" /\ work'[p].token = NextToken(file.token)
      BY <1>1, <1>2, <1>4, <2>2 DEF n, TypeOK
    <3>2. QED BY <1>1, <3>1 DEF BeingReplaced
  <2>3. CASE file.token # t
    <3>1. file.token \in live \cup unsaved \/ BeingReplaced(file.token)
      BY <2>1 DEF IInv, SessionSurvives
    <3>2. QED BY <1>1, <1>2, <2>3, <3>1 DEF BeingReplaced, TypeOK
  <2>4. QED BY <2>2, <2>3
<1>12. QED BY <1>6, <1>7, <1>8, <1>9, <1>10, <1>11 DEF IInv

-----------------------------------------------------------------------------
(* The theorems.                                                            *)

LEMMA InitHolds == Init => IInv
<1> SUFFICES ASSUME Init PROVE IInv
  OBVIOUS
<1>1. /\ file = Empty /\ mem = [p \in Process |-> Empty] /\ work = [p \in Process |-> Empty]
      /\ pc = [p \in Process |-> "closed"] /\ op = [p \in Process |-> "none"] /\ started = 0
      /\ codes = [l \in Logins |-> "none"] /\ live = {} /\ expired = {} /\ behind = {} /\ stale = FALSE
      /\ unsaved = {} /\ lost = 0
  BY DEF Init
<1>2. TypeOK
  <2>1. 0 \in 0..MaxLogins /\ 0 \in 0..MaxLost
    BY AuthAssumption DEF AuthAssumption
  <2>2. QED BY <1>1, <2>1, StateFacts DEF TypeOK
<1>3. OpInv /\ PendingInv /\ FreshInv /\ CopyInv
  BY <1>1, StateFacts DEF OpInv, PendingInv, FreshInv, CopyInv
<1>4. TokenInv /\ SessionSurvives
  BY <1>1, StateFacts DEF TokenInv, Held, SessionSurvives
<1>5. QED BY <1>2, <1>3, <1>4 DEF IInv

LEMMA StepHolds == IInv /\ [Next]_vars => IInv'
<1> SUFFICES ASSUME IInv, [Next]_vars PROVE IInv'
  OBVIOUS
<1>1. CASE UNCHANGED vars
  BY <1>1 DEF vars, IInv, TypeOK, OpInv, PendingInv, TokenInv, Held, FreshInv, CopyInv, SessionSurvives, BeingReplaced
<1>2. ASSUME NEW p \in Process, Step(p) PROVE IInv'
  BY <1>2, OpenKeeps, LoadUnchangedKeeps, LoginStartKeeps, LogoutKeeps, CallbackKeeps, LoadToRefreshKeeps, ReturnKeeps,
     LoseKeeps, SaveKeeps, ExchangeKeeps, RefreshKeeps DEF Step, Call
<1>3. CASE (\E l \in Logins : Authorize(l)) \/ Expire
  BY <1>3, WorldKeeps
<1>4. QED BY <1>1, <1>2, <1>3 DEF Next

LEMMA Invariance == Spec => []IInv
BY InitHolds, StepHolds, PTL DEF Spec

\* Files, copies, codes and tokens keep their types.
THEOREM TypeCorrect == Spec => []TypeOK
<1>1. IInv => TypeOK
  BY DEF IInv
<1>2. QED BY Invariance, <1>1, PTL

\* The refresh token in auth.json is redeemable, or its successor is about to be
\* saved, unless an answer was lost or an old copy written back (refreshAuthIfNeeded,
\* ProCallback, ProLoginStart), for any number of processes.
THEOREM Survival == Spec => []SessionSurvives
<1>1. IInv => SessionSurvives
  BY DEF IInv
<1>2. QED BY Invariance, <1>1, PTL

\* Only a write of the file changes it, and each writer says from which copy it starts.
LEMMA Writers ==
  ASSUME IInv, [Next]_vars, file' # file
  PROVE  \E p \in Process : ProLoginStart(p) \/ ProLogout(p) \/ SaveAuth(p)
BY DEF Next, Step, Call, vars, Open, Close, ProCallback, ExchangeCode, LoadUnchanged, LoadToRefresh, RefreshAccessToken,
   RequestFails, LoseAnswer, Authorize, Expire

\* The session on disk gets another owner by a callback of the login pending there or a
\* logout, or because a copy older than the file was written (no lock covers auth.json).
THEOREM Ownership == Spec => SessionChangesHands
<1>1. IInv /\ [Next]_vars =>
        [file'.token.login # file.token.login =>
           \/ stale' \/ file' = Empty
           \/ file'.token = FirstToken(file.pending)]_vars
  <2>1. SUFFICES ASSUME IInv, [Next]_vars, file'.token.login # file.token.login, ~stale', file' # Empty
                 PROVE  file'.token = FirstToken(file.pending)
    OBVIOUS
  <2>2. PICK p \in Process : ProLoginStart(p) \/ SaveAuth(p)
    BY <2>1, Writers DEF ProLogout
  <2>3. CASE ProLoginStart(p)
    <3>1. mem[p] = file /\ started < MaxLogins /\ file' = [mem[p] EXCEPT !.pending = started + 1]
      BY <2>1, <2>3 DEF ProLoginStart, Written, IInv, CopyInv
    <3>2. started + 1 \in Logins
      BY <2>1, <3>1, Unpacked, LoginFacts DEF Logins
    <3>3. file'.token = file.token
      BY <2>1, <3>1, <3>2, Unpacked, StateFacts
    <3>4. QED BY <2>1, <3>3
  <2>4. CASE SaveAuth(p)
    <3>1. pc[p] = "save" /\ file' = work[p] /\ <<p, "work">> \notin behind
      BY <2>1, <2>4 DEF SaveAuth, Written
    <3>2. CASE op[p] # "callback"
      BY <2>1, <3>1, <3>2 DEF IInv, CopyInv
    <3>3. CASE op[p] = "callback"
      BY <2>1, <3>1, <3>3 DEF IInv, CopyInv
    <3>4. QED BY <3>2, <3>3
  <2>5. QED BY <2>2, <2>3, <2>4
<1>2. QED BY Invariance, <1>1, PTL DEF Spec, SessionChangesHands

\* A login that was begun is dropped by nothing but its own callback, a logout, a
\* newer login or the write of an old copy.
THEOREM Pending == Spec => PendingSurvives
<1>1. IInv /\ [Next]_vars =>
        [file.pending # NoLogin /\ file'.pending # file.pending =>
           \/ stale' \/ file' = Empty \/ file'.pending > file.pending
           \/ file'.token = FirstToken(file.pending)]_vars
  <2>1. SUFFICES ASSUME IInv, [Next]_vars, file'.pending # file.pending, ~stale', file' # Empty
                 PROVE  file'.pending > file.pending \/ file'.token = FirstToken(file.pending)
    OBVIOUS
  <2>2. PICK p \in Process : ProLoginStart(p) \/ SaveAuth(p)
    BY <2>1, Writers DEF ProLogout
  <2>3. CASE ProLoginStart(p)
    <3>1. started < MaxLogins /\ file' = [mem[p] EXCEPT !.pending = started + 1]
      BY <2>1, <2>3 DEF ProLoginStart
    <3>2. started + 1 \in Logins /\ file.pending <= started
      BY <2>1, <3>1, Unpacked, LoginFacts DEF Logins, IInv, PendingInv
    <3>3. file'.pending = started + 1
      BY <2>1, <3>1, <3>2, Unpacked, StateFacts
    <3>4. QED BY <2>1, <3>2, <3>3, Unpacked
  <2>4. CASE SaveAuth(p)
    <3>1. pc[p] = "save" /\ file' = work[p] /\ <<p, "work">> \notin behind
      BY <2>1, <2>4 DEF SaveAuth, Written
    <3>2. QED BY <2>1, <3>1 DEF IInv, CopyInv
  <2>5. QED BY <2>2, <2>3, <2>4
<1>2. QED BY Invariance, <1>1, PTL DEF Spec, PendingSurvives

-----------------------------------------------------------------------------
(* The configuration (Settings).                                            *)

\* Beside the configuration the processes do what ProAuth lets them.
LEMMA SettingsStepsAreSteps == [SettingsNext]_<<vars, settingVars>> => [Next]_vars
BY DEF SettingsNext, SettingsStep, OpenService, CloseService, SaveSession, StoreRegistryUrl, SetConfig, UnsetConfig,
   InitConfig, RefreshRegistry, EditConfig, EditOverlay, Next, Step

LEMMA SettingsInvariance == SettingsSpec => []IInv
<1>1. SettingsInit => IInv
  BY InitHolds DEF SettingsInit
<1>2. QED BY <1>1, StepHolds, SettingsStepsAreSteps, PTL DEF SettingsSpec

\* With a file nobody can read every copy is out of date: no process opens on one.
StickInv ==
  /\ DOMAIN conf = Process /\ DOMAIN owes = Process
  /\ config.kind = "broken" => \A p \in Process : pc[p] # "closed" => p \in confBehind
  /\ \A p \in Process : owes[p] # NoUrl => pc[p] # "closed"
  /\ SettingsStick

\* The steps of a session leave the process running, or closed.
LEMMA CallStaysOpen ==
  ASSUME IInv, NEW p \in Process, Call(p) \/ SaveAuth(p)
  PROVE  pc[p] # "closed" /\ \A q \in Process : pc'[q] = "closed" <=> pc[q] = "closed"
<1>1. pc \in [Process -> {"closed", "idle", "exchange", "refresh", "save"}]
  BY DEF IInv, TypeOK
<1>2. pc[p] # "closed" /\ (pc' = pc \/ \E label \in {"idle", "exchange", "refresh", "save"} : pc' = [pc EXCEPT ![p] = label])
  BY DEF Call, SaveAuth, ProLoginStart, ProLogout, ProCallback, ExchangeCode, LoadUnchanged, LoadToRefresh,
     RefreshAccessToken, RequestFails, LoseAnswer, GoTo, Return
<1>3. QED BY <1>1, <1>2

\* What is written to the file by a process whose copy is the file: what is in it, or
\* that with a value that was given.
LEMMA SaveSticks ==
  ASSUME StickInv, NEW p \in Process, pc[p] # "closed", NEW values,
         SaveConfig(p, values), UNCHANGED pc, conf' = conf \/ conf' = [conf EXCEPT ![p] = values],
         owes' = owes \/ owes' = [owes EXCEPT ![p] = NoUrl],
         \/ values = conf[p] /\ UNCHANGED <<conf, meant>>
         \/ /\ conf' = [conf EXCEPT ![p] = values]
            /\ \E key, value : values = [conf[p] EXCEPT ![key] = value] /\ meant' = [meant EXCEPT ![key] = value]
  PROVE  StickInv'
<1>1. ~confStale' => ~confStale /\ p \notin confBehind
  BY Zenon DEF SaveConfig
<1>2. /\ config' = Whole(values) /\ confBehind' = Process \ {p}
      /\ DOMAIN conf = Process /\ DOMAIN owes = Process /\ (\A q \in Process : owes[q] # NoUrl => pc[q] # "closed")
  BY DEF StickInv, SaveConfig
<1>3. config'.kind = "whole" /\ LoadConfig' = values
  BY <1>2 DEF Whole, LoadConfig
<1>4. conf'[p] = values /\ DOMAIN conf' = Process
  BY <1>2
<1>5. DOMAIN owes' = Process /\ \A q \in Process : owes'[q] # NoUrl => pc'[q] # "closed"
  BY <1>2
<1>6. ASSUME ~confStale' PROVE values = meant'
  <2>1. ~confStale /\ p \notin confBehind
    BY <1>1, <1>6
  <2>2. config.kind # "broken" /\ conf[p] = LoadConfig /\ LoadConfig = meant
    BY <2>1 DEF StickInv, SettingsStick
  <2>3. QED BY <2>2
<1>7. SettingsStick'
  <2> SUFFICES ASSUME ~confStale'
      PROVE  LoadConfig' = meant' /\ \A q \in Process \ confBehind' : conf'[q] = LoadConfig'
    BY DEF SettingsStick
  <2>1. QED BY <1>2, <1>3, <1>4, <1>6
<1>8. QED BY <1>3, <1>4, <1>5, <1>7 DEF StickInv

LEMMA ValueSticks ==
  ASSUME StickInv, NEW p \in Process, pc[p] # "closed", NEW key, NEW value, SaveValue(p, key, value), UNCHANGED pc,
         owes' = owes \/ owes' = [owes EXCEPT ![p] = NoUrl]
  PROVE  StickInv'
<1> DEFINE values == [conf[p] EXCEPT ![key] = value]
<1>1. SaveConfig(p, values) /\ conf' = [conf EXCEPT ![p] = values] /\ meant' = [meant EXCEPT ![key] = value]
  BY DEF SaveValue, Holds
<1>2. \E k, v : values = [conf[p] EXCEPT ![k] = v] /\ meant' = [meant EXCEPT ![k] = v]
  BY <1>1
<1> HIDE DEF values
<1>3. QED BY <1>1, <1>2, SaveSticks

\* The start of a process, and its end.
LEMMA ServiceSticks ==
  ASSUME IInv, StickInv, NEW p \in Process, OpenService(p) \/ CloseService(p)
  PROVE  StickInv'
<1>1. pc \in [Process -> {"closed", "idle", "exchange", "refresh", "save"}]
  BY DEF IInv, TypeOK
<1>2. UNCHANGED <<config, meant, confStale>> /\ confBehind' = confBehind \ {p}
  BY DEF OpenService, CloseService
<1>3. LoadConfig' = LoadConfig
  BY <1>2 DEF LoadConfig
<1>4. CASE OpenService(p)
  <2>1. /\ config.kind # "broken" /\ pc' = [pc EXCEPT ![p] = "idle"] /\ conf' = [conf EXCEPT ![p] = LoadConfig]
        /\ owes' = owes
    BY <1>4 DEF OpenService, Open, GoTo, Holds
  <2>2. QED BY <1>1, <1>2, <1>3, <2>1 DEF StickInv, SettingsStick
<1>5. CASE CloseService(p)
  <2>1. /\ pc' = [pc EXCEPT ![p] = "closed"] /\ conf' = [conf EXCEPT ![p] = DefaultConfig]
        /\ owes' = [owes EXCEPT ![p] = NoUrl]
    BY <1>5 DEF CloseService, Close, GoTo
  <2>2. QED BY <1>1, <1>2, <1>3, <2>1 DEF StickInv, SettingsStick
<1>6. QED BY <1>4, <1>5

\* Calls about the session, a registry refresh and the end of a callback.
LEMMA OtherSticks ==
  ASSUME IInv, StickInv, NEW p \in Process,
         (Call(p) /\ UNCHANGED settingVars) \/ SaveSession(p) \/ \E answer \in Answers : RefreshRegistry(p, answer)
  PROVE  StickInv'
<1>1. UNCHANGED <<config, meant, confStale, confBehind>>
  BY DEF settingVars, SaveSession, RefreshRegistry
<1>2. LoadConfig' = LoadConfig
  BY <1>1 DEF LoadConfig
<1>3. conf' = conf \/ conf' = [conf EXCEPT ![p] = conf[p]]
  BY DEF settingVars, SaveSession, RefreshRegistry, Holds
<1>4. DOMAIN conf' = Process /\ \A q \in Process : conf'[q] = conf[q]
  BY <1>3 DEF StickInv
<1>5. pc[p] # "closed" /\ \A q \in Process : pc'[q] = "closed" <=> pc[q] = "closed"
  <2>1. CASE Call(p) \/ SaveSession(p)
    BY <2>1, CallStaysOpen DEF SaveSession
  <2>2. CASE \E answer \in Answers : RefreshRegistry(p, answer)
    BY <2>2 DEF RefreshRegistry, Free, vars
  <2>3. QED BY <2>1, <2>2
<1>6. DOMAIN owes' = Process /\ \A q \in Process : q # p => owes'[q] = owes[q]
  BY DEF StickInv, settingVars, SaveSession, RefreshRegistry
<1>7. QED BY <1>1, <1>2, <1>4, <1>5, <1>6 DEF StickInv, SettingsStick

LEMMA StickStep == IInv /\ StickInv /\ [SettingsNext]_<<vars, settingVars>> => StickInv'
<1>1. SUFFICES ASSUME IInv, StickInv, [SettingsNext]_<<vars, settingVars>> PROVE StickInv'
  OBVIOUS
<1>2. CASE UNCHANGED <<vars, settingVars>>
  BY <1>1, <1>2 DEF vars, settingVars, StickInv, SettingsStick, LoadConfig
<1>3. ASSUME NEW p \in Process, SettingsStep(p) PROVE StickInv'
  <2>1. CASE StoreRegistryUrl(p)
    <3>1. /\ owes[p] # NoUrl /\ pc[p] # "closed" /\ UNCHANGED pc /\ owes' = [owes EXCEPT ![p] = NoUrl]
          /\ SaveValue(p, "registry_url", owes[p]) \/ UNCHANGED <<config, conf, meant, confBehind, confStale>>
      BY <1>1, <2>1 DEF StoreRegistryUrl, StickInv, vars
    <3>2. CASE SaveValue(p, "registry_url", owes[p])
      BY <1>1, <3>1, <3>2, ValueSticks
    <3>3. CASE UNCHANGED <<config, conf, meant, confBehind, confStale>>
      BY <1>1, <3>1, <3>3 DEF StickInv, SettingsStick, LoadConfig
    <3>4. QED BY <3>1, <3>2, <3>3
  <2>2. ASSUME NEW key \in Keys, SetConfig(p, key) \/ UnsetConfig(p, key) PROVE StickInv'
    <3>1. pc[p] # "closed" /\ UNCHANGED <<pc, owes>> /\ \E value : SaveValue(p, key, value)
      BY <2>2 DEF SetConfig, UnsetConfig, Free, vars
    <3>2. QED BY <1>1, <3>1, ValueSticks
  <2>3. ASSUME NEW force \in BOOLEAN, InitConfig(p, force) PROVE StickInv'
    <3>1. pc[p] # "closed" /\ SaveConfig(p, conf[p]) /\ UNCHANGED <<pc, owes, conf, meant>>
      BY <2>3 DEF InitConfig, Free, vars
    <3>2. QED BY <1>1, <3>1, SaveSticks
  <2>4. QED BY <1>1, <1>3, <2>1, <2>2, <2>3, ServiceSticks, OtherSticks DEF SettingsStep
<1>4. ASSUME NEW kind \in {"missing", "broken"}, EditConfig(kind) PROVE StickInv'
  <2>1. /\ config' = NoConfig(kind) /\ meant' = DefaultConfig /\ confBehind' = Process
        /\ UNCHANGED <<conf, owes, pc>>
    BY <1>4 DEF EditConfig, vars
  <2>2. LoadConfig' = DefaultConfig
    BY <2>1 DEF LoadConfig, NoConfig
  <2>3. QED BY <1>1, <2>1, <2>2 DEF StickInv, SettingsStick
<1>5. ASSUME NEW f \in Files, NEW manifest \in Overlays, EditOverlay(f, manifest) PROVE StickInv'
  BY <1>1, <1>5 DEF EditOverlay, vars, StickInv, SettingsStick, LoadConfig
<1>6. CASE (Expire \/ \E l \in Logins : Authorize(l)) /\ UNCHANGED settingVars
  BY <1>1, <1>6 DEF Expire, Authorize, settingVars, StickInv, SettingsStick, LoadConfig
<1>7. QED BY <1>1, <1>2, <1>3, <1>4, <1>5, <1>6 DEF SettingsNext

\* What a config command or a login was told is stored is in config.json, and no other
\* value, for any processes, keys and values, as long as no process has written back a
\* copy older than the file (SetConfig, UnsetConfig, SaveConfig, ProCallback).
THEOREM Sticks == SettingsSpec => []SettingsStick
<1>1. SettingsInit => StickInv
  BY DEF SettingsInit, Init, StickInv, SettingsStick
<1>2. StickInv => SettingsStick
  BY DEF StickInv
<1>3. QED BY <1>1, <1>2, StickStep, SettingsInvariance, PTL DEF SettingsSpec

-----------------------------------------------------------------------------
(* What a manifest says after it was merged.                                *)
\* Induction over the natural numbers, for a set of them.
LEMMA Induction ==
  ASSUME NEW S \in SUBSET Nat, 0 \in S, \A n \in S : n + 1 \in S
  PROVE  S = Nat
<1> DEFINE R == OpToRel(<, Nat)
           T == Nat \ S
<1>1. IsWellFoundedOn(R, Nat)
  BY NatLessThanWellFounded
<1>2. SUFFICES ASSUME T # {} PROVE FALSE
  OBVIOUS
<1>3. PICK x \in T : \A y \in T : ~(<<y, x>> \in R)
  <2> HIDE DEF R
  <2>1. T \subseteq Nat
    OBVIOUS
  <2> HIDE DEF T
  <2> QED BY <1>1, <1>2, <2>1, WFMin
<1>4. \A y \in T : ~(y < x)
  BY <1>3 DEF OpToRel
<1>5. x \in Nat /\ x # 0 /\ x - 1 \in Nat /\ x - 1 < x /\ x = (x - 1) + 1
  OBVIOUS
<1>6. x - 1 \in S
  BY <1>4, <1>5
<1>7. QED BY <1>5, <1>6

\* A fold over the subsets of a finite set exists.
Foldable(D, A, base, m, F) ==
  /\ IsFiniteSet(D) /\ base \in A
  /\ \A s \in SUBSET D : s # {} => m[s] \in s
  /\ \A x \in D, a \in A : F[<<x, a>>] \in A

Folded(D, A, base, m, F) ==
  \E g \in [SUBSET D -> A] : \A s \in SUBSET D : g[s] = IF s = {} THEN base ELSE F[<<m[s], g[s \ {m[s]}]>>]

LEMMA FoldExists ==
  ASSUME NEW D, NEW A, NEW base, NEW m, NEW F, Foldable(D, A, base, m, F)
  PROVE  Folded(D, A, base, m, F)
<1> SUFFICES ASSUME IsFiniteSet(D), base \in A, \A s \in SUBSET D : s # {} => m[s] \in s,
                    \A x \in D, a \in A : F[<<x, a>>] \in A
             PROVE  \E g \in [SUBSET D -> A] :
                      \A s \in SUBSET D : g[s] = IF s = {} THEN base ELSE F[<<m[s], g[s \ {m[s]}]>>]
  BY DEF Foldable, Folded
<1> DEFINE Small(n) == {s \in SUBSET D : Cardinality(s) <= n}
           Folds(g, s) == g[s] = IF s = {} THEN base ELSE F[<<m[s], g[s \ {m[s]}]>>]
           N == {n \in Nat : \E g \in [Small(n) -> A] : \A s \in Small(n) : Folds(g, s)}
<1>0. \A s \in SUBSET D : IsFiniteSet(s) /\ Cardinality(s) \in Nat /\ (Cardinality(s) = 0 <=> s = {})
  BY FS_Subset, FS_CardinalityType, FS_EmptySet
<1>1. 0 \in N
  <2>1. \A s \in Small(0) : s = {}
    BY <1>0
  <2>2. [s \in Small(0) |-> base] \in [Small(0) -> A] /\ \A s \in Small(0) : Folds([t \in Small(0) |-> base], s)
    BY <2>1
  <2>3. QED BY <2>2
<1>2. ASSUME NEW n \in N PROVE n + 1 \in N
  <2>1. PICK g \in [Small(n) -> A] : \A s \in Small(n) : Folds(g, s)
    OBVIOUS
  <2>2. \A s \in Small(n + 1) : s # {} => s \ {m[s]} \in Small(n)
    <3> SUFFICES ASSUME NEW s \in Small(n + 1), s # {} PROVE s \ {m[s]} \in Small(n)
      OBVIOUS
    <3>1. m[s] \in s /\ IsFiniteSet(s) /\ Cardinality(s) \in Nat
      BY <1>0
    <3>2. \A x : Cardinality(s \ {x}) = IF x \in s THEN Cardinality(s) - 1 ELSE Cardinality(s)
      BY <3>1, FS_RemoveElement
    <3>3. Cardinality(s \ {m[s]}) = Cardinality(s) - 1
      BY <3>1, <3>2
    <3>4. QED BY <3>1, <3>3
  <2>3. \A s \in Small(n) : s \in Small(n + 1)
    BY <1>0
  <2> DEFINE h == [s \in Small(n + 1) |-> IF s = {} THEN base ELSE F[<<m[s], g[s \ {m[s]}]>>]]
  <2> HIDE DEF Small
  <2>4. h \in [Small(n + 1) -> A]
    <3>1. ASSUME NEW s \in Small(n + 1) PROVE (IF s = {} THEN base ELSE F[<<m[s], g[s \ {m[s]}]>>]) \in A
      <4>1. CASE s = {} BY <4>1
      <4>2. CASE s # {}
        <5>1. m[s] \in D
          BY <4>2 DEF Small
        <5>2. g[s \ {m[s]}] \in A
          BY <2>2, <4>2
        <5>3. QED BY <4>2, <5>1, <5>2
      <4>3. QED BY <4>1, <4>2
    <3>2. QED BY <3>1
  <2>5. \A s \in Small(n) : h[s] = g[s]
    BY <2>1, <2>3
  <2>6. ASSUME NEW s \in Small(n + 1) PROVE Folds(h, s)
    BY <2>2, <2>5
  <2>7. n + 1 \in Nat
    OBVIOUS
  <2>8. QED BY <2>4, <2>6, <2>7
<1>3. N = Nat
  <2>1. N \subseteq Nat
    OBVIOUS
  <2> HIDE DEF N
  <2>2. QED BY <1>1, <1>2, <2>1, Induction
<1>4. Cardinality(D) \in Nat /\ \A s \in SUBSET D : Cardinality(s) <= Cardinality(D)
  BY <1>0, FS_Subset, FS_CardinalityType
<1>5. Small(Cardinality(D)) = SUBSET D
  BY <1>4
<1>6. Cardinality(D) \in N
  BY <1>3, <1>4
<1> HIDE DEF Small
<1>7. PICK g \in [Small(Cardinality(D)) -> A] : \A s \in Small(Cardinality(D)) : Folds(g, s)
  BY <1>6
<1>8. QED BY <1>5, <1>7

\* The elements up to the k-th, and the last of them.
LEMMA FirstElements ==
  ASSUME NEW k \in Nat, k # 0
  PROVE  Max(1..k) = k /\ (1..k) \ {k} = 1..(k - 1)
<1>1. Max(1..k) = k
  <2>1. k \in 1..k /\ \A y \in 1..k : k >= y
    OBVIOUS
  <2>2. 1..k # {} /\ 1..k \in SUBSET (1..k)
    BY <2>1
  <2>3. PICK x \in 1..k : x = Max(1..k) /\ \A y \in 1..k : x >= y
    BY <2>1 DEF Max
  <2>4. QED BY <2>1, <2>3
<1>2. QED BY <1>1

\* mergeRegistry skill by skill.
MergeSteps(registry, manifest, g) ==
  /\ g[0] = registry
  /\ \A k \in 1..Len(manifest.skills) : g[k] = MergeSkill(g[k - 1], manifest.skills[k])
  /\ MergeRegistry(registry, manifest) = g[Len(manifest.skills)]

\* Indices have a largest one: well-foundedness, counted from the end.
LEMMA LargestIn ==
  ASSUME NEW n \in Nat, NEW s \in SUBSET (1..n), s # {}
  PROVE  Max(s) \in s
<1> DEFINE I == {n - y : y \in s}
           R == OpToRel(<, Nat)
<1>0. \A y \in s : y \in Nat /\ n - y \in Nat
  OBVIOUS
<1>1. I \in SUBSET Nat /\ I # {}
  BY <1>0
<1>2. PICK least \in I : \A z \in I : ~(<<z, least>> \in R)
  <2>1. IsWellFoundedOn(R, Nat)
    BY NatLessThanWellFounded
  <2> HIDE DEF I, R
  <2>2. QED BY <1>1, <2>1, WFMin
<1>3. \A z \in I : ~(z < least)
  BY <1>1, <1>2 DEF OpToRel
<1>4. PICK x \in s : least = n - x
  BY <1>2
<1>5. ASSUME NEW y \in s PROVE n - x <= n - y
  <2>1. n - y \in I
    OBVIOUS
  <2> HIDE DEF I
  <2>2. ~(n - y < n - x)
    BY <1>3, <1>4, <2>1
  <2>3. QED BY <1>0, <2>2
<1>6. \A y \in s : x >= y
  BY <1>5
<1>7. QED BY <1>6 DEF Max

LEMMA MergeRead ==
  ASSUME NEW registry, NEW manifest, manifest.skills \in Seq(ToSet(manifest.skills))
  PROVE  \E g : MergeSteps(registry, manifest, g)
<1>0. PICK skills : skills = manifest.skills
  OBVIOUS
<1> DEFINE D == DOMAIN skills
           N == DOMAIN registry \cup {skills[i].name : i \in D}
           V == {registry[name] : name \in DOMAIN registry} \cup {skills[i] : i \in D}
           A == {registry} \cup UNION {[some -> V] : some \in SUBSET N}
           m == [s \in SUBSET D |-> Max(s)]
           F == [x \in D \X A |-> MergeSkill(x[2], skills[x[1]])]
           Iter(it) == it = [s \in SUBSET D |-> IF s = {} THEN registry ELSE MergeSkill(it[s \ {Max(s)}], skills[Max(s)])]
           iter == CHOOSE it : Iter(it)
<1>1. MergeRegistry(registry, manifest) = iter[D]
  BY <1>0 DEF MergeRegistry, FoldLeft, MapThenFoldSet
<1>2. D = 1..Len(skills) /\ Len(skills) \in Nat /\ IsFiniteSet(D)
  BY <1>0, FS_Interval
<1>3. \A s \in SUBSET D : s # {} => m[s] \in s
  BY <1>2, LargestIn
<1>4. ASSUME NEW a \in A, NEW i \in D PROVE MergeSkill(a, skills[i]) \in A
  <2>1. DOMAIN a \subseteq N /\ \A name \in DOMAIN a : a[name] \in V
    <3>1. CASE a = registry
      BY <3>1
    <3>2. CASE a \in UNION {[some -> V] : some \in SUBSET N}
      <4> HIDE DEF V, N
      <4> QED BY <3>2
    <3>3. QED BY <3>1, <3>2
  <2>2. skills[i].name \in N /\ skills[i] \in V
    OBVIOUS
  <2> HIDE DEF V, N
  <2>3. MergeSkill(a, skills[i]) \in [DOMAIN a \cup {skills[i].name} -> V]
    BY <2>1, <2>2 DEF MergeSkill
  <2>4. DOMAIN a \cup {skills[i].name} \in SUBSET N
    BY <2>1, <2>2
  <2>5. QED BY <2>3, <2>4
<1>5. \A x \in D, a \in A : F[<<x, a>>] = MergeSkill(a, skills[x])
  <2> HIDE DEF A
  <2> QED OBVIOUS
<1>6. registry \in A
  OBVIOUS
<1>7. Iter(iter)
  <2> HIDE DEF m, F, D, A
  <2>1. Foldable(D, A, registry, m, F)
    BY <1>2, <1>3, <1>4, <1>5, <1>6 DEF Foldable
  <2>2. PICK h \in [SUBSET D -> A] : \A s \in SUBSET D : h[s] = IF s = {} THEN registry ELSE F[<<m[s], h[s \ {m[s]}]>>]
    <3>1. Folded(D, A, registry, m, F)
      BY <2>1, FoldExists
    <3>2. QED BY <3>1 DEF Folded
  <2>3. Iter(h)
    <3>1. \A s \in SUBSET D : s # {} => h[s] = MergeSkill(h[s \ {Max(s)}], skills[Max(s)])
      <4> SUFFICES ASSUME NEW s \in SUBSET D, s # {} PROVE h[s] = MergeSkill(h[s \ {Max(s)}], skills[Max(s)])
        OBVIOUS
      <4>1. m[s] = Max(s) /\ m[s] \in D /\ h[s \ {m[s]}] \in A
        BY <1>3, <2>2 DEF m
      <4>2. QED BY <1>5, <2>2, <4>1
    <3>2. QED BY <2>2, <3>1
  <2> HIDE DEF Iter
  <2>4. QED BY <2>3
<1>8. \A s \in SUBSET D : iter[s] = IF s = {} THEN registry ELSE MergeSkill(iter[s \ {Max(s)}], skills[Max(s)])
  <2> HIDE DEF iter, D
  <2> QED BY <1>7
<1> HIDE DEF iter, Iter, m, F
<1> DEFINE g == [k \in 0..Len(skills) |-> iter[1..k]]
<1>9. ASSUME NEW k \in 1..Len(skills) PROVE g[k] = MergeSkill(g[k - 1], skills[k])
  <2>1. Max(1..k) = k /\ (1..k) \ {k} = 1..(k - 1) /\ 1..k \in SUBSET D /\ 1..k # {}
    BY <1>2, FirstElements
  <2>2. iter[1..k] = MergeSkill(iter[(1..k) \ {Max(1..k)}], skills[Max(1..k)])
    <3> HIDE DEF D
    <3> QED BY <1>8, <2>1
  <2>3. iter[1..k] = MergeSkill(iter[1..(k - 1)], skills[k])
    <3> HIDE DEF D
    <3> QED BY <2>1, <2>2
  <2>4. g[k] = iter[1..k] /\ g[k - 1] = iter[1..(k - 1)]
    BY <1>2
  <2>5. QED BY <2>3, <2>4
<1>10. g[0] = registry /\ g[Len(skills)] = iter[D]
  <2>1. 1..0 = {} /\ {} \in SUBSET D
    OBVIOUS
  <2>2. iter[{}] = registry
    <3> HIDE DEF D
    <3> QED BY <1>8, <2>1
  <2>3. QED BY <1>2, <2>1, <2>2
<1> HIDE DEF g
<1>11. MergeSteps(registry, manifest, g)
  BY <1>0, <1>1, <1>9, <1>10 DEF MergeSteps
<1>12. QED BY <1>11

\* What a manifest says of the skills it names, it says whatever it is merged with.
LEMMA MergeSays ==
  ASSUME NEW registry, NEW manifest, manifest.skills \in Seq(ToSet(manifest.skills))
  PROVE  LET said == MergeRegistry(<<>>, manifest)
             merged == MergeRegistry(registry, manifest)
         IN  DOMAIN said \subseteq DOMAIN merged /\ \A name \in DOMAIN said : merged[name] = said[name]
<1>1. PICK skills : skills = manifest.skills
  OBVIOUS
<1>2. skills \in Seq(ToSet(skills)) /\ Len(skills) \in Nat
  BY <1>1
<1>3. PICK h : MergeSteps(<<>>, manifest, h)
  BY MergeRead
<1>4. PICK g : MergeSteps(registry, manifest, g)
  BY MergeRead
<1> DEFINE Says(k) == DOMAIN h[k] \subseteq DOMAIN g[k] /\ \A name \in DOMAIN h[k] : g[k][name] = h[k][name]
           S == {k \in Nat : k <= Len(skills) => Says(k)}
<1>5. 0 \in S
  BY <1>3, <1>4 DEF MergeSteps
<1>6. ASSUME NEW k \in S PROVE k + 1 \in S
  <2> SUFFICES ASSUME k + 1 <= Len(skills) PROVE Says(k + 1)
    OBVIOUS
  <2>1. k \in Nat /\ k + 1 \in 1..Len(skills) /\ (k + 1) - 1 = k /\ Says(k)
    BY <1>2
  <2>2. h[k + 1] = MergeSkill(h[k], skills[k + 1]) /\ g[k + 1] = MergeSkill(g[k], skills[k + 1])
    BY <1>1, <1>3, <1>4, <2>1 DEF MergeSteps
  <2>3. PICK skill, hk, gk : skill = skills[k + 1] /\ hk = h[k] /\ gk = g[k]
    OBVIOUS
  <2>4. h[k + 1] = [name \in DOMAIN hk \cup {skill.name} |-> IF name = skill.name THEN skill ELSE hk[name]]
    BY <2>2, <2>3 DEF MergeSkill
  <2>5. g[k + 1] = [name \in DOMAIN gk \cup {skill.name} |-> IF name = skill.name THEN skill ELSE gk[name]]
    BY <2>2, <2>3 DEF MergeSkill
  <2>6. QED BY <2>1, <2>3, <2>4, <2>5
<1>7. Says(Len(skills))
  <2>1. S \in SUBSET Nat
    OBVIOUS
  <2>2. S = Nat
    <3> HIDE DEF S
    <3> QED BY <1>5, <1>6, <2>1, Induction
  <2>3. QED BY <1>2, <2>2
<1>8. MergeRegistry(<<>>, manifest) = h[Len(skills)] /\ MergeRegistry(registry, manifest) = g[Len(skills)]
  BY <1>1, <1>3, <1>4 DEF MergeSteps
<1>9. QED BY <1>7, <1>8

-----------------------------------------------------------------------------
(* A refresh takes effect.                                                  *)

\* What a process that can read the cache offers of the skills named in it.
Tells(offered, manifest) ==
  LET said == Versions(MergeRegistry(<<>>, manifest)) IN \A name \in DOMAIN said : offered[name] = said[name]

LEMMA LoadTells ==
  ASSUME NEW values, NEW cached, cached.skills \in Seq(ToSet(cached.skills)), Usable(cached, values)
  PROVE  Tells(LoadRegistry(values, cached), cached)
<1>1. PICK registry : LoadRegistry(values, cached) = Versions(MergeRegistry(registry, cached))
  BY DEF LoadRegistry
<1>2. PICK said, merged : said = MergeRegistry(<<>>, cached) /\ merged = MergeRegistry(registry, cached)
  OBVIOUS
<1>3. DOMAIN said \subseteq DOMAIN merged /\ \A name \in DOMAIN said : merged[name] = said[name]
  BY <1>2, MergeSays
<1>4. LoadRegistry(values, cached) = Versions(merged)
  BY <1>1, <1>2
<1>5. \A name \in DOMAIN Versions(said) : Versions(merged)[name] = Versions(said)[name]
  BY <1>3 DEF Versions
<1>6. QED BY <1>2, <1>4, <1>5 DEF Tells

\* The cache is the last answer that was accepted, and each informed process loaded it.
RefreshInv ==
  /\ DOMAIN conf = Process /\ DOMAIN offers = Process /\ informed \subseteq Process
  /\ cache = published /\ published \in Answers \cup {NoManifest}
  /\ \A p \in informed : Usable(published, conf[p]) => Tells(offers[p], published)

LEMMA RefreshInvStart == SettingsInit => RefreshInv
BY DEF SettingsInit, RefreshInv

LEMMA PublishedIsManifest == RefreshInv => published.skills \in Seq(ToSet(published.skills))
<1>1. NoManifest.skills = <<>>
  BY DEF NoManifest
<1>2. <<>> \in Seq(ToSet(<<>>))
  OBVIOUS
<1>3. QED BY <1>1, <1>2, SettingsAssumption DEF RefreshInv

\* A process that loads the registry with the cache as it is.
LEMMA HoldsTells ==
  ASSUME RefreshInv, NEW p \in Process, NEW values, Holds(p, values, cache),
         UNCHANGED <<cache, published>>, informed' \subseteq informed \cup {p}
  PROVE  RefreshInv'
<1>1. PICK offered : offered = LoadRegistry(values, cache)
  OBVIOUS
<1>2. conf' = [conf EXCEPT ![p] = values] /\ offers' = [offers EXCEPT ![p] = offered]
  BY <1>1 DEF Holds
<1>3. Usable(published, values) => Tells(offered, published)
  <2>1. cache = published /\ cache.skills \in Seq(ToSet(cache.skills))
    BY PublishedIsManifest DEF RefreshInv
  <2>2. QED BY <1>1, <2>1, LoadTells
<1>4. ASSUME NEW q \in informed', Usable(published, conf'[q]) PROVE Tells(offers'[q], published)
  <2>1. CASE q = p
    BY <1>2, <1>3, <1>4, <2>1 DEF RefreshInv
  <2>2. CASE q # p
    <3>1. q \in informed /\ conf'[q] = conf[q] /\ offers'[q] = offers[q]
      BY <1>2, <2>2 DEF RefreshInv
    <3>2. QED BY <1>4, <3>1 DEF RefreshInv
  <2>3. QED BY <2>1, <2>2
<1>5. DOMAIN conf' = Process /\ DOMAIN offers' = Process /\ informed' \subseteq Process
  BY <1>2 DEF RefreshInv
<1>6. QED BY <1>4, <1>5 DEF RefreshInv

\* A process that ends is not asked any more.
LEMMA CloseTells == ASSUME RefreshInv, NEW p \in Process, CloseService(p) PROVE RefreshInv'
<1>1. \E values, offered : conf' = [conf EXCEPT ![p] = values] /\ offers' = [offers EXCEPT ![p] = offered]
  BY DEF CloseService
<1>2. informed' = informed \ {p} /\ UNCHANGED <<cache, published>>
  BY DEF CloseService
<1>3. QED BY <1>1, <1>2 DEF RefreshInv

\* The process that refreshes loads what it has just stored, and nobody else has yet.
LEMMA RefreshTells == ASSUME RefreshInv, NEW p \in Process, NEW answer \in Answers, RefreshRegistry(p, answer) PROVE RefreshInv'
<1>1. PICK offered, values : offered = LoadRegistry(values, answer) /\ values = conf[p]
  OBVIOUS
<1>2. /\ conf' = [conf EXCEPT ![p] = values] /\ offers' = [offers EXCEPT ![p] = offered]
      /\ cache' = answer /\ published' = answer /\ informed' = {p}
  BY <1>1 DEF RefreshRegistry, Holds
<1>3. Usable(answer, values)
  BY <1>1 DEF RefreshRegistry
<1>4. Tells(offered, answer)
  BY <1>1, <1>3, LoadTells, SettingsAssumption
<1>5. QED BY <1>2, <1>4 DEF RefreshInv

LEMMA NothingTold == RefreshInv /\ UNCHANGED <<conf, offers, cache, published, informed>> => RefreshInv'
BY DEF RefreshInv

LEMMA ValueTells ==
  ASSUME RefreshInv, NEW p \in Process, NEW key, NEW value, SaveValue(p, key, value)
  PROVE  RefreshInv'
<1>1. PICK values : Holds(p, values, cache) /\ informed' = informed \cup {p} /\ UNCHANGED <<cache, published>>
  BY DEF SaveValue
<1>2. QED BY <1>1, HoldsTells

LEMMA RefreshStep == RefreshInv /\ [SettingsNext]_<<vars, settingVars>> => RefreshInv'
<1> SUFFICES ASSUME RefreshInv, [SettingsNext]_<<vars, settingVars>> PROVE RefreshInv'
  OBVIOUS
<1>1. CASE UNCHANGED settingVars
  BY <1>1, NothingTold DEF settingVars
<1>2. ASSUME NEW p \in Process, SettingsStep(p) PROVE RefreshInv'
  <2>1. CASE OpenService(p)
    <3>1. Holds(p, LoadConfig, cache) /\ informed' = informed \cup {p} /\ UNCHANGED <<cache, published>>
      BY <2>1 DEF OpenService
    <3>2. QED BY <3>1, HoldsTells
  <2>2. CASE CloseService(p)
    BY <2>2, CloseTells
  <2>3. CASE owes[p] = NoUrl /\ Call(p) /\ UNCHANGED settingVars
    BY <1>1, <2>3
  <2>4. CASE SaveSession(p)
    BY <2>4, NothingTold DEF SaveSession
  <2>5. CASE StoreRegistryUrl(p)
    <3>1. SaveValue(p, "registry_url", owes[p]) \/ UNCHANGED <<conf, offers, cache, published, informed>>
      BY <2>5 DEF StoreRegistryUrl
    <3>2. QED BY <3>1, ValueTells, NothingTold
  <2>6. ASSUME NEW key \in Keys, SetConfig(p, key) \/ UnsetConfig(p, key) PROVE RefreshInv'
    <3>1. \E value : SaveValue(p, key, value)
      BY <2>6 DEF SetConfig, UnsetConfig
    <3>2. QED BY <3>1, ValueTells
  <2>7. ASSUME NEW force \in BOOLEAN, InitConfig(p, force) PROVE RefreshInv'
    BY <2>7, NothingTold DEF InitConfig
  <2>8. ASSUME NEW answer \in Answers, RefreshRegistry(p, answer) PROVE RefreshInv'
    BY <2>8, RefreshTells
  <2>9. QED BY <1>2, <2>1, <2>2, <2>3, <2>4, <2>5, <2>6, <2>7, <2>8 DEF SettingsStep
<1>3. ASSUME NEW kind \in {"missing", "broken"}, EditConfig(kind) PROVE RefreshInv'
  BY <1>3, NothingTold DEF EditConfig
<1>4. ASSUME NEW f \in Files, NEW manifest \in Overlays, EditOverlay(f, manifest) PROVE RefreshInv'
  BY <1>4, NothingTold DEF EditOverlay
<1>5. QED BY <1>1, <1>2, <1>3, <1>4 DEF SettingsNext

\* A process that refreshed the registry or loaded it since offers what the last accepted
\* answer said of every skill in it, for any manifests, overlays and limits: of the layers
\* the cache is merged last, and mergeRegistry forgets nothing that was merged later.
THEOREM RefreshSticks == SettingsSpec => []RefreshTakesEffect
<1>1. RefreshInv => RefreshTakesEffect
  BY DEF RefreshInv, RefreshTakesEffect, Tells
<1>2. QED BY <1>1, RefreshInvStart, RefreshStep, PTL DEF SettingsSpec
====
