-------------------------------- MODULE ProAuth --------------------------------
(***************************************************************************)
(* The Pro session: auth.json, the copy of it every Service keeps in       *)
(* s.Auth, and the token endpoint of the Pro server.  ProLoginStart,       *)
(* ProCallback, ProLogout, currentAuth and refreshAuthIfNeeded in          *)
(* internal/core/auth.go.                                                  *)
(*                                                                         *)
(* No lock covers auth.json.  A command loads it, or takes s.Auth, talks   *)
(* to the server and writes the whole file again; a server process (mcp    *)
(* serve) keeps its s.Auth for as long as it lives.                        *)
(***************************************************************************)
EXTENDS Naturals, FiniteSets

CONSTANTS
  Process,       \* agtx processes that share the auth.json
  MaxLogins,     \* bound on logins started
  MaxRefreshes,  \* bound on the refreshes of one session
  MaxLost        \* bound on answers of the server that are never stored

ASSUME AuthAssumption ==
  /\ MaxLogins \in Nat \ {0}
  /\ MaxRefreshes \in Nat
  /\ MaxLost \in Nat

VARIABLES
  file,      \* auth.json; the empty state when there is none
  mem,       \* s.Auth of each process
  pc,        \* where each process is
  work,      \* the state a process is about to save
  op,        \* what it is doing: "callback", "own" or "request"
  started,   \* logins started so far; a login is its number
  codes,     \* the authorization code of each login, at the server
  live,      \* refresh tokens the server still accepts
  expired,   \* sessions whose access token runs out within a minute
  behind,    \* history: copies taken before the file was last written
  stale,     \* history: such a copy has been saved
  unsaved,   \* history: tokens whose successor was never stored
  lost       \* answers of the server lost so far

vars == <<file, mem, pc, work, op, started, codes, live, expired, behind, stale, unsaved, lost>>
history == <<behind, stale, unsaved, lost>>

-----------------------------------------------------------------------------
(* AuthState.  A token stands for the access and the refresh token that     *)
(* were issued together: the login they go back to and the refreshes since. *)

NoLogin == 0
Logins == 1..MaxLogins
NoToken == [login |-> NoLogin, refreshes |-> 0]
Tokens == [login : Logins, refreshes : 0..MaxRefreshes]
AuthStates == [token : Tokens \cup {NoToken}, pending : Logins \cup {NoLogin}]
Empty == [token |-> NoToken, pending |-> NoLogin]

Copies == Process \X {"mem", "work"}

TypeOK ==
  /\ file \in AuthStates
  /\ mem \in [Process -> AuthStates]
  /\ pc \in [Process -> {"closed", "idle", "exchange", "refresh", "save"}]
  /\ work \in [Process -> AuthStates]
  /\ op \in [Process -> {"none", "callback", "own", "request"}]
  /\ started \in 0..MaxLogins
  /\ codes \in [Logins -> {"none", "issued", "spent"}]
  /\ live \in SUBSET Tokens
  /\ expired \in SUBSET Tokens
  /\ behind \in SUBSET Copies
  /\ stale \in BOOLEAN
  /\ unsaved \in SUBSET Tokens
  /\ lost \in 0..MaxLost
  /\ \A p \in Process :
       /\ pc[p] = "exchange" => work[p].pending # NoLogin
       /\ pc[p] \in {"refresh", "save"} => work[p].token # NoToken

Init ==
  /\ file = Empty
  /\ mem = [p \in Process |-> Empty]
  /\ pc = [p \in Process |-> "closed"]
  /\ work = [p \in Process |-> Empty]
  /\ op = [p \in Process |-> "none"]
  /\ started = 0
  /\ codes = [l \in Logins |-> "none"]
  /\ live = {}
  /\ expired = {}
  /\ behind = {}
  /\ stale = FALSE
  /\ unsaved = {}
  /\ lost = 0

-----------------------------------------------------------------------------

GoTo(p, label) == pc' = [pc EXCEPT ![p] = label]
Return(p) ==
  /\ GoTo(p, "idle")
  /\ work' = [work EXCEPT ![p] = Empty]
  /\ op' = [op EXCEPT ![p] = "none"]

\* The file is written by p: every copy is out of date but those p has just
\* made equal to it, and a write that starts from such a copy is stale.
Written(p, fresh, from) ==
  /\ behind' = Copies \ {<<p, copy>> : copy \in fresh}
  /\ stale' = (stale \/ <<p, from>> \in behind)

\* NewService and NewDefaultService load the file once.
Open(p) ==
  /\ pc[p] = "closed"
  /\ GoTo(p, "idle")
  /\ mem' = [mem EXCEPT ![p] = file]
  /\ behind' = behind \ {<<p, "mem">>}
  /\ UNCHANGED <<file, work, op, started, codes, live, expired, stale, unsaved, lost>>

\* ProLoginStart: s.Auth with a new pending login replaces the file.
ProLoginStart(p) ==
  /\ pc[p] = "idle"
  /\ started < MaxLogins
  /\ started' = started + 1
  /\ file' = [mem[p] EXCEPT !.pending = started + 1]
  /\ mem' = [mem EXCEPT ![p] = file']
  /\ Written(p, {"mem"}, "mem")
  /\ UNCHANGED <<pc, work, op, codes, live, expired, unsaved, lost>>

\* Mutant: the copy in memory survives.
LogoutFileOnly(p) ==
  /\ pc[p] = "idle"
  /\ file' = Empty
  /\ mem' = mem
  /\ behind' = Copies \ {<<p, "mem">>}
  /\ UNCHANGED <<pc, work, op, started, codes, live, expired, stale, unsaved, lost>>

ProLogout(p) ==
  /\ pc[p] = "idle"
  /\ file' = Empty
  /\ mem' = [mem EXCEPT ![p] = Empty]
  /\ behind' = Copies \ {<<p, "mem">>}
  /\ UNCHANGED <<pc, work, op, started, codes, live, expired, stale, unsaved, lost>>

-----------------------------------------------------------------------------
(* Login callback.                                                          *)

\* The user signs in in the browser; the URI with the code reaches some process,
\* or several, or one twice.
Authorize(l) ==
  /\ l <= started
  /\ codes[l] = "none"
  /\ codes' = [codes EXCEPT ![l] = "issued"]
  /\ UNCHANGED <<file, mem, pc, work, op, started, live, expired, history>>

\* ProCallback up to the exchange: the pending login is the one in s.Auth.
ProCallback(p, l) ==
  /\ pc[p] = "idle"
  /\ codes[l] # "none"
  /\ mem[p].pending = l
  /\ GoTo(p, "exchange")
  /\ work' = [work EXCEPT ![p] = mem[p]]
  /\ op' = [op EXCEPT ![p] = "callback"]
  /\ behind' = IF <<p, "mem">> \in behind THEN behind \cup {<<p, "work">>}
                                          ELSE behind \ {<<p, "work">>}
  /\ UNCHANGED <<file, mem, started, codes, live, expired, stale, unsaved, lost>>

FirstToken(l) == [login |-> l, refreshes |-> 0]

\* The server accepts a code once.
ExchangeCode(p) ==
  LET l == work[p].pending
  IN  /\ pc[p] = "exchange"
      /\ codes[l] = "issued"
      /\ codes' = [codes EXCEPT ![l] = "spent"]
      /\ live' = live \cup {FirstToken(l)}
      /\ work' = [work EXCEPT ![p] = [token |-> FirstToken(l), pending |-> NoLogin]]
      /\ GoTo(p, "save")
      /\ UNCHANGED <<file, mem, op, started, expired, history>>

-----------------------------------------------------------------------------
(* Refresh, by a Pro call (currentAuth) or for a registry refresh or a      *)
(* package download (authForHTTPRequest, which leaves s.Auth as it is).     *)

RefreshNeeded(auth) == auth.token # NoToken /\ auth.token \in expired

LoadUnchanged(p) ==
  /\ pc[p] = "idle"
  /\ ~RefreshNeeded(file)
  /\ mem' = [mem EXCEPT ![p] = file]
  /\ behind' = behind \ {<<p, "mem">>}
  /\ UNCHANGED <<file, pc, work, op, started, codes, live, expired, stale, unsaved, lost>>

LoadToRefresh(p, caller) ==
  /\ pc[p] = "idle"
  /\ RefreshNeeded(file)
  /\ GoTo(p, "refresh")
  /\ work' = [work EXCEPT ![p] = file]
  /\ op' = [op EXCEPT ![p] = caller]
  /\ behind' = behind \ {<<p, "work">>}
  /\ UNCHANGED <<file, mem, started, codes, live, expired, stale, unsaved, lost>>

NextToken(t) == [t EXCEPT !.refreshes = @ + 1]
PreviousToken(t) == [t EXCEPT !.refreshes = @ - 1]

\* The server takes a refresh token once and answers with its successor.
Rotate(t) == live' = (live \ {t}) \cup {NextToken(t)}

\* Mutant: the refresh token of the answer is not taken over.
RefreshAccessOnly(p) ==
  LET t == work[p].token
  IN  /\ pc[p] = "refresh"
      /\ t \in live
      /\ t.refreshes < MaxRefreshes
      /\ Rotate(t)
      /\ GoTo(p, "save")
      /\ UNCHANGED <<file, mem, work, op, started, codes, expired, history>>

\* Mutant: the state to save is built from the answer alone.
RefreshAnew(p) ==
  LET t == work[p].token
  IN  /\ pc[p] = "refresh"
      /\ t \in live
      /\ t.refreshes < MaxRefreshes
      /\ Rotate(t)
      /\ work' = [work EXCEPT ![p] = [Empty EXCEPT !.token = NextToken(t)]]
      /\ GoTo(p, "save")
      /\ UNCHANGED <<file, mem, op, started, codes, expired, history>>

RefreshAccessToken(p) ==
  LET t == work[p].token
  IN  /\ pc[p] = "refresh"
      /\ t \in live
      /\ t.refreshes < MaxRefreshes
      /\ Rotate(t)
      /\ work' = [work EXCEPT ![p].token = NextToken(t)]
      /\ GoTo(p, "save")
      /\ UNCHANGED <<file, mem, op, started, codes, expired, history>>

-----------------------------------------------------------------------------

\* The request fails, or the server refuses a spent code or token: the caller
\* returns an error and has changed nothing.
RequestFails(p) ==
  /\ pc[p] \in {"exchange", "refresh"}
  /\ Return(p)
  /\ UNCHANGED <<file, mem, started, codes, live, expired, history>>

\* SaveAuth, and s.Auth for every caller but an HTTP request.
SaveAuth(p) ==
  /\ pc[p] = "save"
  /\ file' = work[p]
  /\ mem' = IF op[p] = "request" THEN mem ELSE [mem EXCEPT ![p] = work[p]]
  /\ Written(p, IF op[p] = "request" THEN {} ELSE {"mem"}, "work")
  /\ Return(p)
  /\ UNCHANGED <<started, codes, live, expired, unsaved, lost>>

\* The answer never reaches the file: time-out, failed save, or death before it.
LoseAnswer(p) ==
  /\ pc[p] = "save"
  /\ lost < MaxLost
  /\ lost' = lost + 1
  /\ unsaved' = IF op[p] = "callback" THEN unsaved
                                      ELSE unsaved \cup {PreviousToken(work[p].token)}
  /\ Return(p)
  /\ UNCHANGED <<file, mem, started, codes, live, expired, behind, stale>>

\* The process ends, between calls or in a request; the copy dies with it.
Close(p) ==
  /\ pc[p] \in {"idle", "exchange", "refresh"}
  /\ GoTo(p, "closed")
  /\ mem' = [mem EXCEPT ![p] = Empty]
  /\ work' = [work EXCEPT ![p] = Empty]
  /\ op' = [op EXCEPT ![p] = "none"]
  /\ UNCHANGED <<file, started, codes, live, expired, history>>

\* accessTokenExpiredSoon becomes true of the stored token.
Expire ==
  /\ file.token # NoToken
  /\ file.token \notin expired
  /\ expired' = expired \cup {file.token}
  /\ UNCHANGED <<file, mem, pc, work, op, started, codes, live, history>>

-----------------------------------------------------------------------------

\* What a process does that is running, but for the last step of storing a session.
Call(p) ==
  \/ ProLoginStart(p) \/ ProLogout(p)
  \/ \E l \in Logins : ProCallback(p, l)
  \/ ExchangeCode(p)
  \/ LoadUnchanged(p)
  \/ \E caller \in {"own", "request"} : LoadToRefresh(p, caller)
  \/ RefreshAccessToken(p)
  \/ RequestFails(p) \/ LoseAnswer(p)

Step(p) == Open(p) \/ Close(p) \/ Call(p) \/ SaveAuth(p)

Next ==
  \/ \E p \in Process : Step(p)
  \/ \E l \in Logins : Authorize(l)
  \/ Expire

Spec == Init /\ [][Next]_vars

-----------------------------------------------------------------------------

\* Some process holds the successor of t and is about to store it.
BeingReplaced(t) ==
  \E p \in Process : pc[p] = "save" /\ op[p] # "callback" /\ work[p].token = NextToken(t)

\* The refresh token on disk is one the server accepts, or its successor is on
\* its way to the disk; it is spent for good only if an answer was lost or a
\* copy older than the file was written back.
SessionSurvives ==
  file.token # NoToken /\ ~stale =>
    file.token \in live \cup unsaved \/ BeingReplaced(file.token)

\* The session on disk passes from one login to another, or from none to one,
\* only by a callback of the login that is pending on disk, and to none only by a
\* logout: a callback that comes twice, late or after a logout does not bring a
\* session, nor does one come back by itself, unless a stale copy is written.
SessionChangesHands ==
  [][file'.token.login # file.token.login =>
       \/ stale'
       \/ file' = Empty
       \/ file'.token = FirstToken(file.pending)]_vars

\* A pending login leaves the disk only by its own callback, a logout or a newer
\* login: refreshing the old session meanwhile does not drop it, unless it
\* writes a stale copy.
PendingSurvives ==
  [][file.pending # NoLogin /\ file'.pending # file.pending =>
       \/ stale'
       \/ file' = Empty
       \/ file'.pending > file.pending
       \/ file'.token = FirstToken(file.pending)]_vars
=============================================================================
