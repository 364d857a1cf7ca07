----------------------------- MODULE MutationLock -----------------------------
(***************************************************************************)
(* The lock file every mutating agtx command takes around its work:        *)
(* withMutationLock and staleLock in internal/core/service.go.             *)
(*                                                                         *)
(* Each process is one agtx command (or one request of a long-lived        *)
(* server).  The lock is the file agtx.lock, created with O_CREATE|O_EXCL  *)
(* and removed by path, never by identity: neither the reclaim of a stale  *)
(* file nor the deferred release checks whose file it removes.             *)
(***************************************************************************)
EXTENDS Naturals, FiniteSets

CONSTANTS
  Procs,        \* the processes that run mutating commands
  MaxFailures,  \* bound on crashes and failed opens, over all processes
  MayOverrun    \* TRUE: a mutation may run for longer than stale_lock_ms

ASSUME LockAssumption ==
  /\ "none" \notin Procs
  /\ "gone" \notin Procs
  /\ MaxFailures \in Nat
  /\ MayOverrun \in BOOLEAN

VARIABLES
  pc,           \* pc[p]: where p is in withMutationLock
  creator,      \* who created agtx.lock: a process, "gone" when that process
                \* has died and left the file behind, "none" when no file
  stale,        \* the file's mtime is more than stale_lock_ms in the past
  expired,      \* expired[p]: p's lock_timeout_ms deadline has passed
  failures,     \* crashes and failed opens so far
  compromised   \* history: a lock file was lost while its owner was at work,
                \* because the file outlived stale_lock_ms or because a fresh
                \* file was removed in place of the stale one

lockVars == <<pc, creator, stale, expired, failures, compromised>>

Stages == {"idle", "open", "stat", "reclaim", "sleep", "critical"}

TypeOK ==
  /\ pc \in [Procs -> Stages]
  /\ creator \in Procs \cup {"none", "gone"}
  /\ stale \in BOOLEAN
  /\ expired \in [Procs -> BOOLEAN]
  /\ failures \in 0..MaxFailures
  /\ compromised \in BOOLEAN

Init ==
  /\ pc = [p \in Procs |-> "idle"]
  /\ creator = "none"
  /\ stale = FALSE
  /\ expired = [p \in Procs |-> FALSE]
  /\ failures = 0
  /\ compromised = FALSE

Goto(p, stage) == pc' = [pc EXCEPT ![p] = stage]

(* Broken variants of the steps below: the properties must notice each.     *)

StaleLockNever == FALSE

OpenIgnoresDeadline(p) ==
  /\ pc[p] = "open"
  /\ \/ creator = "none" /\ creator' = p /\ stale' = FALSE /\ Goto(p, "critical")
     \/ creator # "none" /\ Goto(p, "stat") /\ UNCHANGED <<creator, stale>>
  /\ UNCHANGED <<expired, failures, compromised>>

OpenNotExclusive(p) ==
  /\ pc[p] = "open"
  /\ ~expired[p]
  /\ creator' = p /\ stale' = FALSE /\ Goto(p, "critical")
  /\ UNCHANGED <<expired, failures, compromised>>

-----------------------------------------------------------------------------

\* The command starts and computes its deadline.
Begin(p) ==
  /\ pc[p] = "idle"
  /\ Goto(p, "open")
  /\ expired' = [expired EXCEPT ![p] = FALSE]
  /\ UNCHANGED <<creator, stale, failures, compromised>>

\* Before the deadline: the exclusive create succeeds, or the file exists.
Open(p) ==
  /\ pc[p] = "open"
  /\ ~expired[p]
  /\ \/ creator = "none" /\ creator' = p /\ stale' = FALSE /\ Goto(p, "critical")
     \/ creator # "none" /\ Goto(p, "stat") /\ UNCHANGED <<creator, stale>>
  /\ UNCHANGED <<expired, failures, compromised>>

\* OpenFile fails for another reason than an existing file: the error returns.
OpenFails(p) ==
  /\ pc[p] = "open"
  /\ ~expired[p]
  /\ failures < MaxFailures
  /\ failures' = failures + 1
  /\ Goto(p, "idle")
  /\ UNCHANGED <<creator, stale, expired, compromised>>

\* Once the deadline has passed the loop ends and the caller gets lock_busy.
LockBusy(p) ==
  /\ pc[p] = "open"
  /\ expired[p]
  /\ Goto(p, "idle")
  /\ UNCHANGED <<creator, stale, expired, failures, compromised>>

\* staleLock: a missing file is not stale.
StaleLock == creator # "none" /\ stale

Stat(p) ==
  /\ pc[p] = "stat"
  /\ Goto(p, IF StaleLock THEN "reclaim" ELSE "sleep")
  /\ UNCHANGED <<creator, stale, expired, failures, compromised>>

\* os.Remove of whatever file is at the path now, judged by an earlier stat.
Reclaim(p) ==
  /\ pc[p] = "reclaim"
  /\ creator' = "none"
  /\ stale' = FALSE
  /\ compromised' = (compromised \/ (creator # "none" /\ ~stale))
  /\ Goto(p, "open")
  /\ UNCHANGED <<expired, failures>>

\* The 50 ms sleep between attempts.
Wake(p) ==
  /\ pc[p] = "sleep"
  /\ Goto(p, "open")
  /\ UNCHANGED <<creator, stale, expired, failures, compromised>>

\* fn returns and the deferred os.Remove(lockPath) runs, whoever owns the file.
Finish(p) ==
  /\ pc[p] = "critical"
  /\ creator' = "none"
  /\ stale' = FALSE
  /\ Goto(p, "idle")
  /\ UNCHANGED <<expired, failures, compromised>>

\* The process dies: its lock file stays.
Crash(p) ==
  /\ pc[p] # "idle"
  /\ failures < MaxFailures
  /\ failures' = failures + 1
  /\ creator' = IF creator = p THEN "gone" ELSE creator
  /\ Goto(p, "idle")
  /\ UNCHANGED <<stale, expired, compromised>>

-----------------------------------------------------------------------------
(* Time.                                                                   *)

DeadlinePasses(p) ==
  /\ pc[p] \in {"open", "stat", "reclaim", "sleep"}
  /\ ~expired[p]
  /\ expired' = [expired EXCEPT ![p] = TRUE]
  /\ UNCHANGED <<pc, creator, stale, failures, compromised>>

\* A file left by a dead process passes the age of stale_lock_ms.
AbandonedLockAges ==
  /\ creator = "gone"
  /\ ~stale
  /\ stale' = TRUE
  /\ UNCHANGED <<pc, creator, expired, failures, compromised>>

\* A mutation is still at work when its file passes that age: the file's
\* mtime is never refreshed.
HolderOverruns ==
  /\ MayOverrun
  /\ creator \in Procs
  /\ ~stale
  /\ stale' = TRUE
  /\ compromised' = TRUE
  /\ UNCHANGED <<pc, creator, expired, failures>>

-----------------------------------------------------------------------------

Attempt(p) == Open(p) \/ LockBusy(p) \/ Stat(p) \/ Reclaim(p) \/ Wake(p)

LockStep(p) ==
  \/ Begin(p) \/ Attempt(p) \/ OpenFails(p)
  \/ Finish(p) \/ Crash(p) \/ DeadlinePasses(p)

LockNext ==
  \/ \E p \in Procs : LockStep(p)
  \/ AbandonedLockAges
  \/ HolderOverruns

Spec == Init /\ [][LockNext]_lockVars

\* The process runs, the mutation ends (downloads and requests have timeouts),
\* and time passes: a process that goes round the loop meets its deadline.
Fairness ==
  /\ \A p \in Procs :
       /\ WF_lockVars(Attempt(p))
       /\ WF_lockVars(Finish(p))
       /\ WF_lockVars(DeadlinePasses(p))
  /\ WF_lockVars(AbandonedLockAges)

FairSpec == Spec /\ Fairness

\* Commands keep being issued, and lock_timeout_ms (5 s unless configured) does
\* not run out before the first attempt every time.
BusySpec ==
  FairSpec /\ \A p \in Procs : WF_lockVars(Begin(p)) /\ SF_lockVars(Open(p))

-----------------------------------------------------------------------------

\* No two commands are inside withMutationLock's callback at once.
MutualExclusion ==
  \A p, q \in Procs : pc[p] = "critical" /\ pc[q] = "critical" => p = q

\* Crashes, timeouts and reclaims by themselves never let two callbacks
\* overlap: exclusion is lost only after a mutation outlived stale_lock_ms or
\* a waiter that had judged the old file stale removed a newer one.
ExclusionUnlessCompromised == compromised \/ MutualExclusion

\* While nothing of that kind has happened, the command at work owns the lock
\* file and no waiter can judge it stale.
HolderOwnsFile ==
  ~compromised =>
    \A p \in Procs : pc[p] = "critical" => creator = p /\ ~stale

\* A lock file names a process that is at work, or it is one a dead process
\* left: a command that returns never leaves its own file behind.
NoOrphanFile ==
  creator \in Procs => pc[creator] = "critical"

\* Both together: the lock file and the command at work belong to each other.
FileOwned == HolderOwnsFile /\ NoOrphanFile

\* Every call of withMutationLock ends: with the lock, or with lock_busy.
EveryCallReturns ==
  \A p \in Procs : (pc[p] = "open") ~> (pc[p] = "idle")

\* A file left by a crash does not block later commands for ever: as long as
\* commands are issued, one of them reclaims it.
AbandonedLockReclaimed == (creator = "gone") ~> (creator # "gone")
=============================================================================
