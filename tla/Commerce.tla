-------------------------------- MODULE Commerce --------------------------------
(***************************************************************************)
(* Pack installs, skill runs and the records they leave: InstallSkills,    *)
(* installCapabilityPack and billingRecordsForPackInstall                  *)
(* (internal/core/service.go, packs.go), the billing half of               *)
(* RunSkillWithOptions and runBuiltinManifest, recordRunUsage (usage.go).  *)
(*                                                                         *)
(* The lock is taken as exclusive (MutationLock), a ledger is either open  *)
(* or sealed for good (SealedLog, implemented by Ledger), and a skill is   *)
(* the version its pointer names (SkillStore).                             *)
(***************************************************************************)
EXTENDS Naturals, Sequences, FiniteSets

CONSTANTS
  Procs,          \* commands at work at the same time
  Skills,
  Packs,
  PackSkills,     \* PackSkills[k]: the skills of pack k, in install order
  Meters,         \* the billing meters, of every pack and of every run
  MaxVersion,     \* versions 1..MaxVersion; 0 is "not installed"
  MaxCalls,       \* bound on installs and runs
  MaxInterrupts   \* bound on calls that fail or die half way

ASSUME CommerceAssumption ==
  /\ PackSkills \in [Packs -> Seq(Skills)]
  /\ MaxVersion \in Nat \ {0} /\ MaxCalls \in Nat /\ MaxInterrupts \in Nat
  /\ "free" \notin Procs /\ "no_pack" \notin Packs

VARIABLES
  offered,      \* offered[s]: the version in the registry
  installed,    \* installed[s]: the current version
  holder,       \* who holds the mutation lock, "free" when nobody does
  call,         \* call[p]: the call p works on
  calls,        \* ids handed out: RecordID of an install, InvocationID of a run
  records,      \* install-records: [id, pack, status]
  bills,        \* billing-records: [id, meter]
  usage,        \* events the server has accepted: [id, meter]
  sealed,       \* the ledgers that refuse records
  ended,        \* ended[id]: how the call came out
  earned,       \* history: calls with something to bill, see BilledWhenEarned
  interrupts

vars == <<offered, installed, holder, call, calls, records, bills, usage, sealed, ended, earned, interrupts>>
store == <<offered, installed>>
books == <<records, bills, usage>>

NoCall == [stage |-> "idle", id |-> 0, pack |-> "no_pack", skills |-> <<>>, changed |-> FALSE,
           meters |-> {}]

InstallStages == {"skills", "record", "bill"}
RunStages == {"running", "report", "lock", "sign"}
Ledgers == {"install", "billing"}
Events == [id : 1..MaxCalls, meter : Meters]

TypeOK ==
  /\ offered \in [Skills -> 1..MaxVersion]
  /\ installed \in [Skills -> 0..MaxVersion]
  /\ holder \in Procs \cup {"free"}
  /\ \A p \in Procs :
       /\ call[p].stage \in {"idle"} \cup InstallStages \cup RunStages
       /\ call[p].id \in 0..MaxCalls
       /\ call[p].pack \in Packs \cup {"no_pack"}
       /\ call[p].meters \subseteq Meters
  /\ calls \in 0..MaxCalls
  /\ records \subseteq [id : 1..MaxCalls, pack : Packs \cup {"no_pack"}, status : {"installed", "already_installed"}]
  /\ bills \subseteq Events
  /\ usage \subseteq Events
  /\ sealed \subseteq Ledgers
  /\ ended \in [1..MaxCalls -> {"open", "ok", "error"}]
  /\ earned \subseteq 1..MaxCalls
  /\ interrupts \in 0..MaxInterrupts

Init ==
  /\ offered = [s \in Skills |-> 1]
  /\ installed = [s \in Skills |-> 0]
  /\ holder = "free"
  /\ call = [p \in Procs |-> NoCall]
  /\ calls = 0
  /\ records = {} /\ bills = {} /\ usage = {}
  /\ sealed = {}
  /\ ended = [id \in 1..MaxCalls |-> "open"]
  /\ earned = {}
  /\ interrupts = 0

Start(p, c) ==
  /\ call[p].stage = "idle"
  /\ calls < MaxCalls
  /\ calls' = calls + 1
  /\ call' = [call EXCEPT ![p] = [c EXCEPT !.id = calls + 1]]

End(p, how) ==
  /\ call' = [call EXCEPT ![p] = NoCall]
  /\ ended' = [ended EXCEPT ![call[p].id] = how]
  /\ holder' = IF holder = p THEN "free" ELSE holder

Installing == \E p \in Procs : call[p].stage \in InstallStages

-----------------------------------------------------------------------------
(* What others do to the store.                                             *)

\* The registry changes between commands: one command works with what it loaded.
Publish(s, v) ==
  /\ ~Installing
  /\ v # offered[s]
  /\ offered' = [offered EXCEPT ![s] = v]
  /\ UNCHANGED <<installed, holder, call, calls, books, sealed, ended, earned, interrupts>>

\* An upgrade, a rollback or an uninstall: neither records nor bills.
OtherCommand(s, v) ==
  /\ holder = "free"
  /\ installed[s] # 0 /\ v # installed[s]
  /\ installed' = [installed EXCEPT ![s] = v]
  /\ UNCHANGED <<offered, holder, call, calls, books, sealed, ended, earned, interrupts>>

-----------------------------------------------------------------------------
(* Installs.                                                                *)

\* Mutant: an install does not look at the ledgers first.
TakeUngated(p, c) ==
  /\ holder = "free"
  /\ Start(p, c)
  /\ holder' = p
  /\ UNCHANGED <<store, books, sealed, ended, earned, interrupts>>

\* withMutationLock, ensureCommerceLedgersAppendable.  lock_busy and a refusal
\* change nothing.
Take(p, c) ==
  /\ holder = "free"
  /\ sealed = {}
  /\ Start(p, c)
  /\ holder' = p
  /\ UNCHANGED <<store, books, sealed, ended, earned, interrupts>>

BeginPack(p, k) ==
  Take(p, [NoCall EXCEPT !.stage = "skills", !.pack = k, !.skills = PackSkills[k]])

BeginSkill(p, s) ==
  Take(p, [NoCall EXCEPT !.stage = "skills", !.skills = <<s>>])

\* installSkill: already_installed, or the pointer moves to the offered version.
InstallSkill(p) ==
  /\ call[p].stage = "skills"
  /\ call[p].skills # <<>>
  /\ LET s == Head(call[p].skills)
         moved == installed[s] # offered[s]
     IN  /\ installed' = [installed EXCEPT ![s] = offered[s]]
         /\ earned' = IF moved /\ call[p].pack # "no_pack" THEN earned \cup {call[p].id} ELSE earned
         /\ call' = [call EXCEPT ![p].skills = Tail(@),
                                 ![p].changed = @ \/ moved,
                                 ![p].stage = IF Len(call[p].skills) = 1 THEN "record" ELSE "skills"]
  /\ UNCHANGED <<offered, holder, calls, books, sealed, ended, interrupts>>

\* Mutant: a pack that was already there counts as installed.
StatusAlwaysInstalled(p) == "installed"

\* installRecordForPack: already_installed when no skill was touched.
InstallStatus(p) == IF call[p].changed THEN "installed" ELSE "already_installed"

\* A pack is always recorded, a single skill only when it was installed.
Record(p) ==
  /\ call[p].stage = "record"
  /\ IF call[p].pack # "no_pack" \/ call[p].changed
     THEN records' = records \cup {[id |-> call[p].id, pack |-> call[p].pack, status |-> InstallStatus(p)]}
     ELSE UNCHANGED records
  /\ IF call[p].pack # "no_pack" /\ InstallStatus(p) = "installed" /\ Meters # {}
     THEN /\ call' = [call EXCEPT ![p].stage = "bill", ![p].meters = Meters]
          /\ UNCHANGED <<ended, holder>>
     ELSE End(p, "ok")
  /\ UNCHANGED <<store, calls, bills, usage, sealed, earned, interrupts>>

\* Mutant: the last meter is dropped.
BillButOne(p) ==
  \E meter \in call[p].meters :
    /\ bills' = bills \cup {[id |-> call[p].id, meter |-> meter]}
    /\ IF Cardinality(call[p].meters) <= 2
       THEN End(p, "ok")
       ELSE call' = [call EXCEPT ![p].meters = @ \ {meter}] /\ UNCHANGED <<ended, holder>>

\* One signed record per meter; the call ends after the last.
BillNext(p) ==
  \E meter \in call[p].meters :
    /\ bills' = bills \cup {[id |-> call[p].id, meter |-> meter]}
    /\ IF call[p].meters = {meter}
       THEN End(p, "ok")
       ELSE call' = [call EXCEPT ![p].meters = @ \ {meter}] /\ UNCHANGED <<ended, holder>>

BillPack(p) ==
  /\ call[p].stage = "bill"
  /\ "billing" \notin sealed
  /\ BillNext(p)
  /\ UNCHANGED <<store, calls, records, usage, sealed, earned, interrupts>>

-----------------------------------------------------------------------------
(* Runs.                                                                    *)

BeginRun(p) ==
  /\ Start(p, [NoCall EXCEPT !.stage = "running"])
  /\ UNCHANGED <<store, holder, books, sealed, ended, earned, interrupts>>

\* The executable fails, times out or exits non-zero: no usage is reported.
RunFails(p) ==
  /\ call[p].stage = "running"
  /\ End(p, "error")
  /\ UNCHANGED <<store, calls, books, sealed, earned, interrupts>>

RunSucceeds(p) ==
  /\ call[p].stage = "running"
  /\ earned' = earned \cup {call[p].id}
  /\ IF Meters = {} THEN End(p, "ok")
     ELSE /\ call' = [call EXCEPT ![p].stage = "report", ![p].meters = Meters]
          /\ UNCHANGED <<ended, holder>>
  /\ UNCHANGED <<store, calls, books, sealed, interrupts>>

\* recordRunUsage posts one event per meter, before any lock is taken.  An error
\* only marks the event report_failed; the server may have accepted it.
Report(p, meter) ==
  /\ call[p].stage = "report"
  /\ meter \in call[p].meters
  /\ usage' \in {usage, usage \cup {[id |-> call[p].id, meter |-> meter]}}
  /\ call' = [call EXCEPT ![p].meters = IF @ = {meter} THEN Meters ELSE @ \ {meter},
                          ![p].stage = IF call[p].meters = {meter} THEN "lock" ELSE "report"]
  /\ UNCHANGED <<store, holder, calls, records, bills, sealed, ended, earned, interrupts>>

LockForBilling(p) ==
  /\ call[p].stage = "lock"
  /\ holder = "free"
  /\ holder' = p
  /\ call' = [call EXCEPT ![p].stage = "sign"]
  /\ UNCHANGED <<store, calls, books, sealed, ended, earned, interrupts>>

\* lock_busy: the run, which succeeded, returns an error.
BillingLockBusy(p) ==
  /\ call[p].stage = "lock"
  /\ holder # "free"
  /\ End(p, "error")
  /\ UNCHANGED <<store, calls, books, sealed, earned, interrupts>>

SignUsage(p) ==
  /\ call[p].stage = "sign"
  /\ "billing" \notin sealed
  /\ BillNext(p)
  /\ UNCHANGED <<store, calls, records, usage, sealed, earned, interrupts>>

UsageRefused(p) ==
  /\ call[p].stage = "sign"
  /\ "billing" \in sealed
  /\ End(p, "error")
  /\ UNCHANGED <<store, calls, books, sealed, earned, interrupts>>

-----------------------------------------------------------------------------

\* A call fails or its process dies.  In the middle of an append the ledger may
\* be left sealed, with or without the record.
Interrupt(p) ==
  /\ call[p].stage # "idle"
  /\ interrupts < MaxInterrupts
  /\ interrupts' = interrupts + 1
  /\ \/ UNCHANGED <<records, bills, sealed>>
     \/ /\ call[p].stage = "record"
        /\ sealed' \in {sealed, sealed \cup {"install"}}
        /\ records' = records \cup {[id |-> call[p].id, pack |-> call[p].pack, status |-> InstallStatus(p)]}
        /\ UNCHANGED bills
     \/ /\ call[p].stage \in {"bill", "sign"}
        /\ "billing" \notin sealed
        /\ sealed' \in {sealed, sealed \cup {"billing"}}
        /\ \E meter \in call[p].meters : bills' = bills \cup {[id |-> call[p].id, meter |-> meter]}
        /\ UNCHANGED records
  /\ End(p, "error")
  /\ UNCHANGED <<store, calls, usage, earned>>

Next ==
  \/ \E s \in Skills, v \in 1..MaxVersion : Publish(s, v)
  \/ \E s \in Skills, v \in 0..MaxVersion : OtherCommand(s, v)
  \/ \E p \in Procs :
       \/ \E k \in Packs : BeginPack(p, k)
       \/ \E s \in Skills : BeginSkill(p, s)
       \/ InstallSkill(p) \/ Record(p) \/ BillPack(p)
       \/ BeginRun(p) \/ RunFails(p) \/ RunSucceeds(p)
       \/ \E meter \in Meters : Report(p, meter)
       \/ LockForBilling(p) \/ BillingLockBusy(p) \/ SignUsage(p) \/ UsageRefused(p)
       \/ Interrupt(p)

Spec == Init /\ [][Next]_vars

-----------------------------------------------------------------------------

\* A pack install that moved no skill, and a run that did not succeed, bill
\* nothing; every bill of a pack follows its signed install record.
BilledWhenEarned ==
  /\ \A e \in bills \cup usage : e.id \in earned
  /\ \A r \in records : r.status = "already_installed" => \A b \in bills : b.id # r.id
  /\ \A p \in Procs : call[p].stage \in {"skills", "record"} => \A b \in bills : b.id # call[p].id

\* A pack install or a run that reports success has billed every meter for what
\* it did, whatever other commands did meanwhile.
SuccessIsBilled ==
  \A id \in earned, meter \in Meters : ended[id] = "ok" => [id |-> id, meter |-> meter] \in bills

\* The check of the ledgers at the start of an install still holds at its last
\* step: no skill is installed while a ledger refuses records.
GateHoldsThroughout ==
  [][holder # "free" /\ installed' # installed => sealed = {}]_vars
=============================================================================
