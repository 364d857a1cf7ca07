------------------------------- MODULE SkillStore -------------------------------
(***************************************************************************)
(* The directory of one installed skill: a directory per version, the      *)
(* `current' pointer, and the commands that work on them.  InstallSkills,  *)
(* UpgradeSkills, RollbackSkill, UninstallSkill, RunSkillWithOptions and   *)
(* the helpers under them in internal/core/service.go.                     *)
(*                                                                         *)
(* Install, upgrade, rollback and uninstall hold the mutation lock, so one *)
(* of them works at a time; `run' takes no lock and sees every             *)
(* intermediate state.  A step that fails ends the command; the death of   *)
(* the process also leaves what the command had not cleaned up.            *)
(***************************************************************************)
EXTENDS Naturals, FiniteSets, FiniteSetsExt

CONSTANTS
  MaxVersion,     \* the registry offers versions 1..MaxVersion over time
  MaxInterrupts   \* bound on failed and killed commands

ASSUME StoreAssumption ==
  /\ MaxVersion \in Nat \ {0}
  /\ MaxInterrupts \in Nat

VARIABLES
  dirs,        \* what is under the name of each directory entry, see Contents
  current,     \* the entry the pointer names, NoEntry when there is no pointer
  offered,     \* the version in the registry the commands load
  stage,       \* where the command at work is
  target,      \* the version it installs
  targets,     \* the entries it still has to remove
  cut,         \* history: the kinds of command interrupted so far
  interrupts,
  reader,      \* where `run' is
  got,         \* the version `run' took from the pointer
  disturbed    \* history: an uninstall was at work since `run' began

storeVars == <<dirs, current, offered, stage, target, targets, cut, interrupts>>
readerVars == <<reader, got, disturbed>>
vars == <<storeVars, readerVars>>

-----------------------------------------------------------------------------
(* Entries.  materializeSkill builds version v in `.v.tmp-*' beside it.     *)
(* installedVersions lists both, and compareVersion puts the temporary name *)
(* just before v: v has the even number, its temporary directory the odd    *)
(* one below.                                                               *)

NoEntry == 0
VersionDir(v) == 2 * v
TempDir(v) == 2 * v - 1
Versions == 1..MaxVersion
Entries == 1..VersionDir(MaxVersion)

\* validatePathSegment accepts a version and rejects a leading dot.
ValidSegment(entry) == entry % 2 = 0

\* hollow: the manifest is there, other files of the package are gone.
\* stripped: there are files but no manifest.
Contents == {"absent", "whole", "hollow", "stripped"}
HasManifest(entry) == dirs[entry] \in {"whole", "hollow"}

InstalledVersions == {entry \in Entries : HasManifest(entry)}

\* currentVersion returns a version rather than not_installed or
\* invalid_argument.
CurrentReadable == current # NoEntry /\ ValidSegment(current)

Stages == {"idle", "unpack", "rename", "point", "remove", "settle"}
Uninstalling == stage \in {"remove", "settle"}

TypeOK ==
  /\ dirs \in [Entries -> Contents]
  /\ current \in Entries \cup {NoEntry}
  /\ offered \in Versions
  /\ stage \in Stages
  /\ target \in Versions
  /\ targets \in SUBSET Entries
  /\ cut \in SUBSET {"install", "uninstall"}
  /\ interrupts \in 0..MaxInterrupts
  /\ reader \in {"idle", "pointed", "loaded", "failed"}
  /\ got \in Entries \cup {NoEntry}
  /\ disturbed \in BOOLEAN

Init ==
  /\ dirs = [entry \in Entries |-> "absent"]
  /\ current = NoEntry
  /\ offered \in Versions
  /\ stage = "idle"
  /\ target = 1
  /\ targets = {}
  /\ cut = {}
  /\ interrupts = 0
  /\ reader = "idle"
  /\ got = NoEntry
  /\ disturbed = FALSE

-----------------------------------------------------------------------------
(* Install and upgrade.                                                     *)

\* A registry refresh, or a command that loads another overlay.
Publish(v) ==
  /\ stage = "idle"
  /\ v # offered
  /\ offered' = v
  /\ UNCHANGED <<dirs, current, stage, target, targets, cut, interrupts>>

\* Mutant: the version directory is rebuilt whether or not it is there.
StartInstallAfresh ==
  /\ stage = "idle"
  /\ current # VersionDir(offered)
  /\ target' = offered
  /\ stage' = "unpack"
  /\ dirs' = [dirs EXCEPT ![VersionDir(offered)] = "absent"]
  /\ UNCHANGED <<current, offered, targets, cut, interrupts>>

\* installSkill: the error of currentVersion is dropped; with the offered version
\* current nothing changes (already_installed).  A directory without a manifest
\* is cleared, one with a manifest is used as it is.
StartInstall ==
  /\ stage = "idle"
  /\ current # VersionDir(offered)
  /\ target' = offered
  /\ \/ /\ HasManifest(VersionDir(offered))
        /\ stage' = "point"
        /\ UNCHANGED dirs
     \/ /\ ~HasManifest(VersionDir(offered))
        /\ stage' = "unpack"
        /\ dirs' = [dirs EXCEPT ![VersionDir(offered)] = "absent"]
  /\ UNCHANGED <<current, offered, targets, cut, interrupts>>

\* UpgradeSkills insists on a readable pointer, skips a skill that is current,
\* and installs.
StartUpgrade == CurrentReadable /\ StartInstall

\* Mutant: the pointer is written before the package is in place.
PointBeforeRename ==
  /\ stage = "unpack"
  /\ stage' = "rename"
  /\ current' = VersionDir(target)
  /\ UNCHANGED <<dirs, offered, target, targets, cut, interrupts>>

\* Download, verify, extract and write the manifest, all in the temporary
\* directory, which no command looks at while this one holds the lock.
Unpack ==
  /\ stage = "unpack"
  /\ stage' = "rename"
  /\ UNCHANGED <<dirs, current, offered, target, targets, cut, interrupts>>

Rename ==
  /\ stage = "rename"
  /\ dirs' = [dirs EXCEPT ![VersionDir(target)] = "whole"]
  /\ stage' = "point"
  /\ UNCHANGED <<current, offered, target, targets, cut, interrupts>>

Point ==
  /\ stage = "point"
  /\ current' = VersionDir(target)
  /\ stage' = "idle"
  /\ UNCHANGED <<dirs, offered, target, targets, cut, interrupts>>

-----------------------------------------------------------------------------
(* Rollback: with no version given, the highest installed one that is not   *)
(* current; without such a version, no_rollback_target and no change.       *)

RollbackTargets ==
  LET others == InstalledVersions \ {current}
  IN  {entry \in InstalledVersions : ValidSegment(entry)}   \* named by the user
        \cup (IF others = {} THEN {} ELSE {Max(others)})    \* the default

Rollback ==
  /\ stage = "idle"
  /\ CurrentReadable
  /\ current' \in RollbackTargets
  /\ UNCHANGED <<dirs, offered, stage, target, targets, cut, interrupts>>

-----------------------------------------------------------------------------
(* Uninstall: the current version, or with --all every listed one.          *)

StartUninstall(all) ==
  /\ stage = "idle"
  /\ CurrentReadable
  /\ targets' = IF all THEN InstalledVersions ELSE {current}
  /\ stage' = "remove"
  /\ UNCHANGED <<dirs, current, offered, target, cut, interrupts>>

RemoveAll ==
  /\ stage = "remove"
  /\ targets # {}
  /\ \E entry \in targets :
       /\ dirs' = [dirs EXCEPT ![entry] = "absent"]
       /\ targets' = targets \ {entry}
  /\ UNCHANGED <<current, offered, stage, target, cut, interrupts>>

Removed ==
  /\ stage = "remove"
  /\ targets = {}
  /\ stage' = "settle"
  /\ UNCHANGED <<dirs, current, offered, target, targets, cut, interrupts>>

\* The highest remaining version; the second highest, should that be current.
NextCurrent ==
  LET top == Max(InstalledVersions)
  IN  IF top = current /\ InstalledVersions # {top} THEN Max(InstalledVersions \ {top}) ELSE top

\* Mutant: the pointer is left alone.
SettleWithoutPointer ==
  /\ stage = "settle"
  /\ UNCHANGED <<current, dirs>>
  /\ stage' = "idle"
  /\ UNCHANGED <<offered, target, targets, cut, interrupts>>

Settle ==
  /\ stage = "settle"
  /\ \/ /\ InstalledVersions = {}
        /\ current' = NoEntry
        /\ dirs' = [entry \in Entries |-> "absent"]
     \/ /\ InstalledVersions # {}
        /\ current' = NextCurrent
        /\ UNCHANGED dirs
  /\ stage' = "idle"
  /\ UNCHANGED <<offered, target, targets, cut, interrupts>>

-----------------------------------------------------------------------------
(* Interruptions.                                                           *)

\* What is left behind: by an install killed before the rename, its temporary
\* directory; by a removal that stopped, an entry with some of its files gone.
Leftovers ==
  \/ UNCHANGED <<dirs, current>>
  \/ /\ stage = "rename"
     /\ dirs' = [dirs EXCEPT ![TempDir(target)] = "whole"]
     /\ UNCHANGED current
  \/ /\ stage = "remove"
     /\ \E entry \in targets, rest \in {"hollow", "stripped"} :
          HasManifest(entry) /\ dirs' = [dirs EXCEPT ![entry] = rest]
     /\ UNCHANGED current
  \/ /\ stage = "settle"
     /\ InstalledVersions = {}
     /\ current' = NoEntry
     /\ UNCHANGED dirs

Interrupt ==
  /\ stage # "idle"
  /\ interrupts < MaxInterrupts
  /\ interrupts' = interrupts + 1
  /\ Leftovers
  /\ cut' = cut \cup {IF Uninstalling THEN "uninstall" ELSE "install"}
  /\ stage' = "idle"
  /\ targets' = {}
  /\ UNCHANGED <<offered, target>>

-----------------------------------------------------------------------------
(* A run: pointer, manifest, executable.                                    *)

ReadPointer ==
  /\ reader = "idle"
  /\ CurrentReadable
  /\ got' = current
  /\ reader' = "pointed"
  /\ disturbed' = Uninstalling

ReadManifest ==
  /\ reader = "pointed"
  /\ reader' = IF HasManifest(got) THEN "loaded" ELSE "failed"
  /\ UNCHANGED <<got, disturbed>>

RunExecutable ==
  /\ reader = "loaded"
  /\ reader' = IF dirs[got] = "whole" THEN "idle" ELSE "failed"
  /\ UNCHANGED <<got, disturbed>>

RunAgain ==
  /\ reader = "failed"
  /\ reader' = "idle"
  /\ UNCHANGED <<got, disturbed>>

-----------------------------------------------------------------------------

Command ==
  \/ \E v \in Versions : Publish(v)
  \/ StartInstall \/ StartUpgrade
  \/ Unpack \/ Rename \/ Point
  \/ Rollback
  \/ \E all \in BOOLEAN : StartUninstall(all)
  \/ RemoveAll \/ Removed \/ Settle
  \/ Interrupt

ReaderStep == ReadPointer \/ ReadManifest \/ RunExecutable \/ RunAgain

Next ==
  \/ Command /\ disturbed' = (disturbed \/ Uninstalling \/ Uninstalling')
             /\ UNCHANGED <<reader, got>>
  \/ ReaderStep /\ UNCHANGED storeVars

Spec == Init /\ [][Next]_vars

-----------------------------------------------------------------------------

\* Between commands none of which was interrupted, the pointer exists exactly
\* when some version is installed, and names one with all its files.  It becomes
\* unreadable only where an install was killed and a later rollback or uninstall
\* took its temporary directory for a version.
PointerMatchesInstalled ==
  /\ stage = "idle" /\ cut = {} =>
       /\ (current = NoEntry) = (InstalledVersions = {})
       /\ current # NoEntry => dirs[current] = "whole"
  /\ current # NoEntry /\ ~ValidSegment(current) => "install" \in cut

\* Only an uninstall, at work or interrupted, takes the current version away:
\* install, upgrade and rollback move the pointer between whole versions
\* wherever they stop.
OnlyUninstallBreaksCurrent ==
  current # NoEntry /\ dirs[current] # "whole" => Uninstalling \/ "uninstall" \in cut

\* A run that found a version to run fails to load or start it only because an
\* uninstall went on at the same time or had been interrupted before: installs,
\* upgrades and rollbacks beside it do not matter.
RunSurvivesMutations ==
  reader = "failed" => disturbed \/ "uninstall" \in cut

\* service.go, currentVersion: what is read from the pointer must be a valid
\* version segment; so no command should write one that is not.
PointerIsVersion == current # NoEntry => ValidSegment(current)
=============================================================================
