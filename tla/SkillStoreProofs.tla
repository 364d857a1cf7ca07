--------------------------- MODULE SkillStoreProofs ---------------------------
(***************************************************************************)
(* Proofs about SkillStore, for any number of versions and interruptions.  *)
(***************************************************************************)
EXTENDS SkillStore, WellFoundedInduction, TLAPS

\* The maximum that rollback and uninstall choose exists: the differences to the
\* upper bound have a least element.
LEMMA MaxExists ==
  ASSUME NEW n \in Nat, NEW S \in SUBSET (1..n), S # {}
  PROVE  Max(S) \in S
<1> DEFINE R == OpToRel(<, Nat)
           T == {n - e : e \in S}
<1>1. IsWellFoundedOn(R, Nat)
  BY NatLessThanWellFounded
<1>2. T \subseteq Nat /\ T # {}
  <2>1. \A e \in S : n - e \in Nat
    OBVIOUS
  <2>2. PICK e \in S : TRUE
    OBVIOUS
  <2>3. QED BY <2>1, <2>2, Zenon
<1>3. PICK x \in T : \A y \in T : ~(<<y, x>> \in R)
  <2> HIDE DEF R, T
  <2> QED BY <1>1, <1>2, WFMin
<1>4. \A y \in T : ~(y < x)
  BY <1>2, <1>3 DEF OpToRel
<1>5. PICK m \in S : x = n - m
  BY <1>3
<1>6. \A y \in S : m >= y
  BY <1>4, <1>5
<1>7. QED BY <1>5, <1>6 DEF Max

\* Every version has its two entries, and only its own is a valid version.
LEMMA EntryFacts ==
  ASSUME NEW v \in Versions
  PROVE  /\ VersionDir(v) \in Entries /\ TempDir(v) \in Entries
         /\ ValidSegment(VersionDir(v)) /\ VersionDir(v) # NoEntry
  BY StoreAssumption DEF StoreAssumption, Versions, Entries, VersionDir, TempDir, ValidSegment, NoEntry

LEMMA MaxOfEntries ==
  ASSUME NEW S \in SUBSET Entries, S # {}
  PROVE  Max(S) \in S
<1>1. VersionDir(MaxVersion) \in Nat
  BY StoreAssumption DEF StoreAssumption, VersionDir
<1>2. QED BY <1>1, MaxExists DEF Entries

\* What a rollback or an uninstall makes current is listed as installed.
LEMMA ChoicesAreInstalled ==
  /\ RollbackTargets \subseteq InstalledVersions
  /\ InstalledVersions # {} => NextCurrent \in InstalledVersions
<1>1. InstalledVersions \subseteq Entries
  BY DEF InstalledVersions
<1>2. ASSUME InstalledVersions \ {current} # {}
      PROVE  Max(InstalledVersions \ {current}) \in InstalledVersions
  BY <1>1, <1>2, MaxOfEntries
<1>3. ASSUME InstalledVersions # {} PROVE NextCurrent \in InstalledVersions
  <2> DEFINE top == Max(InstalledVersions)
  <2>1. top \in InstalledVersions
    BY <1>1, <1>3, MaxOfEntries
  <2>2. InstalledVersions # {top} => Max(InstalledVersions \ {top}) \in InstalledVersions
    <3>1. InstalledVersions # {top} => InstalledVersions \ {top} # {}
      BY <2>1
    <3>2. QED BY <1>1, <3>1, MaxOfEntries
  <2>3. QED BY <2>1, <2>2 DEF NextCurrent
<1>4. QED BY <1>2, <1>3 DEF RollbackTargets

-----------------------------------------------------------------------------
(* Types.                                                                   *)

StoreTyped ==
  /\ dirs \in [Entries -> Contents] /\ current \in Entries \cup {NoEntry} /\ offered \in Versions
  /\ stage \in Stages /\ target \in Versions /\ targets \in SUBSET Entries
  /\ cut \in SUBSET {"install", "uninstall"} /\ interrupts \in 0..MaxInterrupts

LEMMA LeftoversTyped ==
  ASSUME StoreTyped, Leftovers
  PROVE  dirs' \in [Entries -> Contents] /\ current' \in Entries \cup {NoEntry}
<1>1. TempDir(target) \in Entries
  BY EntryFacts DEF StoreTyped
<1>2. QED BY <1>1 DEF Leftovers, StoreTyped, Contents

LEMMA CommandTyped == ASSUME StoreTyped, Command PROVE StoreTyped'
<1> USE DEF StoreTyped, Stages, Contents
<1>1. /\ VersionDir(offered) \in Entries /\ VersionDir(target) \in Entries
  BY EntryFacts
<1>2. InstalledVersions \in SUBSET Entries
  BY DEF InstalledVersions
<1>3. ASSUME NEW v \in Versions, Publish(v) PROVE StoreTyped'
  BY <1>3 DEF Publish
<1>4. CASE StartInstall \/ StartUpgrade
  BY <1>1, <1>4 DEF StartInstall, StartUpgrade
<1>5. CASE Unpack BY <1>5 DEF Unpack
<1>6. CASE Rename BY <1>1, <1>6 DEF Rename
<1>7. CASE Point BY <1>1, <1>7 DEF Point
<1>8. CASE Rollback
  <2>1. current' \in Entries
    BY <1>2, <1>8, ChoicesAreInstalled DEF Rollback
  <2>2. QED BY <1>8, <2>1 DEF Rollback
<1>9. ASSUME NEW all \in BOOLEAN, StartUninstall(all) PROVE StoreTyped'
  <2>1. targets' \in SUBSET Entries
    BY <1>2, <1>9 DEF StartUninstall, CurrentReadable
  <2>2. QED BY <1>9, <2>1 DEF StartUninstall
<1>10. CASE RemoveAll BY <1>10 DEF RemoveAll
<1>11. CASE Removed BY <1>11 DEF Removed
<1>12. CASE Settle
  <2>1. current' \in Entries \cup {NoEntry}
    BY <1>2, <1>12, ChoicesAreInstalled DEF Settle
  <2>2. QED BY <1>12, <2>1 DEF Settle
<1>13. CASE Interrupt
  <2>1. interrupts' \in 0..MaxInterrupts
    BY <1>13, StoreAssumption DEF Interrupt, StoreAssumption
  <2>2. QED BY <1>13, <2>1, LeftoversTyped DEF Interrupt
<1>14. QED
  BY <1>3, <1>4, <1>5, <1>6, <1>7, <1>8, <1>9, <1>10, <1>11, <1>12, <1>13 DEF Command

LEMMA ReaderTyped ==
  ASSUME TypeOK, ReaderStep, UNCHANGED storeVars
  PROVE  TypeOK'
<1>1. reader' \in {"idle", "pointed", "loaded", "failed"} /\ got' \in Entries \cup {NoEntry}
  BY DEF TypeOK, ReaderStep, ReadPointer, ReadManifest, RunExecutable, RunAgain
<1>2. disturbed' = Uninstalling \/ disturbed' = disturbed
  BY DEF ReaderStep, ReadPointer, ReadManifest, RunExecutable, RunAgain
<1>3. disturbed' \in BOOLEAN
  <2>1. Uninstalling \in BOOLEAN
    BY DEF Uninstalling
  <2>2. disturbed \in BOOLEAN
    BY DEF TypeOK
  <2>3. QED BY <1>2, <2>1, <2>2, Zenon
<1>4. QED BY <1>1, <1>3 DEF TypeOK, storeVars

LEMMA StepTyped == TypeOK /\ [Next]_vars => TypeOK'
<1> SUFFICES ASSUME TypeOK, [Next]_vars PROVE TypeOK'
  OBVIOUS
<1>1. CASE Command /\ disturbed' = (disturbed \/ Uninstalling \/ Uninstalling') /\ UNCHANGED <<reader, got>>
  <2>1. StoreTyped'
    BY <1>1, CommandTyped DEF StoreTyped, TypeOK
  <2>2. QED BY <1>1, <2>1 DEF StoreTyped, TypeOK
<1>2. CASE ReaderStep /\ UNCHANGED storeVars
  BY <1>2, ReaderTyped
<1>3. CASE UNCHANGED vars
  BY <1>3 DEF TypeOK, vars, storeVars, readerVars
<1>4. QED BY <1>1, <1>2, <1>3 DEF Next

LEMMA InitTyped == Init => TypeOK
<1> SUFFICES ASSUME Init PROVE TypeOK
  OBVIOUS
<1>1. target \in Versions /\ interrupts \in 0..MaxInterrupts
  BY StoreAssumption DEF Init, StoreAssumption, Versions
<1>2. QED BY <1>1, Zenon DEF Init, TypeOK, Contents, Stages

\* Entries, pointer, the command at work and the reader keep their types.
THEOREM TypeCorrect == Spec => []TypeOK
  BY InitTyped, StepTyped, PTL DEF Spec

-----------------------------------------------------------------------------
(* The pointer.                                                             *)

\* Files are only missing from a package after an interrupted uninstall, and temporary
\* directories only lie about after an interrupted install.
WholeUnlessCut == "uninstall" \notin cut => \A e \in Entries : dirs[e] \in {"absent", "whole"}
TidyUnlessCut == "install" \notin cut => \A e \in Entries : dirs[e] # "absent" => ValidSegment(e)

\* An install points to what has a manifest.
PointsToPackage == stage = "point" => HasManifest(VersionDir(target))

PointerIsVersionUnlessCut == current # NoEntry /\ ~ValidSegment(current) => "install" \in cut

\* Where no command is between the change of a directory and that of the pointer, and
\* none was cut there, there is a pointer when there is a version.
PointerExists ==
  stage \in {"idle", "unpack", "rename"} /\ cut = {} => (current = NoEntry <=> InstalledVersions = {})

DirsInv == WholeUnlessCut /\ TidyUnlessCut /\ PointsToPackage
PointerInv == OnlyUninstallBreaksCurrent /\ PointerIsVersionUnlessCut /\ PointerExists
StoreInv == DirsInv /\ PointerInv

LEMMA CommandKeepsDirs ==
  ASSUME StoreTyped, DirsInv, Command
  PROVE  DirsInv'
<1> USE DEF DirsInv, WholeUnlessCut, TidyUnlessCut, PointsToPackage, HasManifest, StoreTyped, Stages
<1>1. /\ VersionDir(target) \in Entries /\ ValidSegment(VersionDir(target))
      /\ VersionDir(offered) \in Entries /\ TempDir(target) \in Entries
  BY EntryFacts
<1>2. ASSUME NEW v \in Versions, Publish(v) PROVE DirsInv'
  BY <1>2 DEF Publish
<1>3. CASE StartInstall \/ StartUpgrade
  BY <1>1, <1>3 DEF StartInstall, StartUpgrade
<1>4. CASE Unpack BY <1>4 DEF Unpack
<1>5. CASE Rename BY <1>1, <1>5 DEF Rename
<1>6. CASE Point BY <1>6 DEF Point
<1>7. CASE Rollback BY <1>7 DEF Rollback
<1>8. ASSUME NEW all \in BOOLEAN, StartUninstall(all) PROVE DirsInv'
  BY <1>8 DEF StartUninstall
<1>9. CASE RemoveAll BY <1>9 DEF RemoveAll
<1>10. CASE Removed BY <1>10 DEF Removed
<1>11. CASE Settle BY <1>11 DEF Settle
<1>12. CASE Interrupt
  <2>1. stage' = "idle" /\ cut \subseteq cut'
    BY <1>12 DEF Interrupt
  <2>2. dirs' = dirs \/ (stage = "rename" /\ dirs' = [dirs EXCEPT ![TempDir(target)] = "whole"]) \/ stage = "remove"
    BY <1>12 DEF Interrupt, Leftovers
  <2>3. stage = "rename" => "install" \in cut'
    BY <1>12 DEF Interrupt, Uninstalling
  <2>4. CASE stage = "remove"
    <3>1. "uninstall" \in cut'
      BY <1>12, <2>4 DEF Interrupt, Uninstalling
    <3>2. \A e \in Entries : dirs'[e] # "absent" => dirs[e] # "absent"
      BY <1>12, <2>4 DEF Interrupt, Leftovers
    <3>3. QED BY <2>1, <3>1, <3>2
  <2>5. CASE dirs' = dirs
    BY <2>1, <2>5
  <2>6. CASE stage = "rename" /\ dirs' = [dirs EXCEPT ![TempDir(target)] = "whole"]
    BY <1>1, <2>1, <2>3, <2>6
  <2>7. QED BY <2>2, <2>4, <2>5, <2>6
<1>13. QED
  BY <1>2, <1>3, <1>4, <1>5, <1>6, <1>7, <1>8, <1>9, <1>10, <1>11, <1>12 DEF Command

\* A pointer set to what is listed is right, unless something was cut before.
LEMMA ListedIsRight ==
  ASSUME StoreTyped, DirsInv, current' \in InstalledVersions, UNCHANGED <<dirs, cut>>
  PROVE  PointerInv'
<1>1. /\ current' \in Entries /\ dirs[current'] \in {"whole", "hollow"}
      /\ InstalledVersions' = InstalledVersions
  BY DEF InstalledVersions, HasManifest
<1>2. OnlyUninstallBreaksCurrent'
  BY <1>1 DEF OnlyUninstallBreaksCurrent, DirsInv, WholeUnlessCut
<1>3. PointerIsVersionUnlessCut'
  BY <1>1 DEF PointerIsVersionUnlessCut, DirsInv, TidyUnlessCut, ValidSegment
<1>4. current' # NoEntry
  BY <1>1 DEF Entries, NoEntry
<1>5. PointerExists'
  BY <1>1, <1>4 DEF PointerExists
<1>6. QED BY <1>2, <1>3, <1>5 DEF PointerInv

LEMMA CommandKeepsPointer ==
  ASSUME StoreTyped, StoreInv, Command
  PROVE  PointerInv'
<1> USE DEF StoreInv, StoreTyped
<1>1. /\ VersionDir(target) \in Entries /\ VersionDir(offered) \in Entries
      /\ VersionDir(target) # NoEntry
  BY EntryFacts
<1>a. ASSUME UNCHANGED <<dirs, current, cut>>, stage \in {"idle", "unpack", "rename"} \/ stage' \notin {"idle", "unpack", "rename"},
             Uninstalling => Uninstalling'
      PROVE  PointerInv'
  BY <1>a
  DEF PointerInv, OnlyUninstallBreaksCurrent, PointerIsVersionUnlessCut, PointerExists, InstalledVersions, HasManifest,
      ValidSegment
<1>2. ASSUME NEW v \in Versions, Publish(v) PROVE PointerInv'
  BY <1>2, <1>a DEF Publish, Uninstalling
<1>3. CASE StartInstall \/ StartUpgrade
  <2>1. CASE UNCHANGED dirs
    BY <1>3, <1>a, <2>1 DEF StartInstall, StartUpgrade, Uninstalling
  <2>2. CASE ~HasManifest(VersionDir(offered)) /\ dirs' = [dirs EXCEPT ![VersionDir(offered)] = "absent"]
    <3>1. InstalledVersions' = InstalledVersions
      BY <1>1, <2>2 DEF InstalledVersions, HasManifest
    <3>2. current' = current /\ cut' = cut /\ stage = "idle" /\ current # VersionDir(offered)
      BY <1>3 DEF StartInstall, StartUpgrade
    <3>3. QED
      BY <1>1, <2>2, <3>1, <3>2
      DEF PointerInv, OnlyUninstallBreaksCurrent, PointerIsVersionUnlessCut, PointerExists, Uninstalling, ValidSegment
  <2>3. QED BY <1>3, <2>1, <2>2 DEF StartInstall, StartUpgrade
<1>4. CASE Unpack BY <1>4, <1>a DEF Unpack, Uninstalling
<1>5. CASE Rename
  BY <1>1, <1>5
  DEF Rename, PointerInv, OnlyUninstallBreaksCurrent, PointerIsVersionUnlessCut, PointerExists, Uninstalling, ValidSegment
<1>6. CASE Point
  <2>1. current' \in InstalledVersions
    BY <1>1, <1>6 DEF Point, DirsInv, PointsToPackage, InstalledVersions
  <2>2. QED BY <1>6, <2>1, ListedIsRight DEF Point
<1>7. CASE Rollback
  BY <1>7, ChoicesAreInstalled, ListedIsRight DEF Rollback
<1>8. ASSUME NEW all \in BOOLEAN, StartUninstall(all) PROVE PointerInv'
  BY <1>8, <1>a DEF StartUninstall, Uninstalling
<1>9. CASE RemoveAll
  BY <1>9
  DEF RemoveAll, PointerInv, OnlyUninstallBreaksCurrent, PointerIsVersionUnlessCut, PointerExists, Uninstalling, ValidSegment
<1>10. CASE Removed BY <1>10, <1>a DEF Removed, Uninstalling
<1>11. CASE Settle
  <2>1. CASE InstalledVersions = {} /\ current' = NoEntry /\ dirs' = [e \in Entries |-> "absent"]
    <3>1. InstalledVersions' = {}
      BY <2>1 DEF InstalledVersions, HasManifest
    <3>2. QED BY <2>1, <3>1 DEF PointerInv, OnlyUninstallBreaksCurrent, PointerIsVersionUnlessCut, PointerExists
  <2>2. CASE InstalledVersions # {} /\ current' = NextCurrent /\ UNCHANGED dirs
    BY <1>11, <2>2, ChoicesAreInstalled, ListedIsRight DEF Settle
  <2>3. QED BY <1>11, <2>1, <2>2 DEF Settle
<1>12. CASE Interrupt
  <2>1. cut \subseteq cut' /\ cut' # {} /\ (Uninstalling => "uninstall" \in cut')
    BY <1>12 DEF Interrupt
  <2>2. current' \in {current, NoEntry}
    BY <1>12 DEF Interrupt, Leftovers
  <2>3. ~Uninstalling => \A e \in Entries : dirs'[e] = dirs[e] \/ dirs'[e] = "whole"
    BY <1>12 DEF Interrupt, Leftovers, Uninstalling
  <2>4. QED
    BY <2>1, <2>2, <2>3
    DEF PointerInv, OnlyUninstallBreaksCurrent, PointerIsVersionUnlessCut, PointerExists, ValidSegment
<1>13. QED
  BY <1>2, <1>3, <1>4, <1>5, <1>6, <1>7, <1>8, <1>9, <1>10, <1>11, <1>12 DEF Command

-----------------------------------------------------------------------------
(* The run.                                                                 *)

Undisturbed == ~disturbed /\ "uninstall" \notin cut

\* While nothing disturbed it, what the run found is whole.
ReaderInv ==
  /\ reader \in {"pointed", "loaded"} => got \in Entries /\ (Undisturbed => dirs[got] = "whole")
  /\ RunSurvivesMutations

\* A command that is no uninstall leaves whole versions whole.
LEMMA WholeStaysWhole ==
  ASSUME StoreTyped, Command, ~Uninstalling, ~Uninstalling', "uninstall" \notin cut',
         NEW e \in Entries, dirs[e] = "whole"
  PROVE  dirs'[e] = "whole"
<1>1. CASE UNCHANGED dirs
  BY <1>1
<1>2. CASE StartInstall \/ StartUpgrade
  BY <1>2 DEF StartInstall, StartUpgrade, StoreTyped, HasManifest
<1>3. CASE Rename
  BY <1>3 DEF Rename, StoreTyped
<1>4. CASE Interrupt
  BY <1>4 DEF Interrupt, Leftovers, StoreTyped, Uninstalling
<1>5. RemoveAll \/ Settle => Uninstalling
  BY DEF RemoveAll, Settle, Uninstalling
<1>6. QED
  BY <1>1, <1>2, <1>3, <1>4, <1>5 DEF Command, Publish, Unpack, Point, Rollback, StartUninstall, Removed

LEMMA StepKeepsReader ==
  ASSUME TypeOK, StoreInv, ReaderInv, [Next]_vars
  PROVE  ReaderInv'
<1>1. CASE Command /\ disturbed' = (disturbed \/ Uninstalling \/ Uninstalling') /\ UNCHANGED <<reader, got>>
  <2>1. cut \subseteq cut'
    BY <1>1 DEF Command, Publish, StartInstall, StartUpgrade, Unpack, Rename, Point, Rollback, StartUninstall, RemoveAll,
                Removed, Settle, Interrupt
  <2>2. Undisturbed' => Undisturbed /\ ~Uninstalling /\ ~Uninstalling'
    BY <1>1, <2>1 DEF Undisturbed
  <2>3. RunSurvivesMutations'
    BY <1>1, <2>1 DEF ReaderInv, RunSurvivesMutations
  <2>4. ASSUME reader' \in {"pointed", "loaded"}
        PROVE  got' \in Entries /\ (Undisturbed' => dirs'[got'] = "whole")
    <3>1. got' = got /\ got \in Entries /\ (Undisturbed => dirs[got] = "whole")
      BY <1>1, <2>4 DEF ReaderInv
    <3>2. StoreTyped
      BY DEF TypeOK, StoreTyped
    <3>3. QED BY <1>1, <2>2, <3>1, <3>2, WholeStaysWhole DEF Undisturbed
  <2>5. QED BY <2>3, <2>4 DEF ReaderInv
<1>2. CASE ReaderStep /\ UNCHANGED storeVars
  <2> USE DEF storeVars
  <2>1. CASE ReadPointer
    <3>1. got' = current /\ current \in Entries /\ disturbed' = Uninstalling /\ reader' = "pointed"
      BY <2>1 DEF ReadPointer, CurrentReadable, TypeOK
    <3>2. ~Uninstalling /\ "uninstall" \notin cut => dirs[current] = "whole"
      BY <3>1 DEF StoreInv, PointerInv, OnlyUninstallBreaksCurrent, Entries, NoEntry
    <3>3. QED BY <1>2, <3>1, <3>2 DEF ReaderInv, RunSurvivesMutations, Undisturbed
  <2>2. CASE ReadManifest
    BY <1>2, <2>2 DEF ReadManifest, ReaderInv, RunSurvivesMutations, Undisturbed, HasManifest
  <2>3. CASE RunExecutable
    BY <1>2, <2>3 DEF RunExecutable, ReaderInv, RunSurvivesMutations, Undisturbed
  <2>4. CASE RunAgain
    BY <1>2, <2>4 DEF RunAgain, ReaderInv, RunSurvivesMutations
  <2>5. QED BY <1>2, <2>1, <2>2, <2>3, <2>4 DEF ReaderStep
<1>3. CASE UNCHANGED vars
  BY <1>3 DEF vars, storeVars, readerVars, ReaderInv, RunSurvivesMutations, Undisturbed
<1>4. QED BY <1>1, <1>2, <1>3 DEF Next

-----------------------------------------------------------------------------

LEMMA StepKeepsStore ==
  ASSUME TypeOK, StoreInv, [Next]_vars
  PROVE  StoreInv'
<1>1. CASE Command
  <2>1. StoreTyped
    BY DEF TypeOK, StoreTyped
  <2>2. QED BY <1>1, <2>1, CommandKeepsDirs, CommandKeepsPointer DEF StoreInv
<1>2. CASE UNCHANGED storeVars
  BY <1>2
  DEF storeVars, StoreInv, DirsInv, PointerInv, WholeUnlessCut, TidyUnlessCut, PointsToPackage, HasManifest,
      OnlyUninstallBreaksCurrent, PointerIsVersionUnlessCut, PointerExists, InstalledVersions, Uninstalling, ValidSegment
<1>3. QED BY <1>1, <1>2 DEF Next, vars

LEMMA StoreInvariant == Spec => [](TypeOK /\ StoreInv /\ ReaderInv)
<1>1. Init => StoreInv /\ ReaderInv
  BY DEF Init, StoreInv, DirsInv, PointerInv, WholeUnlessCut, TidyUnlessCut, PointsToPackage, HasManifest,
         OnlyUninstallBreaksCurrent, PointerIsVersionUnlessCut, PointerExists, InstalledVersions, ReaderInv,
         RunSurvivesMutations
<1>2. TypeOK /\ StoreInv /\ ReaderInv /\ [Next]_vars => (TypeOK /\ StoreInv /\ ReaderInv)'
  BY StepTyped, StepKeepsStore, StepKeepsReader
<1>3. QED BY <1>1, <1>2, InitTyped, PTL DEF Spec

\* Only an uninstall takes the current version away, wherever a command is stopped.
THEOREM CurrentIsWhole == Spec => []OnlyUninstallBreaksCurrent
<1>1. StoreInv => OnlyUninstallBreaksCurrent
  BY DEF StoreInv, PointerInv
<1>2. QED BY <1>1, StoreInvariant, PTL

\* Commands that are not interrupted leave a pointer exactly when a version is left,
\* and an unreadable pointer goes back to a killed install.
THEOREM PointerMatches == Spec => []PointerMatchesInstalled
<1>1. StoreInv => PointerMatchesInstalled
  <2> SUFFICES ASSUME StoreInv PROVE PointerMatchesInstalled
    OBVIOUS
  <2>1. ASSUME stage = "idle", cut = {}
        PROVE  (current = NoEntry) = (InstalledVersions = {})
    BY <2>1 DEF StoreInv, PointerInv, PointerExists
  <2>2. ASSUME stage = "idle", cut = {}, current # NoEntry PROVE dirs[current] = "whole"
    BY <2>2 DEF StoreInv, PointerInv, OnlyUninstallBreaksCurrent, Uninstalling
  <2>3. QED BY <2>1, <2>2 DEF PointerMatchesInstalled, StoreInv, PointerInv, PointerIsVersionUnlessCut
<1>2. QED BY <1>1, StoreInvariant, PTL

\* A run beside other commands fails only for an uninstall.
THEOREM RunSurvives == Spec => []RunSurvivesMutations
<1>1. ReaderInv => RunSurvivesMutations
  BY DEF ReaderInv
<1>2. QED BY <1>1, StoreInvariant, PTL
=============================================================================
