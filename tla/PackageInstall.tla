----------------------------- MODULE PackageInstall -----------------------------
(***************************************************************************)
(* From a skill of the registry to a directory that can be renamed into    *)
(* place: materializeSkill, fetchBundleBytes, extractArchive and the       *)
(* functions under it in internal/core/service.go.  The archive is not     *)
(* known in advance: each of its entries is any of Entries, and it may end *)
(* or turn out to be damaged after every one of them.                      *)
(*                                                                         *)
(* What happens to the directory after the rename, and when the process    *)
(* dies on the way, is SkillStore's subject.                               *)
(***************************************************************************)
EXTENDS Manifests, Functions, Integers

CONSTANTS
  Skills,       \* what the registry may offer under a name
  Here,         \* the platform of this process
  Entries,      \* entries of an archive: a path, a kind, a declared size, the data behind it
  MaxEntries,   \* bound on the entries of an archive
  MaxFiles,     \* extracted_max_files
  MaxBytes,     \* extracted_max_bytes
  HalfSize      \* a declared size is in 0..2*HalfSize-1: 2^63 in the code

ASSUME PackageAssumption ==
  /\ MaxEntries \in Nat /\ MaxFiles \in Nat \ {0} /\ MaxBytes \in Nat \ {0} /\ HalfSize \in Nat \ {0}
  /\ \A e \in Entries : /\ e.path \in Seq(STRING) /\ e.kind \in {"dir", "file", "link"}
                         /\ e.size \in 0..(2 * HalfSize - 1) /\ e.data \in Nat
  /\ \A skill \in Skills : skill.stub \in BOOLEAN

VARIABLES
  pkg,      \* the install: its stage, skill and bundle, and the entries read so far
  tree,     \* the temporary directory: the bytes of each file, and the directories
  budget,   \* extractBudget: files and bytes reserved
  seen      \* the cleaned paths of the entries read

pkgVars == <<pkg, tree, budget, seen>>

NoSkill == [stub |-> TRUE, builtin |-> "none"]
NoInstall == [stage |-> "none", skill |-> NoSkill, bundle |-> NoUrl, read |-> 0, wide |-> FALSE]
EmptyTree == [files |-> [p \in {} |-> 0], dirs |-> {}]
NothingReserved == [files |-> 0, bytes |-> 0]

PackageTypeOK ==
  /\ pkg.stage \in {"none", "fetching", "extracting", "writing", "renaming", "installed", "failed", "cleaned"}
  /\ pkg.read \in 0..MaxEntries /\ pkg.wide \in BOOLEAN
  /\ \A path \in DOMAIN tree.files : tree.files[path] \in Nat
  /\ budget.files \in 0..MaxFiles /\ budget.bytes \in 0..MaxBytes

PackageInit == pkg = NoInstall /\ tree = EmptyTree /\ budget = NothingReserved /\ seen = {}

GoTo(stage) == pkg' = [pkg EXCEPT !.stage = stage]

-----------------------------------------------------------------------------

\* Only a package that is neither a stub nor built in has an archive.
Packaged(skill) == ~skill.stub /\ skill.builtin = "none"

\* installSkill as far as materializeSkill: a manifest is looked at again, and has a
\* bundle for this platform or not.
Begin(skill) ==
  /\ pkg.stage = "none"
  /\ \/ /\ SkillValid(skill)
        /\ \E bundle \in skill.bundles :
             /\ bundle.platform = Here
             /\ BundleValid(skill, bundle)
             /\ pkg' = [NoInstall EXCEPT !.stage = IF Packaged(skill) THEN "fetching" ELSE "writing",
                                         !.skill = skill, !.bundle = bundle]
     \/ /\ ~SkillValid(skill) \/ \A bundle \in skill.bundles : bundle.platform # Here
        /\ GoTo("failed")
  /\ UNCHANGED <<tree, budget, seen>>

\* fetchBundleBytes and verifySHA256: no answer, too many bytes or other bytes end it.
Fetch(got) ==
  /\ pkg.stage = "fetching"
  /\ GoTo(IF got THEN "extracting" ELSE "failed")
  /\ UNCHANGED <<tree, budget, seen>>

-----------------------------------------------------------------------------
(* Extraction.                                                              *)

\* A path and the directories above it.
Chain(path) == Prefixes(path) \ {<<>>}

\* os.MkdirAll: a file in the way is an error.
CanMakeDirs(path) == Chain(path) \cap DOMAIN tree.files = {}

\* A zip holds an unsigned size, int64 makes it negative when its highest bit is set.
Size(e) == IF e.size < HalfSize THEN e.size ELSE e.size - 2 * HalfSize

\* Mutant: the limit may be passed by one.
Reservable0(size) ==
  /\ budget.files <= MaxFiles
  /\ size > 0 => size <= MaxBytes - budget.bytes

\* reserveFile.
Reservable(size) ==
  /\ budget.files < MaxFiles
  /\ size > 0 => size <= MaxBytes - budget.bytes

Reserve(size) == budget' = [files |-> budget.files + 1, bytes |-> budget.bytes + (IF size > 0 THEN size ELSE 0)]

\* writeExtractedFile: as many bytes as declared; with a negative size all there are, and
\* then the reader finds that they are not what the header says.
Copied(e) ==
  IF Size(e) >= 0
  THEN [bytes |-> IF e.data < Size(e) THEN e.data ELSE Size(e), whole |-> e.data >= Size(e)]
  ELSE [bytes |-> e.data, whole |-> FALSE]

\* After an entry: the next one, or an error.
Goes(ok, e) ==
  pkg' = [pkg EXCEPT !.stage = IF ok THEN "extracting" ELSE "failed", !.read = @ + 1,
                     !.wide = @ \/ Size(e) < 0]

\* safeArchivePath, rejectDuplicateArchivePath, and neither a directory nor a file.
EntryRefused(e) ==
  /\ Clean(e.path) = Unsafe \/ Clean(e.path) \in seen \/ e.kind = "link"
  /\ Goes(FALSE, e)
  /\ UNCHANGED <<tree, budget, seen>>

Directory(e, path) ==
  /\ e.kind = "dir"
  /\ Goes(CanMakeDirs(path), e)
  /\ tree' = IF CanMakeDirs(path) THEN [tree EXCEPT !.dirs = @ \cup Chain(path)] ELSE tree
  /\ UNCHANGED budget

\* The files after one was written, over what was there.
Put(paths, bytes) ==
  [p \in paths \cup DOMAIN tree.files |-> IF p \in paths THEN bytes ELSE tree.files[p]]

\* The parents are made, then the budget is asked, then the file is created, if there is
\* nothing of its name.
File(e, path) ==
  LET parents == Chain(path) \ {path}
      made == [tree EXCEPT !.dirs = @ \cup parents]
      free == path \notin DOMAIN tree.files \cup tree.dirs
  IN  /\ e.kind = "file"
      /\ IF parents \cap DOMAIN tree.files = {}
         THEN IF Reservable(Size(e))
              THEN /\ Reserve(Size(e))
                   /\ tree' = IF free THEN [made EXCEPT !.files = Put({path}, Copied(e).bytes)] ELSE made
                   /\ Goes(free /\ Copied(e).whole, e)
              ELSE Goes(FALSE, e) /\ tree' = made /\ UNCHANGED budget
         ELSE Goes(FALSE, e) /\ UNCHANGED <<tree, budget>>

\* extractZip and extractTarGz, one entry.
Entry(e) ==
  /\ pkg.stage = "extracting"
  /\ pkg.read < MaxEntries
  /\ \/ EntryRefused(e)
     \/ /\ Clean(e.path) # Unsafe /\ Clean(e.path) \notin seen /\ e.kind # "link"
        /\ seen' = seen \cup {Clean(e.path)}
        /\ Directory(e, Clean(e.path)) \/ File(e, Clean(e.path))

\* Mutant: a directory of that name will do.
EntrypointFound0 == Clean(pkg.bundle.entrypoint) \in DOMAIN tree.files \cup tree.dirs

EntrypointFound == Clean(pkg.bundle.entrypoint) \in DOMAIN tree.files

\* The archive is at its end, or cannot be read further.
EndOfArchive(damaged) ==
  /\ pkg.stage = "extracting"
  /\ GoTo(IF ~damaged /\ EntrypointFound THEN "writing" ELSE "failed")
  /\ UNCHANGED <<tree, budget, seen>>

-----------------------------------------------------------------------------

Own == {<<"manifest.json">>, <<"README.txt">>}

\* Two files of agtx's own, over those of the package; a directory is not overwritten.
WriteManifest ==
  /\ pkg.stage = "writing"
  /\ IF Own \cap tree.dirs = {}
     THEN /\ GoTo("renaming")
          /\ tree' = [tree EXCEPT !.files = Put(Own, 0)]
     ELSE GoTo("failed") /\ UNCHANGED tree
  /\ UNCHANGED <<budget, seen>>

\* os.Rename, or the deferred os.RemoveAll.
Rename(done) ==
  /\ pkg.stage = "renaming"
  /\ GoTo(IF done THEN "installed" ELSE "failed")
  /\ UNCHANGED <<tree, budget, seen>>

CleanUp ==
  /\ pkg.stage = "failed"
  /\ pkg' = [NoInstall EXCEPT !.stage = "cleaned"]
  /\ tree' = EmptyTree /\ budget' = NothingReserved /\ seen' = {}

\* The result is reported.
Report ==
  /\ pkg.stage \in {"installed", "cleaned"}
  /\ pkg' = NoInstall /\ tree' = EmptyTree /\ budget' = NothingReserved /\ seen' = {}

PackageStep ==
  \/ \E got \in BOOLEAN : Fetch(got)
  \/ \E e \in Entries : Entry(e)
  \/ \E damaged \in BOOLEAN : EndOfArchive(damaged)
  \/ WriteManifest
  \/ \E done \in BOOLEAN : Rename(done)
  \/ CleanUp

-----------------------------------------------------------------------------
(* Properties.                                                              *)

Total(files) == FoldFunction(+, 0, files)

Bytes == Total(tree.files)

\* What is on the disk at any moment of an extraction, a failing one included, is within
\* the directory and the configured numbers of files and bytes, unless a size was
\* declared that does not fit an int64.
WithinLimits ==
  /\ \A path \in DOMAIN tree.files \cup tree.dirs : Head(path) # ".."
  /\ Cardinality(DOMAIN tree.files \ Own) <= MaxFiles
  /\ Bytes <= MaxBytes \/ pkg.wide

\* What goes into place is the whole package: every entry read is there, with the bytes
\* that were accounted for, beside agtx's own files, the program to run is a file, and
\* `registry status' calls the skill runnable unless it is a stub.
InstalledIsWhole ==
  pkg.stage = "installed" =>
    /\ Own \subseteq DOMAIN tree.files
    /\ seen \subseteq DOMAIN tree.files \cup tree.dirs
    /\ seen \cap Own = {} => Bytes = budget.bytes
    /\ Packaged(pkg.skill) => Clean(pkg.bundle.entrypoint) \in DOMAIN tree.files \ tree.dirs
    /\ Runnable(pkg.skill, pkg.bundle) <=> ~pkg.skill.stub
    /\ SkillStatus(pkg.skill, {Here}) = (IF pkg.skill.stub THEN "stub" ELSE "implemented")
=============================================================================
