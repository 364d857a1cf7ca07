------------------------------- MODULE Manifests -------------------------------
(***************************************************************************)
(* The skills of a registry manifest and what is accepted of them:         *)
(* validateSkillManifest and the rules under it, mergeRegistry             *)
(* (internal/core/registry_store.go), and what `registry status' says of a *)
(* skill (internal/core/registry_status.go).                               *)
(*                                                                         *)
(* A word is reduced to what a rule asks of it: "ok" passes, "none" is the *)
(* empty word, "odd" breaks the rule.  A URL is a record of its parts.     *)
(***************************************************************************)
EXTENDS Naturals, Sequences, SequencesExt, FiniteSets

-----------------------------------------------------------------------------
(* URLs.                                                                    *)

Url(scheme, host) ==
  [scheme |-> scheme, host |-> host, padded |-> FALSE, user |-> FALSE, query |-> FALSE, path |-> TRUE]

\* No scheme and nothing else: the empty string.
NoUrl == [Url("none", "none") EXCEPT !.path = FALSE]

\* localhost, or an address of the loopback network.
Remote(url) == url.host \notin {"none", "localhost"}

\* validateServiceURL, for a URL of the configuration and for a support link.
ServiceUrlValid(url, configured) ==
  /\ ~url.padded
  /\ url.scheme \in {"http", "https"}
  /\ url.host # "none"
  /\ configured => ~url.user /\ ~url.query
  /\ url.scheme = "http" => ~Remote(url)

\* validateBundleURL: without a scheme it is a path.
BundleUrlValid(url) ==
  /\ ~url.padded
  /\ url.scheme \in {"none", "file", "http", "https"}
  /\ url.scheme = "file" => ~Remote(url) /\ ~url.query /\ url.path
  /\ url.scheme \in {"http", "https"} => url.host # "none" /\ ~url.user
  /\ url.scheme = "http" => ~Remote(url)

-----------------------------------------------------------------------------
(* Bundles.  "suffix" is the archive type the end of the URL tells.         *)

ArchiveTypes == {"zip", "tar.gz", "tgz"}

\* validateArchiveType with inferArchiveType.
ArchiveValid(bundle) ==
  (IF bundle.archive = "none" THEN bundle.suffix ELSE bundle.archive) \in ArchiveTypes

\* cleanArchiveRelativePath: the path that path.Clean makes of the segments, or Unsafe
\* when it is absolute (an empty first segment), leads out or nowhere, or is "odd".
Unsafe == <<"..">>
Clean(path) ==
  LET Step(done, segment) ==
        CASE segment \in {".", ""} -> done
          [] segment = ".." /\ done # <<>> /\ Last(done) # ".." -> Front(done)
          [] OTHER -> Append(done, segment)
      clean == FoldLeft(Step, <<>>, path)
  IN  IF clean = <<>> \/ Head(clean) = ".." \/ Head(path) = "" \/ "odd" \in ToSet(path) THEN Unsafe ELSE clean

\* validatePlatformBundle.
BundleValid(skill, bundle) ==
  /\ bundle.os = "ok" /\ bundle.arch = "ok"
  /\ ~skill.stub /\ skill.builtin = "none" =>
       /\ bundle.url # NoUrl /\ BundleUrlValid(bundle.url)
       /\ bundle.sha256 = "ok"
       /\ ArchiveValid(bundle)
       /\ bundle.entrypoint # <<>> /\ Clean(bundle.entrypoint) # Unsafe

-----------------------------------------------------------------------------
(* Skills.                                                                  *)

\* validateBuiltinInfo: "ok" has a runtime, and backends and profiles that are known.
BuiltinValid(skill) == skill.builtin # "none" => ~skill.stub /\ skill.builtin = "ok"

\* validateCapabilityInfo, validateBillingInfo and validateAttributionInfo.
CommerceValid(skill) ==
  /\ skill.class \in {"none", "tool", "commerce"}
  /\ skill.meters \in {"none", "ok"}
  /\ skill.events \in {"none", "ok"}

\* requiresISVSupport: what a third party earns money with.
Supported(skill) ==
  skill.vendor = "third" /\ (skill.meters # "none" \/ skill.events # "none" \/ skill.class = "commerce")

\* validateSupportInfo.
SupportValid(skill) ==
  /\ skill.support # NoUrl => ServiceUrlValid(skill.support, FALSE)
  /\ skill.privacy # NoUrl => ServiceUrlValid(skill.privacy, FALSE)
  /\ Supported(skill) => skill.support # NoUrl /\ skill.privacy # NoUrl /\ skill.email = "ok"

\* validateSkillManifest.
SkillValid(skill) ==
  /\ skill.name # "" /\ skill.nameSafe
  /\ skill.version > 0 /\ skill.versionSafe
  /\ BuiltinValid(skill)
  /\ \A bundle \in skill.bundles : BundleValid(skill, bundle)
  /\ CommerceValid(skill)
  /\ SupportValid(skill)

-----------------------------------------------------------------------------
(* Manifests: skills in order, and a size.                                  *)

\* decodeRegistry.
Decodes(manifest) == manifest.json /\ \A i \in DOMAIN manifest.skills : SkillValid(manifest.skills[i])

\* mergeRegistry: a skill takes the place of the one with its name.
MergeSkill(registry, skill) ==
  [name \in DOMAIN registry \cup {skill.name} |-> IF name = skill.name THEN skill ELSE registry[name]]

MergeRegistry(registry, manifest) == FoldLeft(MergeSkill, registry, manifest.skills)

-----------------------------------------------------------------------------
(* registry status.                                                         *)

\* registryBundleImplementationStatus: the first thing that is wrong, or why it runs.
BundleReason(skill, bundle) ==
  LET faults == << <<"stub",               skill.stub>>,
                   <<"builtin",            skill.builtin # "none">>,
                   <<"missing_url",        bundle.url = NoUrl>>,
                   <<"invalid_url",        ~BundleUrlValid(bundle.url)>>,
                   <<"missing_sha256",     bundle.sha256 # "ok">>,
                   <<"invalid_archive",    ~ArchiveValid(bundle)>>,
                   <<"missing_entrypoint", bundle.entrypoint = <<>> >>,
                   <<"invalid_entrypoint", Clean(bundle.entrypoint) = Unsafe>>,
                   <<"complete",           TRUE>> >>
  IN  faults[SelectInSeq(faults, LAMBDA fault : fault[2])][1]

Runnable(skill, bundle) == BundleReason(skill, bundle) \in {"builtin", "complete"}

\* buildRegistrySkillImplementationStatus, over the platforms asked for.
SkillStatus(skill, platforms) ==
  LET runnable == {p \in platforms : \E bundle \in skill.bundles : bundle.platform = p /\ Runnable(skill, bundle)}
  IN  CASE skill.stub -> "stub"
        [] ~skill.stub /\ runnable = platforms -> "implemented"
        [] ~skill.stub /\ runnable # platforms /\ runnable # {} -> "partial"
        [] OTHER -> "incomplete"
=============================================================================
