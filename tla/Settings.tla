-------------------------------- MODULE Settings --------------------------------
(***************************************************************************)
(* What the processes of ProAuth share beside the session: config.json,    *)
(* the registry cache and the overlay files (internal/core/config.go,      *)
(* LoadRegistry and RefreshRegistry in registry_store.go, and the methods  *)
(* of the Service on top of them).                                         *)
(*                                                                         *)
(* Like the session, the configuration is loaded once, kept in s.Config    *)
(* and written back as a whole.  A login may do so too: the token response *)
(* can name a registry, which the callback stores after the session.       *)
(***************************************************************************)
EXTENDS ProAuth, Manifests

CONSTANTS
  Editors,        \* the processes that take config commands: command lines
  Keys,           \* the config keys that are tried
  Given(_),       \* what may be given for a key
  TokenUrls,      \* the registry_url a token response may hold
  Answers,        \* what a registry server may answer
  Files,          \* the overlay files: numbers, in the order of their names
  Overlays,       \* what an overlay file may hold
  Starts,         \* what config.json may hold at first
  DefaultRegistry,\* the built-in skills
  Usual,          \* the default of a limit
  Before,         \* what the overlay files hold at first
  LoginWork,      \* what a login counts, and
  ChangeWork,     \* what a change counts,
  MaxWork         \* in the bound on both

VARIABLES
  config,      \* config.json: "missing", "broken" or "whole", with its values
  conf,        \* s.Config of each process
  cache,       \* registry.json
  overlay,     \* the overlay files
  offers,      \* s.Registry of each process: the version of each skill
  owes,        \* the registry_url a callback has still to store
  changes,     \* changes made so far
  meant,       \* history: the last value given successfully for each key
  confBehind,  \* history: processes whose s.Config is older than config.json
  confStale,   \* history: such an s.Config has been saved
  published,   \* history: the last answer of the server that was accepted
  informed     \* history: processes that loaded the registry since

settingVars == <<config, conf, cache, overlay, offers, owes, changes, meant, confBehind, confStale, published, informed>>

-----------------------------------------------------------------------------
(* Keys and values.                                                         *)

UrlKeys == {"registry_url", "pro_api_url"}
NumberKeys == {"lock_timeout_ms", "stale_lock_ms", "run_timeout_ms", "run_output_limit_bytes", "registry_max_bytes",
               "registry_download_timeout_ms", "package_max_bytes", "package_download_timeout_ms",
               "extracted_max_bytes", "extracted_max_files"}
ConfigKeys == UrlKeys \cup NumberKeys \cup {"registry_files", "agent_name", "channel", "telemetry"}

ASSUME SettingsAssumption ==
  /\ Editors \subseteq Process
  /\ Files \subseteq Nat \ {0}
  /\ Keys \subseteq ConfigKeys
  /\ \A answer \in Answers : answer.skills \in Seq(ToSet(answer.skills))
  /\ Usual \in Nat \ {0} /\ LoginWork \in Nat /\ ChangeWork \in Nat /\ MaxWork \in Nat

DefaultConfig ==
  [key \in ConfigKeys |->
     CASE key \in UrlKeys -> NoUrl
       [] key \in NumberKeys -> Usual
       [] key = "registry_files" -> {}
       [] key = "agent_name" -> "none"
       [] key = "channel" -> "stable"
       [] key = "telemetry" -> "off"]

\* SetConfigValue and validateConfig; 0 is every number that is not positive.
Accepts(key, given) ==
  CASE key \in UrlKeys -> given = NoUrl \/ ServiceUrlValid(given, TRUE)
    [] key \in NumberKeys -> given > 0
    [] key = "registry_files" -> TRUE
    [] key = "agent_name" -> given # "odd"
    [] key = "channel" -> given \notin {"none", "odd"}
    [] key = "telemetry" -> given \in {"off", "desensitized"}

\* splitList: a blank entry, 0, is dropped; the rest is sorted and made unique.
Stored(key, given) == IF key = "registry_files" THEN given \ {0} ELSE given

Whole(values) == [kind |-> "whole", values |-> values]
NoConfig(kind) == [kind |-> kind, values |-> DefaultConfig]

\* LoadConfig of a file that can be read.
LoadConfig == IF config.kind = "whole" THEN config.values ELSE DefaultConfig

-----------------------------------------------------------------------------
(* The registry.                                                            *)

\* No file, or one that is no manifest.
NoManifest == [json |-> FALSE, skills |-> <<>>, size |-> 0]

\* readRegistryFile and the limit of a download.
Fits(manifest, values) == manifest.size <= values["registry_max_bytes"]
Usable(manifest, values) == Fits(manifest, values) /\ Decodes(manifest)

Versions(registry) == [name \in DOMAIN registry |-> registry[name].version]

\* LoadRegistry: the built-in skills, the overlays in the order of their names, the
\* cache; what cannot be used is passed over.
LoadRegistry(values, cached) ==
  LET Layer(registry, manifest) == IF Usable(manifest, values) THEN MergeRegistry(registry, manifest) ELSE registry
      files == SetToSortSeq(values["registry_files"], <)
      overlaid == FoldLeft(Layer, DefaultRegistry, [i \in DOMAIN files |-> overlay[files[i]]])
  IN  Versions(Layer(overlaid, cached))

SettingsInit ==
  /\ Init
  /\ config \in Starts
  /\ conf = [p \in Process |-> DefaultConfig]
  /\ cache = NoManifest
  /\ overlay = Before
  /\ offers = [p \in Process |-> Versions(DefaultRegistry)]
  /\ owes = [p \in Process |-> NoUrl]
  /\ changes = IF config.kind = "missing" THEN 0 ELSE 1   \* somebody has made that file
  /\ meant = LoadConfig
  /\ confBehind = {} /\ confStale = FALSE
  /\ published = NoManifest /\ informed = {}

\* s.Config and s.Registry of p from now on.
Holds(p, values, cached) ==
  /\ conf' = [conf EXCEPT ![p] = values]
  /\ offers' = [offers EXCEPT ![p] = LoadRegistry(values, cached)]

Change == changes' = changes + 1

Free(p) == pc[p] = "idle" /\ owes[p] = NoUrl

\* NewDefaultService: nothing starts on a configuration that cannot be read.
OpenService(p) ==
  /\ config.kind # "broken"
  /\ Open(p)
  /\ Holds(p, LoadConfig, cache)
  /\ confBehind' = confBehind \ {p}
  /\ informed' = informed \cup {p}
  /\ UNCHANGED <<config, cache, overlay, owes, changes, meant, confStale, published>>

CloseService(p) ==
  /\ Close(p)
  /\ conf' = [conf EXCEPT ![p] = DefaultConfig]
  /\ offers' = [offers EXCEPT ![p] = Versions(DefaultRegistry)]
  /\ owes' = [owes EXCEPT ![p] = NoUrl]
  /\ confBehind' = confBehind \ {p}
  /\ informed' = informed \ {p}
  /\ UNCHANGED <<config, cache, overlay, changes, meant, confStale, published>>

-----------------------------------------------------------------------------
(* Configuration.                                                           *)

\* SaveConfig by p: the whole of what it has.
SaveConfig(p, values) ==
  /\ config' = Whole(values)
  /\ confBehind' = Process \ {p}
  /\ confStale' = (confStale \/ p \in confBehind)

\* SaveConfig of s.Config with one more value, and LoadRegistry with it.
SaveValue(p, key, value) ==
  LET values == [conf[p] EXCEPT ![key] = value]
  IN  /\ SaveConfig(p, values)
      /\ Holds(p, values, cache)
      /\ informed' = informed \cup {p}
      /\ meant' = [meant EXCEPT ![key] = value]
      /\ UNCHANGED <<cache, overlay, published>>

\* SetConfig and UnsetConfig; a value that is refused changes nothing.
SetConfig(p, key) ==
  /\ p \in Editors /\ Free(p)
  /\ \E given \in Given(key) : Accepts(key, given) /\ SaveValue(p, key, Stored(key, given))
  /\ Change
  /\ UNCHANGED <<vars, owes>>

UnsetConfig(p, key) ==
  /\ p \in Editors /\ Free(p)
  /\ SaveValue(p, key, DefaultConfig[key])
  /\ Change
  /\ UNCHANGED <<vars, owes>>

\* Mutant: what is written are the defaults.
InitConfig0(p, force) ==
  /\ p \in Editors /\ Free(p)
  /\ force \/ config.kind = "missing"
  /\ SaveConfig(p, DefaultConfig)
  /\ Change
  /\ UNCHANGED <<vars, conf, cache, overlay, offers, owes, meant, published, informed>>

\* Without force a file that exists, readable or not, is left as it is.
InitConfig(p, force) ==
  /\ p \in Editors /\ Free(p)
  /\ force \/ config.kind = "missing"
  /\ SaveConfig(p, conf[p])
  /\ Change
  /\ UNCHANGED <<vars, conf, cache, overlay, offers, owes, meant, published, informed>>

\* The user deletes the file, the only repair there is, or makes it unreadable.
EditConfig(kind) ==
  /\ config.kind # kind
  /\ config' = NoConfig(kind)
  /\ meant' = DefaultConfig
  /\ confBehind' = Process
  /\ IF config.kind = "broken" THEN UNCHANGED changes ELSE Change
  /\ UNCHANGED <<vars, conf, cache, overlay, offers, owes, confStale, published, informed>>

-----------------------------------------------------------------------------
(* The end of a callback.                                                   *)

\* SaveAuth of a callback, with the registry_url of the token response at hand.
SaveSession(p) ==
  /\ SaveAuth(p)
  /\ \/ owes' = [owes EXCEPT ![p] = NoUrl] /\ UNCHANGED changes
     \/ op[p] = "callback" /\ Change /\ \E url \in TokenUrls : owes' = [owes EXCEPT ![p] = url]
  /\ UNCHANGED <<config, conf, cache, overlay, offers, meant, confBehind, confStale, published, informed>>

\* The URL is stored if it is another one.  If it is refused the callback is an error,
\* with the session saved.
StoreRegistryUrl(p) ==
  /\ owes[p] # NoUrl
  /\ owes' = [owes EXCEPT ![p] = NoUrl]
  /\ IF owes[p] # conf[p]["registry_url"] /\ Accepts("registry_url", owes[p])
     THEN SaveValue(p, "registry_url", owes[p])
     ELSE UNCHANGED <<config, conf, cache, overlay, offers, meant, confBehind, confStale, published, informed>>
  /\ UNCHANGED <<vars, changes>>

-----------------------------------------------------------------------------
(* The registry cache.                                                      *)

\* Mutant: the answer is stored before it is looked at.
RefreshRegistry0(p, answer) ==
  /\ Free(p)
  /\ conf[p]["registry_url"] # NoUrl
  /\ Fits(answer, conf[p])
  /\ cache' = answer
  /\ IF Decodes(answer)
     THEN Holds(p, conf[p], answer) /\ published' = answer /\ informed' = {p}
     ELSE UNCHANGED <<conf, offers, published, informed>>
  /\ Change
  /\ UNCHANGED <<vars, config, overlay, owes, meant, confBehind, confStale>>

\* RefreshRegistry: an answer that is too long or no manifest is an error that changes
\* nothing, like no answer at all.
RefreshRegistry(p, answer) ==
  /\ Free(p)
  /\ conf[p]["registry_url"] # NoUrl
  /\ Usable(answer, conf[p])
  /\ cache' = answer
  /\ Holds(p, conf[p], answer)
  /\ published' = answer
  /\ informed' = {p}
  /\ Change
  /\ UNCHANGED <<vars, config, overlay, owes, meant, confBehind, confStale>>

\* An overlay file is written or deleted.
EditOverlay(f, manifest) ==
  /\ overlay' = [overlay EXCEPT ![f] = manifest]
  /\ Change
  /\ UNCHANGED <<vars, config, conf, cache, offers, owes, meant, confBehind, confStale, published, informed>>

-----------------------------------------------------------------------------

\* One thing of a session at a time: a callback is finished before the next call.
SettingsStep(p) ==
  \/ OpenService(p) \/ CloseService(p)
  \/ owes[p] = NoUrl /\ Call(p) /\ UNCHANGED settingVars
  \/ SaveSession(p) \/ StoreRegistryUrl(p)
  \/ \E key \in Keys : SetConfig(p, key) \/ UnsetConfig(p, key)
  \/ \E force \in BOOLEAN : InitConfig(p, force)
  \/ \E answer \in Answers : RefreshRegistry(p, answer)

SettingsNext ==
  /\ \/ \E p \in Process : SettingsStep(p)
     \/ \E kind \in {"missing", "broken"} : EditConfig(kind)
     \/ \E f \in Files, manifest \in Overlays : EditOverlay(f, manifest)
     \/ (Expire \/ \E l \in Logins : Authorize(l)) /\ UNCHANGED settingVars
  /\ started' * LoginWork + changes' * ChangeWork <= MaxWork

SettingsSpec == SettingsInit /\ [][SettingsNext]_<<vars, settingVars>>

-----------------------------------------------------------------------------

\* As long as no process has written back a configuration older than the file, every
\* value a command or a login was told is stored is in the file, and no other: writing
\* the whole of s.Config restores nothing and drops nothing.
SettingsStick ==
  ~confStale =>
    /\ config.kind # "broken" => LoadConfig = meant
    /\ \A p \in Process \ confBehind : pc[p] # "closed" => conf[p] = LoadConfig

\* A process that refreshed the registry, or loaded it after another one did, offers
\* what the server said of every skill it named, whatever the overlays say and whatever
\* failed since, if its own limit lets it read that much.
RefreshTakesEffect ==
  \A p \in informed :
    Usable(published, conf[p]) =>
      LET said == Versions(MergeRegistry(<<>>, published))
      IN  \A name \in DOMAIN said : offers[p][name] = said[name]
=============================================================================
