------------------------------- MODULE MCProAuth -------------------------------
(* ProAuth and Settings for TLC: one command line and one server process.  *)
EXTENDS Settings

CONSTANTS cli, server

Shop == Url("https", "shop.org")

\* What can be given for the keys that are tried; the others are taken like these.
MCGiven(key) ==
  CASE key = "registry_url" -> {Shop, [Shop EXCEPT !.padded = TRUE], Url("http", "shop.org")}
    [] key = "registry_files" -> {{1}, {0, 2}}
    [] key = "registry_max_bytes" -> {0, 1}
    [] OTHER -> {}

MCTokenUrls == {Url("https", "mirror.org"), [Shop EXCEPT !.user = TRUE]}

Skill(name, version) ==
  [name |-> name, nameSafe |-> TRUE, version |-> version, versionSafe |-> TRUE, stub |-> TRUE, builtin |-> "none",
   class |-> "none", meters |-> "none", events |-> "none", vendor |-> "first",
   support |-> NoUrl, privacy |-> NoUrl, email |-> "none", bundles |-> {}]

Manifest(skills, size) == [json |-> TRUE, skills |-> skills, size |-> size]

MCDefaultRegistry == ("ocr" :> Skill("ocr", 1))

MCAnswers ==
  { Manifest(<<Skill("ocr", 2), Skill("pdf", 1)>>, 2), Manifest(<<Skill("ocr", 3), Skill("ocr", 1)>>, 1),
    Manifest(<<[Skill("ocr", 4) EXCEPT !.nameSafe = FALSE]>>, 1), Manifest(<<Skill("pdf", 2)>>, 3), NoManifest }

MCOverlays == { NoManifest }

MCBefore == <<Manifest(<<Skill("ocr", 4), Skill("pdf", 4)>>, 2), Manifest(<<Skill("ocr", 5)>>, 1)>>

MCStarts ==
  { NoConfig("missing"),
    Whole([DefaultConfig EXCEPT !["registry_url"] = Shop, !["registry_files"] = {1, 2}]) }
=============================================================================
