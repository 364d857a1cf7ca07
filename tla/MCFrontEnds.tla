------------------------------- MODULE MCFrontEnds -------------------------------
EXTENDS FrontEnds

\* The arguments tried for a tool: all of them, but for the record queries, where
\* the other filters are read like "pack_id".
Tried(tool) ==
  IF "limit" \in Allowed(tool) /\ tool # "search_skills"
  THEN {"scenario", "pack_id", "from", "to", "limit"} \cap Allowed(tool)
  ELSE Allowed(tool)

Typical(tool, name) ==
  LET getter == Cases[tool].reads[name] IN
  CASE name = "from" -> "stamp_1"
    [] name = "to" -> "stamp_2"
    [] name = "input_base64" -> "base64"
    [] getter = "String" /\ name \notin {"from", "to", "input_base64"} -> "text"
    [] getter = "Bool" -> "yes"
    [] getter = "PositiveInt" -> "count"
    [] getter = "StringSlice" -> "words"
    [] getter = "Options" -> "object"

Most(tool) == IF tool = "run_skill" THEN 2 ELSE 3

UsualCalls(tool) ==
  {[n \in names |-> Typical(tool, n)] : names \in {s \in SUBSET Tried(tool) : Cardinality(s) <= Most(tool)}}

\* A few arguments, one of them of any shape, or one that the tool does not have.
UsualAndUnusual(tool) ==
  {[tool |-> tool, args |-> args, ocr |-> NoProperties] :
     args \in UNION {{a} \cup {(n :> shape) @@ a : n \in DOMAIN a \cup {"stray"}, shape \in Shapes} : a \in UsualCalls(tool)}}

OcrNames == DOMAIN OcrSchema.properties \cup {"stray"}
OcrObjects ==
       {(n :> shape) : n \in OcrNames, shape \in Shapes}
  \cup {(a :> x) @@ (b :> y) : a, b \in OcrActions \cup {"dry_run"}, x, y \in {"yes", "no", "null"}}

OcrCalls ==
  {[tool |-> "run_skill", args |-> ("skill" :> skill) @@ ("ocr" :> "object"), ocr |-> ocr] :
     skill \in {"ocr_name", "text"}, ocr \in OcrObjects}

MCCallsOf(tool) ==
  CASE tool = "run_skill" -> UsualAndUnusual(tool) \cup OcrCalls
    [] tool \in ToolNames \ {"run_skill"} -> UsualAndUnusual(tool)
    [] OTHER -> {[tool |-> tool, args |-> NoProperties, ocr |-> NoProperties]}

\* The value flags tried: the filters of a query are all taken in the same way.
TriedFlags(command) ==
  CASE command = "run" -> {"--input", "--timeout-ms", "--goal"}
    [] command = "commerce_snapshot" -> {"--out", "--limit"}
    [] command = "registry_status" -> {"--file", "--accounts"}
    [] command = "registry_demo_release" -> {"--out", "--skills"}
    [] Len(Commands[command].values) > 7 -> {"--pack-id", "--limit"}
    [] OTHER -> ToSet(Commands[command].values)

MCTokens(command) ==
       {Flag(s) : s \in Commands[command].switches} \cup {Flag("--other"), Word}
  \cup {Flag(v) : v \in TriedFlags(command)}
  \cup {Assign(v, value) : v \in TriedFlags(command), value \in {"number", "empty"}}
  \cup (IF command = "run" THEN {Dashes} ELSE {})
  \cup (IF TriedFlags(command) \cap NumberFlags # {} THEN {Number} ELSE {})
  \cup (IF command = "search" THEN {Empty} ELSE {})
  \cup (IF command = "pro_revoke" THEN {Flag("--plan")} ELSE {})

Plain(path, method) ==
  [path |-> path, method |-> method, origin |-> "other", token |-> "none", query |-> NoProperties,
   challenge |-> FALSE, body |-> "none", id |-> "blank", yes |-> "absent"]

Queries ==
  UNION {[names -> {"text", "blank", "number", "stamp_1", "stamp_2"}] :
           names \in {s \in SUBSET {"pack_id", "scenario_id", "from", "to", "limit", "challenge"} : Cardinality(s) <= 2}}

MCRequestsOf(path) ==
       {[Plain(path, method) EXCEPT !.origin = from] :
          method \in {"GET", "POST", "OPTIONS"}, from \in {"http_origin", "other"}}
  \cup (IF path \in ReadPaths
        THEN {[Plain(path, "GET") EXCEPT !.query = query, !.challenge = challenge] :
                query \in Queries, challenge \in IF path = "/v1/commerce/proof" THEN BOOLEAN ELSE {FALSE}}
        ELSE {})
  \cup (IF path \in MutationPaths
        THEN {[Plain(path, "POST") EXCEPT !.token = token, !.body = body, !.id = id, !.yes = yes] :
                token \in {"none", "wrong", "right"},
                body \in {"object", "none", "blank", "not_json", "extra_field", "oversize", "broken"},
                id \in {"text", "blank"}, yes \in {"yes", "no", "absent"}}
        ELSE {})
-----------------------------------------------------------------------------
(* One skill of each kind a registry can hold, and what an archive can hold. *)

Bundle ==
  [platform |-> "here", os |-> "ok", arch |-> "ok", url |-> Url("https", "example.org"), sha256 |-> "ok",
   archive |-> "none", suffix |-> "zip", entrypoint |-> <<"bin", "run">>]

Stub ==
  [name |-> "skill", nameSafe |-> TRUE, version |-> 1, versionSafe |-> TRUE, stub |-> TRUE, builtin |-> "none",
   class |-> "none", meters |-> "none", events |-> "none", vendor |-> "first",
   support |-> NoUrl, privacy |-> NoUrl, email |-> "none",
   bundles |-> {[Bundle EXCEPT !.url = NoUrl, !.sha256 = "none", !.suffix = "none", !.entrypoint = <<>>]}]

Package == [Stub EXCEPT !.stub = FALSE, !.bundles = {Bundle}]

MCSkills ==
  { Stub, Package,
    [Stub EXCEPT !.stub = FALSE, !.builtin = "ok"],
    [Package EXCEPT !.bundles = {[Bundle EXCEPT !.url = Url("none", "none"), !.archive = "tgz", !.suffix = "none"]}],
    [Package EXCEPT !.meters = "ok", !.class = "commerce", !.vendor = "third", !.email = "ok",
                    !.support = Url("https", "example.org"), !.privacy = Url("http", "localhost")],
    [Package EXCEPT !.bundles = {[Bundle EXCEPT !.platform = "elsewhere"]}],
    [Package EXCEPT !.bundles = {[Bundle EXCEPT !.entrypoint = <<"..", "run">>]}] }

Packed(path, kind, size, data) == [path |-> path, kind |-> kind, size |-> size, data |-> data]

MCEntries ==
  { Packed(<<"bin", "run">>, "file", 2, 2), Packed(<<"bin", "run">>, "file", 2, 1),
    Packed(<<"bin", "run">>, "dir", 0, 0), Packed(<<"bin", "", "run">>, "file", 1, 2),
    Packed(<<"bin">>, "file", 0, 0), Packed(<<"bin", "">>, "dir", 0, 0), Packed(<<"lib">>, "link", 0, 0),
    Packed(<<"lib">>, "file", 1, 1), Packed(<<"a", "..", "run">>, "file", 1, 1),
    Packed(<<"..", "run">>, "file", 1, 1), Packed(<<"manifest.json">>, "file", 2, 2),
    Packed(<<"lib">>, "file", 15, 5) }
-----------------------------------------------------------------------------
(* Runs of the OCR skill: each action, each profile, and directories in     *)
(* which a file of the profile is right, wrong, empty or not there.         *)

AskedFor(words, profile) == [NoOptions EXCEPT !.asked = words, !.profile = profile]

Filled(paths) == UNION {[some -> {"upstream", "other", "empty"}] : some \in SUBSET paths}

MCDirectories ==
       Filled({V4("det", "mobile"), <<"ppocr_keys_v1.txt">>})
  \cup Filled({V6("tiny", "det", "inference.onnx"), V6("tiny", "rec", "inference.yml")})

Complete == [path \in {V4("det", "mobile"), V4("rec", "mobile"), <<"ppocr_keys_v1.txt">>} |-> "upstream"]

OcrRun(o, found, library, machine) == [options |-> o, found |-> found, library |-> library, machine |-> machine]
Linux == <<"linux", "amd64">>

MCOcrRuns ==
       {OcrRun(AskedFor({"models"}, profile), found, "none", Linux) :
          profile \in {"auto", "ppocrv4", "ppocrv5", "ppocrv6"}, found \in MCDirectories}
  \cup {OcrRun([AskedFor({"models"}, "ppocrv6") EXCEPT !.size = size, !.backend = backend], NoFiles, "none", Linux) :
          size \in {"small", "mobile"}, backend \in {"auto", "ncnn"}}
  \cup {OcrRun(AskedFor({"models", "dry"}, "auto"), NoFiles, "none", Linux)}
  \cup {OcrRun([AskedFor({"runtime"} \cup more, "auto") EXCEPT !.version = version], NoFiles, library, machine) :
          more \in SUBSET {"dry", "keep"}, version \in {<<>>, <<1, 23, 2>>, <<2>>},
          library \in Contents \cup {"none"}, machine \in {Linux, <<"darwin", "amd64">>, <<"plan9", "amd64">>}}
  \cup {OcrRun([AskedFor(words, "auto") EXCEPT !.input = input, !.named = named, !.backend = backend], found, library, Linux) :
          words \in {{"probe"}, {}}, input \in BOOLEAN, named \in {NoOptions.named, "keys" :> <<"words">>},
          backend \in {"auto", "ncnn"}, found \in {NoFiles, Complete}, library \in {"none", "other"}}
=============================================================================
