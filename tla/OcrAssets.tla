------------------------------- MODULE OcrAssets -------------------------------
(***************************************************************************)
(* The built-in OCR skill up to its native adapter: which of a run's       *)
(* arguments decide (builtin_ocr.go), the download of the models           *)
(* (builtin_ocr_assets.go) and of the runtime library                      *)
(* (builtin_ocr_runtime_assets.go), and the files a recognition then       *)
(* looks for.  A run takes no lock: other agtx processes download into the *)
(* same directories meanwhile.                                             *)
(*                                                                         *)
(* A path is a tuple; what matters of a file is whether it is upstream's   *)
(* (what the pinned digest says, where there is one), something else, or   *)
(* empty, and of an archive what its library is.  The machine and the      *)
(* directory a run finds are chosen when it starts.                        *)
(***************************************************************************)
EXTENDS Naturals, SequencesExt, FiniteSets

CONSTANTS
  OcrRuns,        \* runs: what is asked for, the files and library found, GOOS and GOARCH
  Mirrors         \* how many sources a pinned asset has

\* What a file may hold, and an archive: the library, or nothing that can be extracted
\* (it cannot be read, or has no member of that name).
Contents == {"upstream", "other", "empty"}
Archives == Contents \cup {"unusable"}

ASSUME OcrAssumption ==
  /\ Mirrors \in Nat \ {0}
  /\ \A r \in OcrRuns : r.library \in Contents \cup {"none"}
  /\ \A r \in OcrRuns : \A path \in DOMAIN r.found : r.found[path] \in Contents

VARIABLES
  reader,     \* the run: its stage, options, assets left, the source tried, the archive opened, its result
  models,     \* the model directory: what each file holds
  runtime     \* the runtime directory: the library and the archive

ocrVars == <<reader, models, runtime>>

NoOptions == [asked |-> {}, backend |-> "auto", profile |-> "auto", size |-> "auto", version |-> <<>>,
              named |-> [k \in {} |-> <<>>], input |-> FALSE]
NoOcr == [stage |-> "none", options |-> NoOptions, todo |-> <<>>, tried |-> 0, opened |-> "none", result |-> "none"]
NoFiles == [p \in {} |-> "other"]
\* The library and archive where a run looks for them.
NoRuntime == [library |-> "none", archive |-> "none"]

OcrTypeOK ==
  /\ reader.stage \in {"none", "refused", "status", "models", "library", "fetching", "opening", "extracting", "removing", "ended"}
  /\ reader.tried \in 0..Mirrors /\ reader.opened \in Contents \cup {"none"} /\ reader.result \in {"none", "ok", "failed"}
  /\ \A path \in DOMAIN models : models[path] \in Contents
  /\ runtime.library \in Contents \cup {"none"} /\ runtime.archive \in Archives \cup {"none"}

OcrInit == reader = NoOcr /\ models = NoFiles /\ runtime = NoRuntime

-----------------------------------------------------------------------------
(* The configuration of a run.                                              *)

Backend(o) == IF o.backend = "ncnn" THEN "ncnn" ELSE "onnxruntime"
Profile(o) == IF o.profile = "auto" THEN "rapidocr" ELSE o.profile
ModelSize(o) == IF o.size # "auto" THEN o.size ELSE IF Profile(o) = "ppocrv6" THEN "tiny" ELSE "mobile"

V4(kind, variant) == <<"ch_PP-OCRv4", kind, variant>>
V6(size, kind, file) == <<"PP-OCRv6", size, kind, file>>
V6Sizes == <<"tiny", "small", "medium">>

\* builtinOCRModelFileCandidates, in the order they are tried.
FileCandidates(o, kind) ==
  LET plain == <<<<Profile(o), kind, "onnx">>, <<kind, "onnx">>>>
      variants(name, all) == [i \in DOMAIN all |-> <<name, kind, all[i]>>]
  IN  CASE Backend(o) = "ncnn" -> <<<<Profile(o), kind, "param">>, <<kind, "param">>>>
        [] Backend(o) # "ncnn" /\ Profile(o) = "rapidocr" ->
             <<V4(kind, "mobile"), V4(kind, "infer"), <<"PP-OCRv4", kind, "mobile">>, <<"onnx", kind, "infer">>>> \o plain
        [] Backend(o) # "ncnn" /\ Profile(o) = "ppocrv6" ->
             plain \o variants("PP-OCRv6", V6Sizes) \o [i \in 1..3 |-> V6(V6Sizes[i], kind, "inference.onnx")]
             \o variants("ch_PP-OCRv6", <<"plain", "server", "mobile">>)
        [] Backend(o) # "ncnn" /\ Profile(o) = "ppocrv5" -> plain \o variants("ch_PP-OCRv5", <<"plain", "server", "mobile">>)
        [] Backend(o) # "ncnn" /\ Profile(o) = "ppocrv4" -> plain \o variants("ch_PP-OCRv4", <<"mobile", "plain", "infer">>)
        [] OTHER -> plain

\* builtinOCRKeysCandidates.
KeysCandidates ==
  <<<<"keys.txt">>, <<"ppocr_keys_v1.txt">>, <<"ppocrv5_dict.txt">>, <<"dict.txt">>, <<"inference.yml">>, <<"inference.yaml">>>>
  \o [i \in 1..3 |-> V6(V6Sizes[i], "rec", "inference.yml")]

\* The first that exists, or else the one that is then reported missing.
FirstOr(candidates, default) ==
  LET found == SelectInSeq(candidates, LAMBDA path : path \in DOMAIN models)
  IN  IF found = 0 THEN default ELSE candidates[found]

ModelFile(o, kind) ==
  IF kind \in DOMAIN o.named THEN o.named[kind]
  ELSE FirstOr(FileCandidates(o, kind), FileCandidates(o, kind)[1])

KeysFile(o) ==
  IF "keys" \in DOMAIN o.named THEN o.named["keys"] ELSE FirstOr(KeysCandidates, <<"ppocr_keys_v1.txt">>)

WeightsFile(o, kind) ==
  LET candidates == <<<<Profile(o), kind, "bin">>, <<kind, "bin">>>> IN FirstOr(candidates, candidates[1])

\* requiredFiles.
RequiredFiles(o) ==
  {ModelFile(o, "det"), ModelFile(o, "rec"), KeysFile(o)}
  \cup (IF Backend(o) = "ncnn" THEN {WeightsFile(o, "det"), WeightsFile(o, "rec")} ELSE {})

\* builtinOCRStatus as far as the adapter's own probe; a file need only be there.
OcrStatus(o, linked) ==
  CASE ~linked -> "not_linked"
    [] linked /\ runtime.library = "none" -> "no_library"
    [] linked /\ runtime.library # "none" /\ RequiredFiles(o) \ DOMAIN models # {} -> "no_models"
    [] OTHER -> "probe"

-----------------------------------------------------------------------------
(* What there is to download.                                               *)

Asset(path, pinned) == [path |-> path, pinned |-> pinned, urls |-> IF pinned THEN Mirrors ELSE 1]

\* builtinOCRAssetSources, without what is refused.
AssetSources(o) ==
  CASE Backend(o) = "onnxruntime" /\ Profile(o) \in {"rapidocr", "ppocrv4"} /\ ModelSize(o) = "mobile" ->
         <<Asset(V4("det", "mobile"), TRUE), Asset(V4("rec", "mobile"), TRUE), Asset(<<"ppocr_keys_v1.txt">>, TRUE)>>
    [] Backend(o) = "onnxruntime" /\ Profile(o) = "ppocrv6" /\ ModelSize(o) \in ToSet(V6Sizes) ->
         <<Asset(V6(ModelSize(o), "det", "inference.onnx"), FALSE), Asset(V6(ModelSize(o), "det", "inference.yml"), FALSE),
           Asset(V6(ModelSize(o), "rec", "inference.onnx"), FALSE), Asset(V6(ModelSize(o), "rec", "inference.yml"), FALSE)>>
    [] OTHER -> <<>>

\* onnxRuntimeVersionAtLeast: three numbers, or no version of that form.
AtLeast(version, minimum) ==
  /\ Len(version) = 3
  /\ \/ version = minimum
     \/ \E i \in 1..3 : version[i] > minimum[i] /\ \A j \in 1..(i - 1) : version[j] = minimum[j]

Version(o) == IF o.version = <<>> THEN <<1, 26, 0>> ELSE o.version

\* onnxRuntimeArchiveInfoFor.
Published(machine, version) ==
  /\ machine[1] \in {"windows", "darwin", "linux"} /\ machine[2] \in {"amd64", "arm64"}
  /\ machine = <<"darwin", "amd64">> => ~AtLeast(version, <<1, 24, 0>>)

-----------------------------------------------------------------------------
(* A run.                                                                   *)

OcrGoTo(stage) == reader' = [reader EXCEPT !.stage = stage]
OcrEnd(result) == reader' = [reader EXCEPT !.stage = "ended", !.result = result]

\* The stage an action starts in, the runtime's download being looked at first.
FirstStage(o, machine) ==
  CASE "runtime" \in o.asked -> IF Backend(o) = "onnxruntime" /\ Published(machine, Version(o)) THEN "library" ELSE "refused"
    [] "runtime" \notin o.asked /\ "models" \in o.asked -> IF AssetSources(o) = <<>> THEN "refused" ELSE "models"
    [] OTHER -> "status"

\* runBuiltinOCR.
OcrStarts(r) ==
  /\ models' = r.found
  /\ runtime' = [NoRuntime EXCEPT !.library = r.library]
  /\ reader' = [NoOcr EXCEPT !.options = r.options, !.stage = FirstStage(r.options, r.machine), !.todo = AssetSources(r.options)]

OcrRefused == reader.stage = "refused" /\ OcrEnd("failed") /\ UNCHANGED <<models, runtime>>

\* A probe reports the status; a recognition needs an input, then the status, and is then
\* the adapter's, with a text or an error.
OcrRecognizes(linked, read) ==
  /\ reader.stage = "status"
  /\ OcrEnd(IF "probe" \in reader.options.asked
                \/ (reader.options.input /\ OcrStatus(reader.options, linked) = "probe" /\ read)
            THEN "ok" ELSE "failed")
  /\ UNCHANGED <<models, runtime>>

Held(path) == IF path \in DOMAIN models THEN models[path] ELSE "none"

\* Mutant: a file that is there is not looked into.
InPlace0(asset) == Held(asset.path) \in {"upstream", "other"}

\* An asset that need not be downloaded: a file with something in it, and the digest.
InPlace(asset) ==
  /\ Held(asset.path) \in {"upstream", "other"}
  /\ asset.pinned => Held(asset.path) = "upstream"

Placed(path, content) == [p \in DOMAIN models \cup {path} |-> IF p = path THEN content ELSE models[p]]

NextAsset == reader' = [reader EXCEPT !.todo = Tail(@), !.tried = 0]

\* downloadBuiltinOCRAssets: planned, there already, or to be downloaded.
AssetSkipped ==
  /\ reader.stage = "models" /\ reader.todo # <<>> /\ reader.tried = 0
  /\ "dry" \in reader.options.asked \/ InPlace(Head(reader.todo))
  /\ NextAsset
  /\ UNCHANGED <<models, runtime>>

AssetNeeded ==
  /\ reader.stage = "models" /\ reader.todo # <<>> /\ reader.tried = 0
  /\ "dry" \notin reader.options.asked /\ ~InPlace(Head(reader.todo))
  /\ reader' = [reader EXCEPT !.tried = 1]
  /\ UNCHANGED <<models, runtime>>

\* The digest of what was read, if there is one to compare with.
Acceptable(asset, content) == asset.pinned => content = "upstream"

\* downloadBuiltinOCRAssetFromURL with a temporary file, and replaceFile.
AssetArrives(content) ==
  /\ reader.stage = "models" /\ reader.tried > 0
  /\ Acceptable(Head(reader.todo), content)
  /\ models' = Placed(Head(reader.todo).path, content)
  /\ NextAsset
  /\ UNCHANGED runtime

\* A source fails, or serves something else: the next one; after the last the run ends,
\* with the assets before it in place.
SourceFails ==
  /\ reader.stage = "models" /\ reader.tried > 0
  /\ IF reader.tried < Head(reader.todo).urls
     THEN reader' = [reader EXCEPT !.tried = @ + 1]
     ELSE OcrEnd("failed")
  /\ UNCHANGED <<models, runtime>>

AssetsDone ==
  /\ reader.stage = "models" /\ reader.todo = <<>>
  /\ OcrEnd("ok")
  /\ UNCHANGED <<models, runtime>>

\* downloadBuiltinOCRRuntime: planned, or a file with something in it, whatever it is.
LibraryThere ==
  /\ reader.stage = "library"
  /\ "dry" \in reader.options.asked \/ runtime.library \notin {"none", "empty"}
  /\ OcrEnd("ok")
  /\ UNCHANGED <<models, runtime>>

LibraryNeeded ==
  /\ reader.stage = "library"
  /\ "dry" \notin reader.options.asked /\ runtime.library \in {"none", "empty"}
  /\ OcrGoTo("fetching")
  /\ UNCHANGED <<models, runtime>>

\* The archive has one source and no digest.
ArchiveArrives(content) ==
  /\ reader.stage = "fetching"
  /\ IF content = "none"
     THEN OcrEnd("failed") /\ UNCHANGED runtime
     ELSE OcrGoTo("opening") /\ runtime' = [runtime EXCEPT !.archive = content]
  /\ UNCHANGED models

\* extractONNXRuntimeLibrary opens the archive by its name; one that was opened is read
\* to the end whatever happens to the name.
ArchiveOpened ==
  /\ reader.stage = "opening"
  /\ IF runtime.archive \in Contents
     THEN reader' = [reader EXCEPT !.stage = "extracting", !.opened = runtime.archive]
     ELSE OcrEnd("failed")
  /\ UNCHANGED <<models, runtime>>

\* writeRuntimeLibrary: the member as it is into a temporary file, renamed; a full disk
\* or a member cut short ends it before.
LibraryExtracted(copied) ==
  /\ reader.stage = "extracting"
  /\ IF copied
     THEN OcrGoTo("removing") /\ runtime' = [runtime EXCEPT !.library = reader.opened]
     ELSE OcrEnd("failed") /\ UNCHANGED runtime
  /\ UNCHANGED models

\* An archive that is gone is no error, one that cannot be removed is.
ArchiveRemoved(removed) ==
  /\ reader.stage = "removing"
  /\ IF "keep" \in reader.options.asked
     THEN OcrEnd("ok") /\ UNCHANGED runtime
     ELSE IF removed THEN OcrEnd("ok") /\ runtime' = [runtime EXCEPT !.archive = "none"]
          ELSE OcrEnd("failed") /\ UNCHANGED runtime
  /\ UNCHANGED models

OcrReturns ==
  /\ reader.stage = "ended"
  /\ reader' = NoOcr /\ models' = NoFiles /\ runtime' = NoRuntime

OcrStep ==
  \/ reader.stage = "none" /\ \E r \in OcrRuns : OcrStarts(r)
  \/ OcrRefused
  \/ \E linked, read \in BOOLEAN : OcrRecognizes(linked, read)
  \/ AssetSkipped \/ AssetNeeded
  \/ \E content \in Contents : AssetArrives(content)
  \/ SourceFails
  \/ AssetsDone
  \/ LibraryThere \/ LibraryNeeded
  \/ \E content \in Archives \cup {"none"} : ArchiveArrives(content)
  \/ ArchiveOpened
  \/ \E copied \in BOOLEAN : LibraryExtracted(copied)
  \/ \E removed \in BOOLEAN : ArchiveRemoved(removed)

-----------------------------------------------------------------------------
(* Other processes that download the same.                                  *)

OtherAsset ==
  /\ reader.stage = "models"
  /\ \E asset \in ToSet(AssetSources(reader.options)), content \in Contents :
       /\ Acceptable(asset, content)
       /\ models' = Placed(asset.path, content)
  /\ UNCHANGED <<reader, runtime>>

\* The archive another process extracts may be one it opened before.
OtherRuntime ==
  /\ reader.stage \in {"library", "fetching", "opening", "extracting", "removing"}
  /\ \/ \E content \in Archives \cup {"none"} : runtime' = [runtime EXCEPT !.archive = content]
     \/ \E content \in Contents : runtime' = [runtime EXCEPT !.library = content]
  /\ UNCHANGED <<reader, models>>

-----------------------------------------------------------------------------
(* Properties.                                                              *)

Loaded(what) == reader.result = "ok" /\ what \in reader.options.asked /\ "dry" \notin reader.options.asked

\* A download that succeeds leaves every model in place, a pinned one with the bytes it
\* is pinned to, whatever the sources served, what lay there before and other downloads
\* did, and a recognition with the same options then finds the files it needs.  Of the
\* runtime, which nothing is compared with, it leaves a library and no more is sure.
DownloadsAreUsable ==
  /\ Loaded("models") /\ "runtime" \notin reader.options.asked =>
       /\ \A asset \in ToSet(AssetSources(reader.options)) :
            /\ asset.path \in DOMAIN models
            /\ asset.pinned => models[asset.path] = "upstream"
       /\ DOMAIN reader.options.named = {} => RequiredFiles(reader.options) \subseteq DOMAIN models
  /\ Loaded("runtime") => OcrStatus(reader.options, TRUE) # "no_library"
=============================================================================
