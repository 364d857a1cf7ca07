------------------------------- MODULE ToolCalls -------------------------------
(***************************************************************************)
(* What callTool (internal/mcp/server.go) makes of the arguments of a tool *)
(* call: the getters each case of its switch applies, in the order that    *)
(* decides which of them run, and what it refuses before a Service method  *)
(* is called.                                                              *)
(*                                                                         *)
(* A call is a record [tool, args, ocr]: args and ocr are functions from   *)
(* the names present to shapes, ocr being the object given as "ocr".       *)
(***************************************************************************)
EXTENDS ToolSchemas

IsCall(call) ==
  /\ call = [tool |-> call.tool, args |-> call.args, ocr |-> call.ocr]
  /\ call.args = [n \in DOMAIN call.args |-> call.args[n]]

Arg(call, name) == IF name \in DOMAIN call.args THEN call.args[name] ELSE "absent"

\* strings.TrimSpace(value) == "": null decodes to the empty string.
Blank(shape) == shape \in {"absent", "null", "empty", "blank"}

\* The typed getters: null is a zero value, which PositiveInt refuses.
Reads(getter) ==
  CASE getter = "String"      -> Texts \cup {"null"}
    [] getter = "Bool"        -> {"yes", "no", "null"}
    [] getter = "PositiveInt" -> {"count"}
    [] getter = "StringSlice" -> {"words", "none", "null"}
    [] getter = "Options"     -> {"object", "null"}

\* reads: the getter of each argument; needs: those that must not be blank.
Case(reads, needs) == [reads |-> reads, needs |-> needs]

RecordReads == Joined({All(Filters, "String"), [limit |-> "PositiveInt"]})

CatalogueCases ==
  [search_skills |-> Case([query |-> "String", limit |-> "PositiveInt"], {"query"}),
   list_skills |-> Case([installed |-> "Bool", available |-> "Bool"], {}),
   list_capability_scenarios |-> Case([pack_id |-> "String"], {}),
   get_capability_scenario |-> Case([scenario |-> "String"], {"scenario"})]

PackCases ==
  [plan_capability_pack_install |-> Case([pack |-> "String"], {"pack"}),
   install_capability_pack |-> Case([pack |-> "String", yes |-> "Bool"], {"pack"}),
   plan_capability_scenario_install |-> Case([scenario |-> "String"], {"scenario"}),
   install_capability_scenario |-> Case([scenario |-> "String", yes |-> "Bool"], {"scenario"})]

RecordCases == [t \in RecordTools |-> Case(RecordReads, {})]

ProofCases ==
  [get_capability_scenario_ledger |-> Case(Joined({[scenario |-> "String"], RecordReads}), {"scenario"}),
   get_commerce_proof |-> Case([challenge |-> "String"], {"challenge"}),
   submit_commerce_proof |-> Case([challenge |-> "String", yes |-> "Bool"], {"challenge"})]

BareCases == [t \in BareTools |-> Case(NoProperties, {})]

AccountCases ==
  [complete_pro_login |-> Case([callback_uri |-> "String"], {"callback_uri"}),
   revoke_pro_device |-> Case([device_id |-> "String", yes |-> "Bool"], {"device_id"})]

InspectCases ==
  [get_agent_target |-> Case([target |-> "String"], {"target"}),
   verify_skill |-> Case([skill |-> "String"], {"skill"}),
   validate_registry |-> Case([path |-> "String"], {"path"})]

SkillCases ==
  [plan_install |-> Case([skills |-> "StringSlice", skill |-> "String"], {}),
   install_skill |-> Case([skill |-> "String", yes |-> "Bool"], {"skill"}),
   upgrade_skill |-> Case([skill |-> "String", plan |-> "Bool", yes |-> "Bool"], {}),
   rollback_skill |-> Case([skill |-> "String", to |-> "String", plan |-> "Bool", yes |-> "Bool"], {"skill"}),
   uninstall_skill |-> Case([skill |-> "String", all_versions |-> "Bool", plan |-> "Bool", yes |-> "Bool"], {"skill"})]

RunCase ==
  [run_skill |->
     Case([skill |-> "String", input |-> "String", input_base64 |-> "String", input_path |-> "String",
           scenario_id |-> "String", agent_name |-> "String", args |-> "StringSlice", ocr |-> "Options",
           timeout_ms |-> "PositiveInt", output_limit_bytes |-> "PositiveInt"], {"skill"})]

Cases ==
  Joined({CatalogueCases, PackCases, RecordCases, ProofCases, BareCases, AccountCases, InspectCases, SkillCases, RunCase})

Planning(call) == call.tool \in ToolNames /\ "plan" \in DOMAIN Cases[call.tool].reads /\ Arg(call, "plan") = "yes"

\* A plan is made before "yes" is looked at, and "skill" only when there are no "skills".
Looked(call) ==
  CASE Planning(call) -> DOMAIN Cases[call.tool].reads \ {"yes"}
    [] call.tool = "plan_install" /\ Arg(call, "skills") = "words" -> {"skills"}
    [] OTHER -> DOMAIN Cases[call.tool].reads

\* ValidateRecordQueryOptions.
TimesInOrder(call) ==
  /\ \A n \in {"from", "to"} : Blank(Arg(call, n)) \/ Arg(call, n) \in {"stamp_1", "stamp_2"}
  /\ ~(Arg(call, "from") = "stamp_2" /\ Arg(call, "to") = "stamp_1")

\* ocrToolOptions and its args(): decoded strictly, one action, known values, and
\* numbers above zero.  null leaves an option unset.
OcrUsable(ocr) ==
  LET set(names) == {n \in names \cap DOMAIN ocr : ocr[n] # "null"} IN
  /\ DOMAIN ocr \subseteq DOMAIN OcrSchema.properties
  /\ \A n \in set(OcrActions \cup {"dry_run", "keep_archive"}) : ocr[n] \in {"yes", "no"}
  /\ ~(\E a, b \in OcrActions \cap DOMAIN ocr : a # b /\ ocr[a] = "yes" /\ ocr[b] = "yes")
  /\ \A n \in set(OcrEnums) : ocr[n] = "member" \/ Blank(ocr[n])
  /\ \A n \in set(OcrPaths) : ocr[n] \in Texts
  /\ \A n \in set(OcrSizes) : ocr[n] = "count"
  /\ \A n \in set(OcrThresholds) : ocr[n] \in {"count", "half"}

RunInput(call) ==
  /\ Blank(Arg(call, "input")) \/ Blank(Arg(call, "input_base64"))
  /\ Blank(Arg(call, "input_base64")) \/ Arg(call, "input_base64") = "base64"
  /\ Arg(call, "ocr") = "object" => Arg(call, "skill") = "ocr_name" /\ OcrUsable(call.ocr)

\* Mutant: unknown names pass, a blank argument counts, and the rest is not looked at.
Readable0(call) ==
  /\ \A n \in Looked(call) \cap DOMAIN call.args : call.args[n] \in Reads(Cases[call.tool].reads[n])
  /\ \A n \in Cases[call.tool].needs : Arg(call, n) # "absent"

\* parseToolArguments and the getters of the call's case.
Readable(call) ==
  /\ DOMAIN call.args \subseteq Allowed(call.tool)
  /\ \A n \in Looked(call) \cap DOMAIN call.args : call.args[n] \in Reads(Cases[call.tool].reads[n])
  /\ \A n \in Cases[call.tool].needs : ~Blank(Arg(call, n))
  /\ call.tool = "plan_install" => Arg(call, "skills") = "words" \/ ~Blank(Arg(call, "skill"))
  /\ "from" \in Allowed(call.tool) => TimesInOrder(call)
  /\ call.tool = "run_skill" => RunInput(call)

\* The Service method behind a tool: the ones that change managed state by name.
Method(call) ==
  IF Planning(call) THEN "Plan" ELSE
  CASE call.tool = "install_capability_pack" -> "InstallCapabilityPack"
    [] call.tool = "install_capability_scenario" -> "InstallCapabilityScenario"
    [] call.tool = "submit_commerce_proof" -> "SubmitCommerceProof"
    [] call.tool = "revoke_pro_device" -> "ProRevokeDevice"
    [] call.tool = "install_skill" -> "InstallSkills"
    [] call.tool = "upgrade_skill" -> "UpgradeSkills"
    [] call.tool = "rollback_skill" -> "RollbackSkill"
    [] call.tool = "uninstall_skill" -> "UninstallSkill"
    [] call.tool = "run_skill" -> "RunSkill"
    [] OTHER -> "Other"

\* The cases that ask for "yes" unless they plan.
Asks(call) == "yes" \in DOMAIN Cases[call.tool].reads /\ ~Planning(call)

\* Mutant: the confirmation is asked for before the other arguments are read.
Verdict0(call) ==
  CASE call.tool \notin ToolNames -> "unknown_tool"
    [] Asks(call) /\ Arg(call, "yes") # "yes" -> "confirmation_required"
    [] ~Readable(call) -> "invalid_argument"
    [] OTHER -> "call"

Verdict(call) ==
  CASE call.tool \notin ToolNames -> "unknown_tool"
    [] call.tool \in ToolNames /\ ~Readable(call) -> "invalid_argument"
    [] call.tool \in ToolNames /\ Readable(call) /\ Asks(call) /\ Arg(call, "yes") # "yes" -> "confirmation_required"
    [] OTHER -> "call"
=============================================================================
