------------------------------ MODULE ToolSchemas ------------------------------
(***************************************************************************)
(* What the MCP server says about its tools: the input schemas of tools()  *)
(* and the names of allowedToolArguments (internal/mcp/server.go).         *)
(*                                                                         *)
(* A JSON value is one of the Shapes, which is all that the schemas and    *)
(* the getters of ToolCalls tell apart.                                    *)
(***************************************************************************)
EXTENDS Tables

\* "stamp_1" and "stamp_2" are RFC 3339 times, in that order; "member" is a value
\* of the enumeration it is given for; "base64" decodes; "ocr_name" is an alias
\* of the OCR skill; "blank" is made of spaces only.
Texts == {"text", "empty", "blank", "stamp_1", "stamp_2", "member", "base64", "ocr_name"}

\* "count" is a positive integer, "half" a positive fraction, "words" a list of
\* strings, "none" an empty list, "mixed" a list with something else in it.
Shapes == Texts \cup {"null", "yes", "no", "count", "zero", "half", "words", "none", "mixed", "object"}

NoProperties == [n \in {} |-> ""]
All(names, type) == [n \in names |-> type]

Accepted(type) ==
  CASE type = "string"          -> Texts
    [] type = "nonEmptyString"  -> Texts \ {"empty"}
    [] type = "enum"            -> {"member"}
    [] type = "boolean"         -> {"yes", "no"}
    [] type = "positiveInteger" -> {"count"}
    [] type = "number"          -> {"count", "zero", "half"}
    [] type = "strings"         -> {"words", "none"}
    [] type = "nonEmptyStrings" -> {"words"}
    [] type = "object"          -> {"object"}

\* objectSchema: no additional properties; one argument of each set is required.
Object(properties, required) == [properties |-> properties, required |-> required]
One(name) == {{name}}

SchemaAccepts(schema, args) ==
  /\ DOMAIN args \subseteq DOMAIN schema.properties
  /\ \A n \in DOMAIN args : args[n] \in Accepted(schema.properties[n])
  /\ \A choice \in schema.required : choice \cap DOMAIN args # {}

-----------------------------------------------------------------------------
(* tools().                                                                 *)

Filters == {"pack_id", "scenario_id", "skill", "status", "type", "currency", "from", "to"}

RecordQuery == Joined({All(Filters, "string"), [limit |-> "positiveInteger"]})

CatalogueSchemas ==
  [search_skills |-> Object([query |-> "nonEmptyString", limit |-> "positiveInteger"], One("query")),
   list_skills |-> Object([installed |-> "boolean", available |-> "boolean"], {}),
   list_capability_scenarios |-> Object([pack_id |-> "string"], {}),
   get_capability_scenario |-> Object([scenario |-> "nonEmptyString"], One("scenario")),
   get_agent_target |-> Object([target |-> "nonEmptyString"], One("target")),
   validate_registry |-> Object([path |-> "nonEmptyString"], One("path"))]

PackSchemas ==
  [plan_capability_pack_install |-> Object([pack |-> "nonEmptyString"], One("pack")),
   install_capability_pack |-> Object([pack |-> "nonEmptyString", yes |-> "boolean"], One("pack")),
   plan_capability_scenario_install |-> Object([scenario |-> "nonEmptyString"], One("scenario")),
   install_capability_scenario |->
     Object([scenario |-> "nonEmptyString", yes |-> "boolean"], One("scenario"))]

RecordTools == {"list_install_records", "list_billing_records", "list_commerce_receipts", "get_commerce_snapshot"}

RecordSchemas == [t \in RecordTools |-> Object(RecordQuery, {})]

ProofSchemas ==
  [get_capability_scenario_ledger |->
     Object(Joined({RecordQuery, [scenario |-> "nonEmptyString"]}), One("scenario")),
   get_commerce_proof |-> Object([challenge |-> "nonEmptyString"], One("challenge")),
   submit_commerce_proof |-> Object([challenge |-> "nonEmptyString", yes |-> "boolean"], One("challenge"))]

BareTools == {"list_capability_packs", "get_commerce_integrity", "list_agent_targets", "get_status",
              "list_config_keys", "list_registry_sources", "get_pro_status", "get_pro_setup", "start_pro_login",
              "list_pro_devices", "logout_pro", "register_pro_scheme", "doctor", "refresh_registry"}

BareSchemas == [t \in BareTools |-> Object(NoProperties, {})]

AccountSchemas ==
  [complete_pro_login |-> Object([callback_uri |-> "nonEmptyString"], One("callback_uri")),
   revoke_pro_device |-> Object([device_id |-> "nonEmptyString", yes |-> "boolean"], One("device_id"))]

SkillSchemas ==
  [verify_skill |-> Object([skill |-> "nonEmptyString"], One("skill")),
   plan_install |->
     Object([skill |-> "nonEmptyString", skills |-> "nonEmptyStrings"], {{"skill", "skills"}}),
   install_skill |-> Object([skill |-> "nonEmptyString", yes |-> "boolean"], One("skill")),
   upgrade_skill |-> Object([skill |-> "nonEmptyString", yes |-> "boolean", plan |-> "boolean"], {}),
   rollback_skill |->
     Object([skill |-> "nonEmptyString", to |-> "nonEmptyString", yes |-> "boolean", plan |-> "boolean"], One("skill")),
   uninstall_skill |->
     Object([skill |-> "nonEmptyString", all_versions |-> "boolean", yes |-> "boolean", plan |-> "boolean"], One("skill"))]

RunSchema ==
  [run_skill |->
     Object([skill |-> "nonEmptyString", input |-> "string", input_base64 |-> "string", input_path |-> "string",
             scenario_id |-> "string", agent_name |-> "string", args |-> "strings", timeout_ms |-> "positiveInteger",
             output_limit_bytes |-> "positiveInteger", ocr |-> "object"], One("skill"))]

\* ocrRunOptionsSchema.
OcrActions == {"probe", "download_runtime", "download_models"}
OcrEnums == {"backend", "model_profile", "model_size"}
OcrSizes == {"det_limit_side_len", "max_candidates", "rec_width", "rec_height", "rec_max_width"}
OcrThresholds == {"det_threshold", "box_threshold", "unclip_ratio", "text_score"}
OcrPaths == {"model_dir", "runtime_dir", "runtime_version", "det_model", "rec_model", "keys", "det_input",
             "det_output", "rec_input", "rec_output"}

OcrSchema ==
  Object(Joined({All(OcrActions \cup {"dry_run", "keep_archive"}, "boolean"), All(OcrEnums, "enum"),
                 All(OcrPaths, "string"), All(OcrSizes, "positiveInteger"), All(OcrThresholds, "number")}), {})

Schemas ==
  Joined({CatalogueSchemas, PackSchemas, RecordSchemas, ProofSchemas, BareSchemas, AccountSchemas, SkillSchemas, RunSchema})

ToolNames == DOMAIN Schemas

\* The tools described as "Requires yes=true".
Confirmed == {"install_capability_pack", "install_capability_scenario", "submit_commerce_proof",
              "revoke_pro_device", "install_skill", "upgrade_skill", "rollback_skill", "uninstall_skill"}

-----------------------------------------------------------------------------

\* allowedToolArguments: the names a call of the tool may carry.
Allowed(tool) ==
  CASE tool = "search_skills" -> {"query", "limit"}
    [] tool = "list_skills" -> {"installed", "available"}
    [] tool = "list_capability_scenarios" -> {"pack_id"}
    [] tool \in {"get_capability_scenario", "plan_capability_scenario_install"} -> {"scenario"}
    [] tool = "plan_capability_pack_install" -> {"pack"}
    [] tool = "install_capability_pack" -> {"pack", "yes"}
    [] tool = "install_capability_scenario" -> {"scenario", "yes"}
    [] tool = "get_capability_scenario_ledger" -> Filters \cup {"scenario", "limit"}
    [] tool \in RecordTools -> Filters \cup {"limit"}
    [] tool = "get_commerce_proof" -> {"challenge"}
    [] tool = "submit_commerce_proof" -> {"challenge", "yes"}
    [] tool = "get_agent_target" -> {"target"}
    [] tool \in BareTools -> {}
    [] tool = "validate_registry" -> {"path"}
    [] tool = "complete_pro_login" -> {"callback_uri"}
    [] tool = "revoke_pro_device" -> {"device_id", "yes"}
    [] tool = "verify_skill" -> {"skill"}
    [] tool = "plan_install" -> {"skill", "skills"}
    [] tool = "install_skill" -> {"skill", "yes"}
    [] tool = "upgrade_skill" -> {"skill", "yes", "plan"}
    [] tool = "rollback_skill" -> {"skill", "to", "yes", "plan"}
    [] tool = "uninstall_skill" -> {"skill", "all_versions", "yes", "plan"}
    [] tool = "run_skill" -> {"skill", "args", "input", "input_base64", "input_path", "timeout_ms",
                              "output_limit_bytes", "scenario_id", "agent_name", "ocr"}
=============================================================================
