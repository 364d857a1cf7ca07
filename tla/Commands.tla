-------------------------------- MODULE Commands --------------------------------
(***************************************************************************)
(* How the command line reads its arguments (internal/cli/cli.go): the     *)
(* flags each command takes out of them, in several passes, what is left,  *)
(* and what the command makes of it before it calls the Service.           *)
(*                                                                         *)
(* A token is a record [kind, flag, value]: a "word" or "number", a "flag" *)
(* (--to), an "assign" (--to=1.0, with value "empty" for --to=), or a mark *)
(* "missing" or "invalid" that a pass leaves behind (__missing_--to).      *)
(***************************************************************************)
EXTENDS Naturals, Sequences, SequencesExt, FiniteSetsExt, Tables

NoText == ""
Word == [kind |-> "word", flag |-> NoText, value |-> "word"]
Empty == [kind |-> "word", flag |-> NoText, value |-> NoText]
Number == [kind |-> "number", flag |-> NoText, value |-> "number"]
Dashes == [kind |-> "dashes", flag |-> "--", value |-> NoText]
Flag(name) == [kind |-> "flag", flag |-> name, value |-> NoText]
Assign(name, value) == [kind |-> "assign", flag |-> name, value |-> value]
Mark(kind, name) == [kind |-> kind, flag |-> name, value |-> NoText]
IsToken(t) == t \in {Word, Empty, Number, Dashes} \/ t = Flag(t.flag) \/ t = Assign(t.flag, t.value)
Text(t) == IF t.kind \in {"word", "number"} THEN t.value ELSE t.flag

Json == {"--json"}
Confirm == {"--yes", "-y"}
RecordFlags == <<"--pack-id", "--scenario-id", "--skill", "--status", "--type", "--currency", "--from", "--to", "--limit">>
NumberFlags == {"--limit", "--timeout-ms", "--output-limit-bytes"}

-----------------------------------------------------------------------------
(* The commands: switches taken by takeBoolFlag, values by takeStringFlag   *)
(* and takeIntFlag in that order, known the list the command reports, least *)
(* and most the number of arguments it wants left.                          *)

Unlimited == 99

Takes(switches, values, least, most) ==
  [switches |-> switches, values |-> values, known |-> switches \cup ToSet(values), least |-> least, most |-> most]

ConfigCommands ==
  [config_init |-> Takes(Json \cup {"--force"}, <<>>, 0, 0),
   config_path |-> Takes(Json, <<>>, 0, 0),
   config_show |-> Takes(Json, <<>>, 0, 0),
   config_keys |-> Takes(Json, <<>>, 0, 0),
   config_set |-> Takes(Json, <<>>, 2, 2),
   config_unset |-> Takes(Json, <<>>, 1, 1)]

FindCommand == [search |-> Takes(Json, <<"--limit">>, 1, Unlimited)]

InstallCommand == [install |-> Takes(Json \cup Confirm \cup {"--plan"}, <<>>, 1, Unlimited)]

RemoveCommands ==
  [uninstall |-> Takes(Json \cup Confirm \cup {"--plan", "--all-versions"}, <<>>, 1, 1),
   list |-> Takes(Json \cup {"--installed", "--available"}, <<>>, 0, 0)]

VersionCommands ==
  [upgrade |-> Takes(Json \cup Confirm \cup {"--plan"}, <<>>, 0, Unlimited),
   rollback |-> Takes(Json \cup Confirm \cup {"--plan"}, <<"--to">>, 1, 1)]

RunCommand ==
  [run |-> Takes(Json \cup {"--ndjson"},
                 <<"--input", "--timeout-ms", "--output-limit-bytes", "--scenario-id", "--agent-name", "--goal">>, 0, Unlimited)]

InspectCommands ==
  [status |-> Takes(Json, <<>>, 0, 0),
   doctor |-> Takes(Json, <<>>, 0, 0),
   verify |-> Takes(Json, <<>>, 1, 1)]

RegistryCommands ==
  [registry_sources |-> Takes(Json, <<>>, 0, 0),
   registry_refresh |-> Takes(Json, <<>>, 0, 0),
   registry_validate |-> Takes(Json, <<>>, 1, 1),
   registry_status |-> Takes(Json, <<"--file", "--platforms", "--accounts">>, 0, 0),
   registry_demo_release |->
     Takes(Json, <<"--out", "--base-url", "--version", "--package-prefix", "--skills", "--platforms", "--accounts">>, 0, 0)]

PackCommands ==
  [commerce_packs |-> Takes(Json, <<"--pack-id">>, 0, 0),
   commerce_scenarios |-> Takes(Json, <<"--scenario-id", "--pack-id">>, 0, 0),
   commerce_install_pack |-> Takes(Json \cup Confirm \cup {"--plan"}, <<>>, 1, 1),
   commerce_install_scenario |-> Takes(Json \cup Confirm \cup {"--plan"}, <<>>, 1, 1)]

\* The receipts list of known flags is shorter than the flags it takes.
RecordCommands ==
  [commerce_scenario_ledger |-> Takes(Json, RecordFlags, 1, 1),
   commerce_install_records |-> Takes(Json, RecordFlags, 0, 0),
   commerce_billing_records |-> Takes(Json, RecordFlags, 0, 0),
   commerce_receipts |->
     [Takes(Json, RecordFlags, 0, 0) EXCEPT !.known = Json \cup {"--status", "--from", "--to", "--limit"}]]

ProofCommands ==
  [commerce_integrity |-> Takes(Json, <<>>, 0, 0),
   commerce_proof |-> Takes(Json, <<"--challenge">>, 0, 0),
   commerce_submit_proof |-> Takes(Json \cup Confirm, <<"--challenge">>, 0, 0),
   commerce_snapshot |-> Takes(Json, <<"--out">> \o RecordFlags, 0, 0),
   commerce_serve |-> Takes(Json, <<"--addr", "--allow-origin">>, 0, 0)]

AuthCommands ==
  [pro_login |-> Takes(Json \cup {"--open"}, <<>>, 0, 0),
   pro_callback |-> Takes(Json, <<>>, 1, 1),
   pro_status |-> Takes(Json, <<>>, 0, 0),
   pro_setup |-> Takes(Json, <<>>, 0, 0)]

DeviceCommands ==
  [pro_devices |-> Takes(Json, <<>>, 0, 0),
   pro_revoke |-> Takes(Json \cup Confirm, <<>>, 1, 1),
   pro_logout |-> Takes(Json, <<>>, 0, 0),
   pro_register_scheme |-> Takes(Json, <<>>, 0, 0)]

AgentCommands ==
  [agent_targets |-> Takes(Json, <<>>, 0, 0),
   agent_init |-> Takes(Json \cup {"--print"}, <<>>, 1, 1)]

Commands ==
  Joined({ConfigCommands, FindCommand, InstallCommand, RemoveCommands, VersionCommands, RunCommand, InspectCommands,
          RegistryCommands, PackCommands, RecordCommands, ProofCommands, AuthCommands, DeviceCommands, AgentCommands})

CommandNames == DOMAIN Commands

-----------------------------------------------------------------------------
(* The passes over the arguments.                                           *)

\* takeBoolFlag.
Without(args, switches) ==
  FoldLeft(LAMBDA kept, t : IF t.kind = "flag" /\ t.flag \in switches THEN kept ELSE Append(kept, t), <<>>, args)

\* isKnownFlagToken: a known flag, with or without "=value".
IsKnown(t, known) == t.kind \in {"flag", "assign"} /\ t.flag \in known

\* Mutant: a flag goes on taking the tokens that follow its value.
TakeToken0(name, known, pass, t) ==
  CASE t.kind = "flag" /\ t.flag = name -> [pass EXCEPT !.wants = TRUE]
    [] pass.wants /\ ~IsKnown(t, known) -> [pass EXCEPT !.value = Text(t)]
    [] OTHER -> [pass EXCEPT !.kept = Append(@, t), !.wants = FALSE]

\* One token of takeStringFlag: kept are the tokens passed over, wants tells that
\* the flag has just been seen, value is what it has been given.
TakeToken(name, known, pass, t) ==
  LET plain(p) ==
        CASE t.kind = "flag" /\ t.flag = name -> [p EXCEPT !.wants = TRUE]
          [] t.kind = "assign" /\ t.flag = name /\ t.value = "empty" ->
               [p EXCEPT !.kept = Append(@, Mark("missing", name)), !.value = NoText]
          [] t.kind = "assign" /\ t.flag = name /\ t.value # "empty" -> [p EXCEPT !.value = t.value]
          [] OTHER -> [p EXCEPT !.kept = Append(@, t)]
  IN  CASE ~pass.wants -> plain(pass)
        [] pass.wants /\ IsKnown(t, known) ->
             plain([pass EXCEPT !.kept = Append(@, Mark("missing", name)), !.wants = FALSE])
        [] OTHER -> [pass EXCEPT !.wants = FALSE, !.value = Text(t)]

\* The loop of takeStringFlag, from the first token to the last.
TakePass(args, name, known) ==
  FoldLeft(LAMBDA pass, t : TakeToken(name, known, pass, t), [kept |-> <<>>, wants |-> FALSE, value |-> NoText], args)

\* takeStringFlag.
TakeString(args, name, known) ==
  LET pass == TakePass(args, name, known)
  IN  [kept |-> IF pass.wants THEN Append(pass.kept, Mark("missing", name)) ELSE pass.kept, value |-> pass.value]

\* takeIntFlag, takeInt64Flag: a given value that is not a positive number leaves a mark.
CheckNumber(taken, args, name) ==
  LET given == \E t \in ToSet(args) : t.flag = name /\ t.kind \in {"flag", "assign"}
      mark == IF taken.value = NoText THEN "missing" ELSE "invalid"
  IN  IF /\ name \in NumberFlags
         /\ given /\ taken.value # "number" /\ Mark("missing", name) \notin ToSet(taken.kept)
      THEN [kept |-> Append(taken.kept, Mark(mark, name)), value |-> NoText]
      ELSE taken

\* splitArgsAfterDoubleDash: only "run" keeps what follows "--" apart.
BeforeDashes(command, args) ==
  IF command = "run" /\ Dashes \in ToSet(args)
  THEN SubSeq(args, 1, SelectInSeq(args, LAMBDA t : t = Dashes) - 1)
  ELSE args

\* The passes of a command: the switches, then each value flag in turn.
TakeSwitches(c, given) ==
  [switches |-> {t.flag : t \in {u \in ToSet(given) : u.kind = "flag" /\ u.flag \in c.switches}},
   values |-> [v \in {} |-> NoText], rest |-> Without(given, c.switches)]

TakeFlag(c, p, name) ==
  LET taken == CheckNumber(TakeString(p.rest, name, c.known), p.rest, name)
  IN  [p EXCEPT !.rest = taken.kept,
                !.values = [n \in DOMAIN p.values \cup {name} |-> IF n = name THEN taken.value ELSE p.values[n]]]

Passes(c, given) == FoldLeft(LAMBDA p, name : TakeFlag(c, p, name), TakeSwitches(c, given), c.values)

Parse(command, args) == Passes(Commands[command], BeforeDashes(command, args))

-----------------------------------------------------------------------------
(* What the command does with what it read.                                 *)

\* The commands that call confirmMutation.
Asking == {"install", "uninstall", "upgrade", "rollback", "commerce_install_pack", "commerce_install_scenario",
           "commerce_submit_proof", "pro_revoke"}

\* The Service method behind a command: the ones that change managed state by name.
CommandMethod(command, parsed) ==
  IF "--plan" \in parsed.switches THEN "Plan" ELSE
  CASE command = "install" -> "InstallSkills"
    [] command = "upgrade" -> "UpgradeSkills"
    [] command = "rollback" -> "RollbackSkill"
    [] command = "uninstall" -> "UninstallSkill"
    [] command = "commerce_install_pack" -> "InstallCapabilityPack"
    [] command = "commerce_install_scenario" -> "InstallCapabilityScenario"
    [] command = "commerce_submit_proof" -> "SubmitCommerceProof"
    [] command = "pro_revoke" -> "ProRevokeDevice"
    [] command = "run" -> IF parsed.values["--goal"] = NoText THEN "RunSkill" ELSE "RunGoal"
    [] OTHER -> "Other"

\* hasInternalInvalidFlag.
HasMark(rest) == \E t \in ToSet(rest) : t.kind \in {"missing", "invalid"}

RunRefused(parsed) ==
  \/ {"--json", "--ndjson"} \subseteq parsed.switches
  \/ IF parsed.values["--goal"] = NoText THEN parsed.rest = <<>> ELSE parsed.rest # <<>>

AgentInitRefused(parsed) == ({"--json", "--print"} \subseteq parsed.switches) \/ parsed.switches = {}

Refused(command, parsed) ==
  LET c == Commands[command] IN
  \/ HasMark(parsed.rest)
  \/ Len(parsed.rest) < c.least \/ Len(parsed.rest) > c.most
  \/ command = "search" /\ ToSet(parsed.rest) \subseteq {Empty}
  \/ command = "run" /\ RunRefused(parsed)
  \/ command = "agent_init" /\ AgentInitRefused(parsed)

\* confirmMutation: --yes, a terminal to ask at, or a refusal (exit code 2).
Confirmation(parsed, terminal) ==
  CASE parsed.switches \cap Confirm # {} -> "call"
    [] parsed.switches \cap Confirm = {} /\ terminal /\ "--json" \notin parsed.switches -> "prompt"
    [] OTHER -> "confirmation_required"

CommandVerdict(command, parsed, terminal) ==
  CASE Refused(command, parsed) -> "invalid_argument"
    [] ~Refused(command, parsed) /\ "--plan" \in parsed.switches -> "call"
    [] ~Refused(command, parsed) /\ "--plan" \notin parsed.switches /\ command \in Asking ->
         Confirmation(parsed, terminal)
    [] OTHER -> "call"

-----------------------------------------------------------------------------
(* The same arguments read from left to right, as they are written.         *)

Good(name, value) == name \in NumberFlags => value = "number"

\* Each value flag takes the token after it.  ok is FALSE when that token is a
\* flag of the command, flag tells that it is not there.
ReadValue(r, t) ==
  IF t.kind \in {"flag", "assign"} \/ ~Good(r.flag, t.value) THEN [r EXCEPT !.ok = FALSE, !.flag = NoText]
  ELSE [r EXCEPT !.values[r.flag] = Text(t), !.flag = NoText]

ReadWord(c, r, t) ==
  CASE t.kind = "flag" /\ t.flag \in c.switches -> [r EXCEPT !.switches = @ \cup {t.flag}]
    [] t.kind = "flag" /\ t.flag \in ToSet(c.values) -> [r EXCEPT !.flag = t.flag]
    [] t.kind = "assign" /\ t.flag \in ToSet(c.values) ->
         IF t.value # "empty" /\ Good(t.flag, t.value) THEN [r EXCEPT !.values[t.flag] = t.value] ELSE [r EXCEPT !.ok = FALSE]
    [] OTHER -> [r EXCEPT !.rest = Append(@, t)]

ReadToken(c, r, t) == IF r.flag # NoText THEN ReadValue(r, t) ELSE ReadWord(c, r, t)

LeftToRight(c, given) ==
  FoldLeft(LAMBDA r, t : ReadToken(c, r, t),
           [ok |-> TRUE, flag |-> NoText, switches |-> {}, values |-> [v \in ToSet(c.values) |-> NoText], rest |-> <<>>], given)

Reading(command, args) == LeftToRight(Commands[command], BeforeDashes(command, args))
=============================================================================
