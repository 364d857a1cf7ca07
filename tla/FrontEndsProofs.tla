----------------------------- MODULE FrontEndsProofs -----------------------------
(***************************************************************************)
(* Proofs about FrontEnds and the modules it is composed of.               *)
(***************************************************************************)
EXTENDS FrontEnds, SequenceTheorems, FiniteSetTheorems, WellFoundedInduction, TLAPS

-----------------------------------------------------------------------------
(* The run of a skill's program (SkillRun).                                 *)

\* One step of a run, of whichever party.
RunNext ==
  \/ \E ms \in AskedMS \cup {0}, default \in ConfiguredMS, limit \in 1..(MaxWrites - 1) : Launch(ms, default, limit)
  \/ RunStep \/ Collect

\* Whatever the process does with requests, packages and files is no step of a run.
LEMMA RunBeneath == [Next]_vars => [RunNext]_runVars
BY Zenon DEF Next, vars, frontVars, workVars, RunNext, Main, CallTool, Path, About, Command, AnyMessage, ToolMessage, Message, Settle,
  HttpRequest, Prompt, Listen, StartMcp, SessionEnds, Shutdown, ServiceChanges, ServiceReturns, RunRefuses, RunStarts,
  Running, RunReturns, OcrRunStarts, OcrRunning, OtherProcesses, OcrRunReturns, InstallStarts, InstallGoesOn,
  InstallReturns, Done

Runs == [stage : {"none", "running", "waited", "ended"}, asked : AskedMS \cup {0}, configured : ConfiguredMS \cup {0},
         timeout : Int, limit : 0..MaxWrites, code : {0, 1}, result : Results]

\* What a run knows at every stage of it: the pipe and the child belong to the stage, what
\* is kept is what was sent until something is dropped, and the result is the one of the
\* moment the program and its pipe were done.
RunInv ==
  /\ run \in Runs
  /\ child \in {"none", "running", "exited", "killed"} /\ pipe \in {"nobody", "child", "left"}
  /\ sent \in 0..MaxWrites /\ expired \in BOOLEAN
  /\ buffer \in [kept : 0..MaxWrites, truncated : BOOLEAN]
  /\ run.stage = "none" => pipe = "nobody" /\ child = "none" /\ sent = 0 /\ buffer = NoOutput /\ ~expired
  /\ run.stage \in {"waited", "ended"} => pipe = "nobody" /\ child \in {"exited", "killed"}
  /\ child = "killed" => expired
  /\ buffer.kept <= run.limit
  /\ ~buffer.truncated => buffer.kept = sent
  /\ buffer.truncated => sent > run.limit
  /\ run.stage = "ended" => run.result = Result
  /\ RunIsBounded

\* A duration never exceeds the number it stands for, and it is that number while it fits.
LEMMA DurationWithin ==
  ASSUME NEW n \in Nat
  PROVE  /\ Signed(n) \in Int /\ Signed(n) <= n /\ Signed(n) < Half
         /\ n < Half => Signed(n) = n
<1>1. Half \in Nat \ {0}
  BY SkillRunAssumption DEF SkillRunAssumption
<1>2. (n + Half) % (2 * Half) \in Int /\ (n + Half) % (2 * Half) <= n + Half /\ (n + Half) % (2 * Half) < 2 * Half
  BY <1>1
<1>3. n < Half => (n + Half) % (2 * Half) = n + Half
  BY <1>1
<1>4. QED BY <1>1, <1>2, <1>3 DEF Signed

\* The time-out of a run is never later than what was asked for, or without that
\* configured: a product that overflows gives less, or the configured one, which is less
\* than half the range when the one asked for was not.
LEMMA TimeoutBounded ==
  ASSUME NEW ms \in AskedMS \cup {0}, NEW default \in ConfiguredMS
  PROVE  /\ Timeout(ms, default) \in Int
         /\ ms > 0 /\ Fits(ms) => Timeout(ms, default) = ms * Scale
         /\ Fits(default) => Timeout(ms, default) > 0
         /\ Timeout(ms, default) <= (IF ms > 0 THEN ms ELSE default) * Scale
<1>1. ms \in Nat /\ Scale \in Nat \ {0} /\ default \in Nat \ {0} /\ Half \in Nat \ {0}
  BY SkillRunAssumption DEF SkillRunAssumption
<1>2. ms * Scale \in Nat /\ default * Scale \in Nat \ {0} /\ (ms > 0 => ms * Scale > 0) /\ (ms = 0 => ms * Scale = 0)
  BY <1>1
<1>3. /\ Duration(default) \in Int /\ Duration(default) <= default * Scale /\ Duration(default) < Half
      /\ Fits(default) => Duration(default) = default * Scale
  BY <1>2, DurationWithin DEF Duration, Fits
<1>4. /\ Duration(ms) \in Int /\ Duration(ms) <= ms * Scale
      /\ Fits(ms) => Duration(ms) = ms * Scale
  BY <1>2, DurationWithin DEF Duration, Fits
<1>5. CASE Duration(ms) > 0
  <2>1. ms > 0 /\ Timeout(ms, default) = Duration(ms)
    BY <1>1, <1>2, <1>4, <1>5 DEF Timeout
  <2>2. QED BY <1>4, <1>5, <2>1
<1>6. CASE Duration(ms) <= 0 /\ ms > 0
  <2>1. ~Fits(ms) /\ Timeout(ms, default) = Duration(default)
    BY <1>2, <1>4, <1>6 DEF Timeout
  <2>2. ms * Scale >= Half
    BY <1>1, <1>2, <2>1 DEF Fits
  <2>3. Duration(default) <= ms * Scale
    BY <1>1, <1>2, <1>3, <2>2
  <2>4. QED BY <1>2, <1>3, <1>6, <2>1, <2>3
<1>7. CASE Duration(ms) <= 0 /\ ~(ms > 0)
  <2>1. Timeout(ms, default) = Duration(default)
    BY <1>7 DEF Timeout
  <2>2. QED BY <1>2, <1>3, <1>7, <2>1
<1>8. QED BY <1>4, <1>5, <1>6, <1>7

\* Between runs all of it holds, at the start and after a run was collected.
LEMMA RunInvStart == RunInit => RunInv
<1> SUFFICES ASSUME RunInit PROVE RunInv
  OBVIOUS
<1>1. /\ run = NoRun /\ child = "none" /\ pipe = "nobody" /\ sent = 0 /\ buffer = NoOutput /\ ~expired /\ expired \in BOOLEAN
  BY Zenon DEF RunInit
<1>2. MaxWrites \in Nat
  BY SkillRunAssumption DEF SkillRunAssumption
<1>3. run.stage = "none" /\ run.limit = 0 /\ run.result = "none" /\ buffer.kept = 0 /\ ~buffer.truncated
  BY <1>1 DEF NoRun, NoOutput
<1>4. run \in Runs /\ buffer \in [kept : 0..MaxWrites, truncated : BOOLEAN]
  BY <1>1, <1>2 DEF Runs, NoRun, NoOutput, Results
<1>5. RunIsBounded
  BY <1>3 DEF RunIsBounded
<1>6. QED BY <1>1, <1>2, <1>3, <1>4, <1>5 DEF RunInv

\* Every step of a run keeps what is known of it.
LEMMA RunInvStep == RunInv /\ [RunNext]_runVars => RunInv'
<1> SUFFICES ASSUME RunInv, [RunNext]_runVars PROVE RunInv'
  OBVIOUS
<1>0. MaxWrites \in Nat
  BY SkillRunAssumption DEF SkillRunAssumption
<1>1. ASSUME NEW ms \in AskedMS \cup {0}, NEW default \in ConfiguredMS, NEW limit \in 1..(MaxWrites - 1),
             Launch(ms, default, limit)
      PROVE  RunInv'
  <2>1. run' = [stage |-> "running", asked |-> ms, configured |-> default, timeout |-> Timeout(ms, default),
                limit |-> limit, code |-> 0, result |-> "none"]
    BY <1>1 DEF Launch, NoRun
  <2>2. RunIsBounded'
    BY <2>1, TimeoutBounded DEF RunIsBounded, HasDeadline
  <2>3. run' \in Runs
    BY <1>0, <2>1, TimeoutBounded DEF Runs, Results
  <2>4. QED
    BY <1>0, <1>1, <2>1, <2>2, <2>3 DEF Launch, RunInv, NoOutput
<1>2. ASSUME NEW n \in 1..MaxWrites, Write(n) PROVE RunInv'
  BY <1>0, <1>2 DEF Write, Kept, RunInv, Runs, RunIsBounded, HasDeadline, Result
<1>3. ASSUME NEW code \in {0, 1}, NEW holder \in {"nobody", "left"}, ChildExits(code, holder) PROVE RunInv'
  BY <1>0, <1>3 DEF ChildExits, RunInv, Runs, RunIsBounded, HasDeadline, Result
<1>4. ASSUME NEW holder \in {"nobody", "left"}, Deadline(holder) PROVE RunInv'
  BY <1>0, <1>4 DEF Deadline, RunInv, RunIsBounded, HasDeadline, Result
<1>5. CASE LeftCloses
  BY <1>5 DEF LeftCloses, RunInv, RunIsBounded, HasDeadline, Result
<1>6. CASE Wait
  BY <1>6 DEF Wait, RunInv, Runs, RunIsBounded, HasDeadline, Result
<1>7. CASE Finish
  <2>1. Result \in Results
    BY Zenon DEF Result, Results
  <2>2. run' = [run EXCEPT !.stage = "ended", !.result = Result] /\ UNCHANGED <<child, pipe, sent, buffer, expired>>
    BY <1>7 DEF Finish
  <2>3. /\ run' \in Runs
        /\ run'.stage = "ended" /\ run'.result = Result
        /\ run'.code = run.code /\ run'.limit = run.limit
        /\ run'.asked = run.asked /\ run'.configured = run.configured /\ run'.timeout = run.timeout
    BY <2>1, <2>2 DEF RunInv, Runs
  <2>4. Result' = Result
    BY <2>2, <2>3 DEF Result
  <2>5. RunIsBounded'
    BY <1>7, <2>3 DEF RunInv, RunIsBounded, HasDeadline, Finish
  <2>6. QED BY <1>7, <2>2, <2>3, <2>4, <2>5 DEF Finish, RunInv
<1>8. CASE Collect
  <2>1. run' = NoRun /\ child' = "none" /\ pipe' = "nobody" /\ sent' = 0 /\ buffer' = NoOutput /\ expired' = FALSE
    BY <1>8 DEF Collect
  <2>2. RunInit'
    BY <2>1 DEF RunInit
  <2>3. QED BY <2>2, RunInvStart, PTL
<1>9. CASE UNCHANGED runVars
  BY <1>9 DEF runVars, RunInv, RunIsBounded, HasDeadline, Result
<1>10. QED BY <1>1, <1>2, <1>3, <1>4, <1>5, <1>6, <1>7, <1>8, <1>9 DEF RunNext, RunStep

LEMMA RunInvariant == Spec => []RunInv
<1>1. Init => RunInit
  BY DEF Init
<1>2. QED BY <1>1, RunInvStart, RunInvStep, RunBeneath, PTL DEF Spec

\* Whatever time-outs are asked for and configured, and however wide a duration: a run has
\* the deadline it asked for if that fits, one no later in any case, and one at all at
\* least while the configured time-out fits.
THEOREM DeadlineHolds == Spec => []RunIsBounded
<1>1. RunInv => RunIsBounded
  BY DEF RunInv
<1>2. QED BY <1>1, RunInvariant, PTL

\* A run reported as a success has returned all its output, one reported as over the limit
\* was over it, and no report is longer than the limit.
THEOREM ReportIsTrue == Spec => []ReportTellsOutput
<1>1. RunInv => ReportTellsOutput
  BY DEF RunInv, ReportTellsOutput, Result
<1>2. QED BY <1>1, RunInvariant, PTL

-----------------------------------------------------------------------------
(* Reading the tables of commands and tools.                                *)

\* An entry of a joined table is the entry of the one table that has it.
LEMMA JoinedEntry ==
  ASSUME NEW T, NEW t \in T, NEW e \in DOMAIN t, \A u \in T : e \in DOMAIN u => u = t
  PROVE  e \in DOMAIN Joined(T) /\ Joined(T)[e] = t[e]
<1> DEFINE c == CHOOSE u \in T : e \in DOMAIN u
<1>1. c = t
  OBVIOUS
<1>2. e \in UNION {DOMAIN u : u \in T}
  OBVIOUS
<1>3. QED BY <1>1, <1>2 DEF Joined

\* No command is in two of the tables.
LEMMA CommandDomains ==
  /\ DOMAIN ConfigCommands = {"config_init", "config_path", "config_show", "config_keys", "config_set", "config_unset"}
  /\ DOMAIN FindCommand = {"search"}
  /\ DOMAIN InstallCommand = {"install"}
  /\ DOMAIN RemoveCommands = {"uninstall", "list"}
  /\ DOMAIN VersionCommands = {"upgrade", "rollback"}
  /\ DOMAIN RunCommand = {"run"}
  /\ DOMAIN InspectCommands = {"status", "doctor", "verify"}
  /\ DOMAIN RegistryCommands =
       {"registry_sources", "registry_refresh", "registry_validate", "registry_status", "registry_demo_release"}
  /\ DOMAIN PackCommands =
       {"commerce_packs", "commerce_scenarios", "commerce_install_pack", "commerce_install_scenario"}
  /\ DOMAIN RecordCommands =
       {"commerce_scenario_ledger", "commerce_install_records", "commerce_billing_records", "commerce_receipts"}
  /\ DOMAIN ProofCommands =
       {"commerce_integrity", "commerce_proof", "commerce_submit_proof", "commerce_snapshot", "commerce_serve"}
  /\ DOMAIN AuthCommands = {"pro_login", "pro_callback", "pro_status", "pro_setup"}
  /\ DOMAIN DeviceCommands = {"pro_devices", "pro_revoke", "pro_logout", "pro_register_scheme"}
  /\ DOMAIN AgentCommands = {"agent_targets", "agent_init"}
BY DEF ConfigCommands, FindCommand, InstallCommand, RemoveCommands, VersionCommands, RunCommand, InspectCommands,
       RegistryCommands, PackCommands, RecordCommands, ProofCommands, AuthCommands, DeviceCommands, AgentCommands

\* Where the commands that ask for a confirmation are found.
LEMMA AskingEntries ==
  /\ Commands["install"] = InstallCommand["install"]
  /\ Commands["uninstall"] = RemoveCommands["uninstall"]
  /\ Commands["upgrade"] = VersionCommands["upgrade"]
  /\ Commands["rollback"] = VersionCommands["rollback"]
  /\ Commands["commerce_install_pack"] = PackCommands["commerce_install_pack"]
  /\ Commands["commerce_install_scenario"] = PackCommands["commerce_install_scenario"]
  /\ Commands["commerce_submit_proof"] = ProofCommands["commerce_submit_proof"]
  /\ Commands["pro_revoke"] = DeviceCommands["pro_revoke"]
<1> DEFINE T == {ConfigCommands, FindCommand, InstallCommand, RemoveCommands, VersionCommands, RunCommand, InspectCommands,
                 RegistryCommands, PackCommands, RecordCommands, ProofCommands, AuthCommands, DeviceCommands, AgentCommands}
           In(table, command) ==
             table \in T /\ command \in DOMAIN table /\ \A u \in T : command \in DOMAIN u => u = table
<1>1. Commands = Joined(T)
  BY DEF Commands
<1>2. In(InstallCommand, "install") /\ In(RemoveCommands, "uninstall")
  BY CommandDomains
<1>3. In(VersionCommands, "upgrade") /\ In(VersionCommands, "rollback")
  BY CommandDomains
<1>4. In(PackCommands, "commerce_install_pack") /\ In(PackCommands, "commerce_install_scenario")
  BY CommandDomains
<1>5. In(ProofCommands, "commerce_submit_proof") /\ In(DeviceCommands, "pro_revoke")
  BY CommandDomains
<1> HIDE DEF T
<1>6. QED BY <1>1, <1>2, <1>3, <1>4, <1>5, JoinedEntry

\* What they take: the switches that confirm, and at most one flag with a value.
LEMMA AskingTakes ==
  ASSUME NEW command \in Asking
  PROVE  LET c == Commands[command] IN
         /\ Confirm \subseteq c.switches
         /\ "--plan" \in c.switches <=> command \notin {"commerce_submit_proof", "pro_revoke"}
         /\ c.values = <<>> \/ c.values = <<"--to">> \/ c.values = <<"--challenge">>
BY AskingEntries
DEF Asking, InstallCommand, RemoveCommands, VersionCommands, PackCommands, ProofCommands, DeviceCommands, Takes, Json, Confirm

-----------------------------------------------------------------------------
(* What the passes of a command make of its switches.                       *)

\* What a pass for name, if the command has one, leaves of the words.
LeftOver(c, words, name) ==
  IF c.values = <<>> THEN words ELSE CheckNumber(TakeString(words, name, c.known), words, name).kept

\* The switches are taken first, and the passes that follow, one at most, leave them alone.
LEMMA PassesRead ==
  ASSUME NEW c, NEW given, NEW name, c.values = <<>> \/ c.values = <<name>>
  PROVE  /\ Passes(c, given).switches = {t.flag : t \in {u \in ToSet(given) : u.kind = "flag" /\ u.flag \in c.switches}}
         /\ Passes(c, given).rest = LeftOver(c, Without(given, c.switches), name)
<1> DEFINE switches == {t.flag : t \in {u \in ToSet(given) : u.kind = "flag" /\ u.flag \in c.switches}}
           start == TakeSwitches(c, given)
           step(p, n) == TakeFlag(c, p, n)
           D == DOMAIN c.values
           iter == CHOOSE it : it = [s \in SUBSET D |-> IF s = {} THEN start ELSE step(it[s \ {Max(s)}], c.values[Max(s)])]
           words == Without(given, c.switches)
<1>1. Passes(c, given) = iter[D]
  BY DEF Passes, FoldLeft, MapThenFoldSet
<1>2. /\ start.switches = switches /\ start.rest = words
      /\ \A n : step(start, n).switches = switches
      /\ \A n : step(start, n).rest = CheckNumber(TakeString(words, n, c.known), words, n).kept
  BY DEF TakeSwitches, TakeFlag
<1> HIDE DEF start, step
<1>3. CASE c.values = <<>>
  <2>1. D = {} /\ SUBSET D = {{}}
    BY <1>3
  <2> DEFINE w == [s \in SUBSET D |-> start]
  <2>2. w = [s \in SUBSET D |-> IF s = {} THEN start ELSE step(w[s \ {Max(s)}], c.values[Max(s)])]
    BY <2>1
  <2>3. iter = [s \in SUBSET D |-> IF s = {} THEN start ELSE step(iter[s \ {Max(s)}], c.values[Max(s)])]
    <3> HIDE DEF w, D
    <3> QED BY <2>2
  <2>4. iter[D] = start
    <3> HIDE DEF iter
    <3> QED BY <2>1, <2>3
  <2>5. QED BY <1>1, <1>2, <1>3, <2>4 DEF LeftOver
<1>4. CASE c.values = <<name>>
  <2>1. D = {1} /\ SUBSET D = {{}, {1}} /\ c.values[1] = name
    BY <1>4
  <2>2. Max({1}) = 1
    BY DEF Max
  <2> DEFINE w == [s \in SUBSET D |-> IF s = {} THEN start ELSE step(start, name)]
  <2>3. w = [s \in SUBSET D |-> IF s = {} THEN start ELSE step(w[s \ {Max(s)}], c.values[Max(s)])]
    <3>1. w[{}] = start /\ {1} \ {1} = {}
      BY <2>1
    <3>2. \A s \in SUBSET D : s # {} => s = {1} /\ w[s \ {Max(s)}] = start /\ c.values[Max(s)] = name
      BY <2>1, <2>2, <3>1
    <3>3. QED BY <3>2
  <2>4. iter = [s \in SUBSET D |-> IF s = {} THEN start ELSE step(iter[s \ {Max(s)}], c.values[Max(s)])]
    <3> HIDE DEF w, D
    <3> QED BY <2>3
  <2>5. iter[D] = step(iter[{}], name) /\ iter[{}] = start
    <3> HIDE DEF iter
    <3>1. {1} \ {1} = {} /\ {1} # {}
      OBVIOUS
    <3>2. QED BY <2>1, <2>2, <2>4, <3>1
  <2>6. c.values # <<>>
    BY <1>4
  <2>7. QED BY <1>1, <1>2, <2>5, <2>6 DEF LeftOver
<1>5. QED BY <1>3, <1>4

-----------------------------------------------------------------------------
(* Requests that reach the Service to change something were confirmed.      *)

\* A command that goes to one of the managing methods asks for a confirmation.
LEMMA ManagingCommand ==
  ASSUME NEW command, NEW parsed, CommandMethod(command, parsed) \in Managing
  PROVE  command \in Asking /\ "--plan" \notin parsed.switches
<1>1. "--plan" \notin parsed.switches
  BY DEF CommandMethod, Managing
<1>2. command \in {"install", "upgrade", "rollback", "uninstall", "commerce_install_pack", "commerce_install_scenario",
                   "commerce_submit_proof", "pro_revoke"}
  BY <1>1 DEF CommandMethod, Managing
<1>3. QED BY <1>1, <1>2 DEF Asking

LEMMA CommandConsents ==
  ASSUME NEW command, NEW args, \A t \in ToSet(args) : IsToken(t), NEW terminal \in BOOLEAN,
         CommandVerdict(command, Parse(command, args), terminal) = "call",
         CommandMethod(command, Parse(command, args)) \in Managing
  PROVE  ConfirmedCommand([command |-> command, args |-> args, typed |-> FALSE])
<1> DEFINE parsed == Parse(command, args)
           c == Commands[command]
<1>1. command \in Asking /\ "--plan" \notin parsed.switches
  BY ManagingCommand
<1>2. BeforeDashes(command, args) = args
  BY <1>1 DEF Asking, BeforeDashes
<1>3. parsed.switches = {t.flag : t \in {u \in ToSet(args) : u.kind = "flag" /\ u.flag \in c.switches}}
  <2>1. PICK name : c.values = <<>> \/ c.values = <<name>>
    BY <1>1, AskingTakes
  <2> HIDE DEF c
  <2>2. Passes(c, args).switches = {t.flag : t \in {u \in ToSet(args) : u.kind = "flag" /\ u.flag \in c.switches}}
    BY <2>1, PassesRead
  <2>3. QED BY <1>2, <2>2 DEF Parse, c
<1>4. parsed.switches \cap Confirm # {}
  <2> HIDE DEF parsed
  <2>1. CommandVerdict(command, parsed, terminal) = "call"
    BY DEF parsed
  <2>2. ~Refused(command, parsed)
    BY <2>1 DEF CommandVerdict
  <2>3. Confirmation(parsed, terminal) = "call"
    BY <1>1, <2>1, <2>2 DEF CommandVerdict
  <2>4. QED BY <2>3 DEF Confirmation
<1>5. PICK t \in ToSet(args) : t.kind = "flag" /\ t.flag \in Confirm
  BY <1>3, <1>4
<1>6. t = Flag(t.flag)
  <2>1. t \notin {Word, Empty, Number, Dashes} /\ t # Assign(t.flag, t.value)
    <3> DEFINE flag == t.flag
               value == t.value
    <3>1. Assign(flag, value).kind = "assign"
      BY DEF Assign
    <3>2. Word.kind = "word" /\ Empty.kind = "word" /\ Number.kind = "number" /\ Dashes.kind = "dashes"
      BY DEF Word, Empty, Number, Dashes
    <3>3. t.kind = "flag"
      BY <1>5
    <3> HIDE DEF flag, value, parsed, c
    <3>4. t # Word /\ t # Empty /\ t # Number /\ t # Dashes
      BY <3>2, <3>3
    <3>5. t # Assign(flag, value)
      BY <3>1, <3>3
    <3>6. QED BY <3>4, <3>5 DEF flag, value
  <2>2. QED BY <2>1 DEF IsToken
<1>7. "--plan" \in c.switches => Flag("--plan") \notin ToSet(args)
  <2> SUFFICES ASSUME "--plan" \in c.switches, Flag("--plan") \in ToSet(args) PROVE FALSE
    OBVIOUS
  <2>1. Flag("--plan").kind = "flag" /\ Flag("--plan").flag = "--plan"
    BY DEF Flag
  <2>2. "--plan" \in {u.flag : u \in {v \in ToSet(args) : v.kind = "flag" /\ v.flag \in c.switches}}
    BY <2>1
  <2>3. QED BY <1>1, <1>3, <2>2
<1>8. QED BY <1>2, <1>5, <1>6, <1>7 DEF ConfirmedCommand

\* No tool is in two of the tables.
LEMMA CaseDomains ==
  /\ DOMAIN CatalogueCases = {"search_skills", "list_skills", "list_capability_scenarios", "get_capability_scenario"}
  /\ DOMAIN PackCases = {"plan_capability_pack_install", "install_capability_pack",
                         "plan_capability_scenario_install", "install_capability_scenario"}
  /\ DOMAIN RecordCases = RecordTools
  /\ DOMAIN ProofCases = {"get_capability_scenario_ledger", "get_commerce_proof", "submit_commerce_proof"}
  /\ DOMAIN BareCases = BareTools
  /\ DOMAIN AccountCases = {"complete_pro_login", "revoke_pro_device"}
  /\ DOMAIN InspectCases = {"get_agent_target", "verify_skill", "validate_registry"}
  /\ DOMAIN SkillCases = {"plan_install", "install_skill", "upgrade_skill", "rollback_skill", "uninstall_skill"}
  /\ DOMAIN RunCase = {"run_skill"}
BY DEF CatalogueCases, PackCases, RecordCases, ProofCases, BareCases, AccountCases, InspectCases, SkillCases, RunCase

LEMMA ConfirmedEntries ==
  /\ Cases["install_capability_pack"] = PackCases["install_capability_pack"]
  /\ Cases["install_capability_scenario"] = PackCases["install_capability_scenario"]
  /\ Cases["submit_commerce_proof"] = ProofCases["submit_commerce_proof"]
  /\ Cases["revoke_pro_device"] = AccountCases["revoke_pro_device"]
  /\ Cases["install_skill"] = SkillCases["install_skill"]
  /\ Cases["upgrade_skill"] = SkillCases["upgrade_skill"]
  /\ Cases["rollback_skill"] = SkillCases["rollback_skill"]
  /\ Cases["uninstall_skill"] = SkillCases["uninstall_skill"]
<1> DEFINE T == {CatalogueCases, PackCases, RecordCases, ProofCases, BareCases, AccountCases, InspectCases, SkillCases, RunCase}
           In(table, tool) == table \in T /\ tool \in DOMAIN table /\ \A u \in T : tool \in DOMAIN u => u = table
<1>1. Cases = Joined(T)
  BY DEF Cases
<1>2. In(PackCases, "install_capability_pack") /\ In(PackCases, "install_capability_scenario")
  BY CaseDomains DEF RecordTools, BareTools
<1>3. In(ProofCases, "submit_commerce_proof") /\ In(AccountCases, "revoke_pro_device")
  BY CaseDomains DEF RecordTools, BareTools
<1>4. In(SkillCases, "install_skill") /\ In(SkillCases, "upgrade_skill")
  BY CaseDomains DEF RecordTools, BareTools
<1>5. In(SkillCases, "rollback_skill") /\ In(SkillCases, "uninstall_skill")
  BY CaseDomains DEF RecordTools, BareTools
<1> HIDE DEF T
<1>6. QED BY <1>1, <1>2, <1>3, <1>4, <1>5, JoinedEntry

\* Their cases read "yes", and "plan" wherever it is allowed.
LEMMA ConfirmedReads ==
  ASSUME NEW tool \in Confirmed
  PROVE  "yes" \in DOMAIN Cases[tool].reads /\ ("plan" \in Allowed(tool) => "plan" \in DOMAIN Cases[tool].reads)
<1>1. "yes" \in DOMAIN Cases[tool].reads
  BY ConfirmedEntries DEF Confirmed, PackCases, ProofCases, AccountCases, SkillCases, Case
<1>2. CASE tool \in {"upgrade_skill", "rollback_skill", "uninstall_skill"}
  BY <1>1, <1>2, ConfirmedEntries DEF SkillCases, Case
<1>3. CASE tool \notin {"upgrade_skill", "rollback_skill", "uninstall_skill"}
  <2>1. "plan" \notin Allowed(tool)
    BY <1>3 DEF Allowed, Confirmed, RecordTools, BareTools
  <2>2. QED BY <1>1, <2>1
<1>4. QED BY <1>2, <1>3

LEMMA CallConsents ==
  ASSUME NEW call, Verdict(call) = "call", Method(call) \in Managing
  PROVE  Arg(call, "yes") = "yes" /\ Arg(call, "plan") # "yes"
<1>1. call.tool \in ToolNames /\ Readable(call) /\ (Asks(call) => Arg(call, "yes") = "yes")
  BY DEF Verdict
<1>2. ~Planning(call)
  BY DEF Method, Managing
<1>3. call.tool \in Confirmed
  BY <1>2 DEF Method, Managing, Confirmed
<1>4. Asks(call)
  BY <1>2, <1>3, ConfirmedReads DEF Asks
<1>5. Arg(call, "plan") = "yes" => "plan" \in Allowed(call.tool)
  BY <1>1 DEF Readable, Arg
<1>6. QED BY <1>1, <1>2, <1>3, <1>4, <1>5, ConfirmedReads DEF Planning

LEMMA HttpConsents ==
  ASSUME NEW req, HttpVerdict(req) = "call", HttpMethod(req) \in Managing
  PROVE  req.yes = "yes" /\ req.token = "right"
<1>1. req.path \in MutationPaths
  BY DEF HttpMethod, Managing, MutationPaths
<1>2. Route(origin, req) = 200
  BY DEF HttpVerdict
<1>3. req.method # "OPTIONS"
  BY <1>2 DEF Route
<1>4. req.method = "POST"
  <2>1. MethodOf(req.path) = "POST"
    BY <1>1 DEF MethodOf
  <2>2. CASE req.method # MethodOf(req.path)
    <3>1. req.method # "OPTIONS" /\ req.path \in ReadPaths \cup MutationPaths /\ req.method # MethodOf(req.path)
      BY <1>1, <1>3, <2>2
    <3>2. ~(req.method = "POST" /\ req.path \in MutationPaths)
      BY <2>1, <2>2
    <3>3. ~(req.method = "GET" /\ req.path \in ReadPaths)
      BY <1>1 DEF ReadPaths, MutationPaths, PagePaths, QueryPaths, PlanPaths
    <3>4. Route(origin, req) = 405
      <4> HIDE DEF HttpVerdict
      <4> QED BY <3>1, <3>2, <3>3 DEF Route
    <3>5. QED BY <1>2, <3>4
  <2>3. QED BY <2>1, <2>2
<1>5. Mutation(req) = 200
  BY <1>1, <1>2, <1>3, <1>4 DEF Route, MethodOf
<1>6. Authorized(req)
  BY <1>5 DEF Mutation
<1>7. BodyStatus(req) = 200
  BY <1>5, <1>6 DEF Mutation
<1>8. ConfirmedByBody(req)
  BY <1>5, <1>6, <1>7 DEF Mutation
<1>9. QED BY <1>6, <1>8 DEF Authorized, ConfirmedByBody

-----------------------------------------------------------------------------
(* The front ends implement the consent gate.                               *)

\* Why the gate holds at every stage: what goes on to a managing method was confirmed
\* before it got to the Service, only such a method changes anything, and what was
\* refused has not reached the Service.
GateInv ==
  /\ stage \in Stages /\ changed \in BOOLEAN
  /\ stage \in {"idle", "reading", "prompting"} => ~changed
  /\ stage = "prompting" => "cmd" \in DOMAIN request /\ "typed" \in DOMAIN request.cmd
  /\ stage \in {"serving", "running", "reading_text", "installing"} => verdict = "call"
  /\ stage = "serving" /\ request.method \in Managing => Consent = "given"
  /\ stage = "serving" /\ changed => request.method \in Managing
  /\ stage = "installing" => Consent = "given"
  /\ stage = "answered" /\ changed => verdict = "call"

LEMMA GateInvStart == Init => GateInv /\ Gate!Init
<1> SUFFICES ASSUME Init PROVE GateInv /\ Gate!Init
  OBVIOUS
<1>1. stage = "idle" /\ changed = FALSE
  BY DEF Init
<1>2. Consent = "none" /\ Answer = "none"
  BY <1>1 DEF Consent, Answer
<1>3. QED BY <1>1, <1>2 DEF GateInv, Stages, Gate!Init

\* A request in hand is one its sender confirmed or one it did not.
LEMMA ConsentInHand ==
  /\ stage \notin {"idle", "reading"} => Consent = IF Agreed THEN "given" ELSE "withheld"
  /\ stage \in {"idle", "reading"} => Consent = "none"
BY DEF Consent

LEMMA AnswerGiven ==
  /\ stage # "answered" => Answer = "none"
  /\ stage = "answered" /\ verdict = "call" => Answer = "done"
  /\ stage = "answered" /\ verdict # "call" => Answer = "refused"
BY DEF Answer

\* A command, a call or an HTTP request that was read and goes where its verdict says.
LEMMA Settled ==
  ASSUME NEW given, stage \in {"idle", "reading"}, GateInv, Settle(given),
         given = "prompt" => "cmd" \in DOMAIN request' /\ "typed" \in DOMAIN request'.cmd,
         given = "call" /\ request'.method \in Managing => Agreed'
  PROVE  GateInv' /\ Gate!Ask
<1>1. verdict' = given /\ changed' = changed /\ ~changed /\ changed \in BOOLEAN
  BY DEF Settle, GateInv
<1>2. \/ given = "call" /\ stage' = "serving"
      \/ given = "prompt" /\ stage' = "prompting"
      \/ given \notin {"call", "prompt"} /\ stage' = "answered"
  BY DEF Settle
<1>3. Consent = "none" /\ Answer = "none"
  BY ConsentInHand, AnswerGiven
<1>4. Consent' = IF Agreed' THEN "given" ELSE "withheld"
  BY <1>2 DEF Consent
<1>5. Answer' = IF stage' = "answered" THEN "refused" ELSE "none"
  BY <1>1, <1>2 DEF Answer
<1>6. GateInv'
  BY <1>1, <1>2, <1>4 DEF GateInv, Stages
<1>7. QED BY <1>1, <1>2, <1>3, <1>4, <1>5, <1>6 DEF Gate!Ask

\* The words after a command that asks for a confirmation are tokens.
LEMMA AskingCommands == Asking \subseteq CommandNames
<1> DEFINE T == {ConfigCommands, FindCommand, InstallCommand, RemoveCommands, VersionCommands, RunCommand, InspectCommands,
                 RegistryCommands, PackCommands, RecordCommands, ProofCommands, AuthCommands, DeviceCommands, AgentCommands}
<1>1. \A command \in Asking : \E u \in T : command \in DOMAIN u
  BY CommandDomains DEF Asking
<1>2. DOMAIN Commands = UNION {DOMAIN u : u \in T}
  BY DEF Commands, Joined
<1> HIDE DEF T
<1>3. QED BY <1>1, <1>2 DEF CommandNames

LEMMA CommandAsks == GateInv /\ Command => GateInv' /\ Gate!Ask
<1> SUFFICES ASSUME GateInv, Command PROVE GateInv' /\ Gate!Ask
  OBVIOUS
<1> DEFINE about == request.about
<1>1. PICK n \in 0..MaxArgs, terminal \in BOOLEAN : \E args \in [1..n -> Tokens(about)] :
        /\ request' = [from |-> "cli", cmd |-> [command |-> about, args |-> args, typed |-> FALSE],
                       method |-> CommandMethod(about, Parse(about, args))]
        /\ Settle(CommandVerdict(about, Parse(about, args), terminal))
  BY DEF Command
<1>2. PICK args \in [1..n -> Tokens(about)] :
        /\ request' = [from |-> "cli", cmd |-> [command |-> about, args |-> args, typed |-> FALSE],
                       method |-> CommandMethod(about, Parse(about, args))]
        /\ Settle(CommandVerdict(about, Parse(about, args), terminal))
  BY <1>1
<1> DEFINE method == CommandMethod(about, Parse(about, args))
           given == CommandVerdict(about, Parse(about, args), terminal)
<1>3. request'.cmd = [command |-> about, args |-> args, typed |-> FALSE] /\ "cmd" \in DOMAIN request'
      /\ request'.method = method
  BY <1>2
<1>4. given = "call" /\ method \in Managing => Agreed'
  <2> SUFFICES ASSUME given = "call", method \in Managing PROVE Agreed'
    OBVIOUS
  <2>1. about \in CommandNames
    BY ManagingCommand, AskingCommands
  <2>2. \A t \in ToSet(args) : IsToken(t)
    BY <2>1, <1>2, FrontEndsAssumption DEF ToSet
  <2>3. ConfirmedCommand([command |-> about, args |-> args, typed |-> FALSE])
    BY <2>2, CommandConsents
  <2>4. QED BY <1>3, <2>3 DEF Agreed
<1>5. stage = "reading"
  BY DEF Command
<1> HIDE DEF method, given
<1>6. Settle(given)
  BY <1>2 DEF given
<1>7. "typed" \in DOMAIN request'.cmd
  BY <1>3
<1>8. QED BY <1>3, <1>4, <1>5, <1>6, <1>7, Settled

LEMMA MessageAsks ==
  ASSUME NEW e \in Envelopes, NEW framed, NEW call, GateInv, stage \in {"idle", "reading"}, Message(e, framed, call)
  PROVE  GateInv' /\ Gate!Ask
<1> DEFINE given == IF HandleLine(e) = "tool" THEN Verdict(call) ELSE "protocol"
<1>1. /\ "call" \in DOMAIN request'
      /\ request'.method = Method(call) /\ request'.envelope = e /\ request'.call = call
  BY DEF Message
<1>2. Settle(given)
  BY DEF Message
<1>3. given # "prompt"
  BY DEF Verdict
<1>4. ASSUME given = "call", Method(call) \in Managing PROVE Agreed'
  <2>1. HandleLine(e) = "tool" /\ Verdict(call) = "call"
    BY <1>4
  <2>2. e.id # "absent"
    BY <2>1 DEF HandleLine, Envelopes, ValidEnvelope
  <2>3. Arg(call, "yes") = "yes" /\ Arg(call, "plan") # "yes"
    BY <1>4, <2>1, CallConsents
  <2>4. ConfirmedCall(request')
    BY <1>1, <2>2, <2>3 DEF ConfirmedCall
  <2>5. QED BY <1>1, <2>4 DEF Agreed
<1> HIDE DEF given
<1>5. QED BY <1>1, <1>2, <1>3, <1>4, Settled

LEMMA HttpAsks == GateInv /\ HttpRequest => GateInv' /\ Gate!Ask
<1> SUFFICES ASSUME GateInv, HttpRequest PROVE GateInv' /\ Gate!Ask
  OBVIOUS
<1>1. PICK req \in RequestsOf(request.about) :
        request' = [from |-> "http", req |-> req, method |-> HttpMethod(req)] /\ Settle(HttpVerdict(req))
  BY DEF HttpRequest
<1>2. "req" \in DOMAIN request' /\ request'.req = req /\ request'.method = HttpMethod(req)
  BY <1>1
<1>3. HttpVerdict(req) # "prompt"
  BY DEF HttpVerdict
<1>4. ASSUME HttpVerdict(req) = "call", HttpMethod(req) \in Managing PROVE Agreed'
  BY <1>2, <1>4, HttpConsents DEF Agreed
<1>5. stage = "reading"
  BY DEF HttpRequest
<1>6. QED BY <1>1, <1>2, <1>3, <1>4, <1>5, Settled

\* The variables of the gate do not see the step.
Unseen == UNCHANGED <<Consent, changed, Answer>>

LEMMA PromptAsks == ASSUME NEW line, GateInv, Prompt(line) PROVE GateInv' /\ (Gate!Confirm \/ Gate!Refuse \/ Unseen)
<1>1. stage = "prompting" /\ changed' = changed /\ ~changed /\ Answer = "none" /\ changed \in BOOLEAN
  BY AnswerGiven DEF Prompt, GateInv
<1>2. Consent = IF Agreed THEN "given" ELSE "withheld"
  BY <1>1, ConsentInHand
<1>3. CASE line \in {"y", "yes"}
  <2>1. stage' = "serving" /\ verdict' = "call" /\ request' = [request EXCEPT !.cmd.typed = TRUE]
    BY <1>3 DEF Prompt
  <2>2. "cmd" \in DOMAIN request' /\ request'.cmd.typed = TRUE
    BY <1>1, <2>1 DEF GateInv
  <2>3. Consent' = "given" /\ Answer' = "none"
    BY <2>1, <2>2 DEF Consent, Agreed, Answer
  <2>4. GateInv'
    BY <1>1, <2>1, <2>3 DEF GateInv, Stages
  <2>5. QED BY <1>1, <1>2, <2>3, <2>4 DEF Gate!Confirm, Unseen
<1>4. CASE line \notin {"y", "yes"}
  <2>1. stage' = "answered" /\ verdict' = "cancelled" /\ request' = request
    BY <1>4 DEF Prompt
  <2>2. Consent' = Consent /\ Answer' = "refused"
    BY <1>1, <2>1 DEF Consent, Agreed, Answer
  <2>3. GateInv'
    BY <1>1, <2>1 DEF GateInv, Stages
  <2>4. QED BY <1>1, <1>2, <2>2, <2>3 DEF Gate!Refuse
<1>5. QED BY <1>3, <1>4

\* The Service, a run or an install is done.
LEMMA Answered ==
  ASSUME GateInv, stage \in {"serving", "running", "reading_text", "installing"}, stage' = "answered",
         UNCHANGED <<request, verdict, changed>>
  PROVE  GateInv' /\ Gate!Finish
<1>1. verdict = "call" /\ changed \in BOOLEAN /\ Answer = "none" /\ Answer' = "done"
  BY AnswerGiven DEF GateInv, Answer
<1>2. Consent' = Consent /\ Consent # "none"
  BY DEF Consent, Agreed
<1>3. QED BY <1>1, <1>2 DEF GateInv, Stages, Gate!Finish

\* A run or an install has started: what is kept of the request is its confirmation.
LEMMA Started ==
  ASSUME NEW method, GateInv, stage = "serving", stage' \in {"running", "reading_text", "installing"},
         request' = [from |-> request.from, method |-> method, consent |-> Consent],
         UNCHANGED <<verdict, changed>>, stage' = "installing" => request.method \in Managing
  PROVE  GateInv' /\ Unseen
<1>1. verdict = "call" /\ changed \in BOOLEAN /\ Answer = "none" /\ Answer' = "none"
  BY AnswerGiven DEF GateInv, Answer
<1>2. Consent \in {"given", "withheld"}
  BY ConsentInHand
<1>3. Agreed' <=> Consent = "given"
  BY DEF Agreed
<1>4. Consent' = Consent
  BY <1>2, <1>3 DEF Consent
<1>5. QED BY <1>1, <1>4 DEF GateInv, Stages, Unseen

\* A server or a terminal has nothing in hand.
LEMMA Forgotten ==
  ASSUME GateInv, stage \in {"serving", "answered"}, stage' = "idle", changed' = FALSE
  PROVE  GateInv' /\ Gate!Forget
<1>1. Consent # "none" /\ Consent' = "none" /\ Answer' = "none"
  BY DEF Consent, Answer
<1>2. QED BY <1>1 DEF GateInv, Stages, Gate!Forget

LEMMA Untouched == GateInv /\ UNCHANGED frontVars => GateInv' /\ Unseen
BY DEF GateInv, frontVars, Consent, Agreed, Answer, Unseen

LEMMA GateStep == GateInv /\ [Next]_vars => GateInv' /\ [Gate!Next]_Gate!gateVars
<1> SUFFICES ASSUME GateInv, [Next]_vars PROVE GateInv' /\ (Gate!Next \/ Unseen)
  BY DEF Unseen, Gate!gateVars
<1> USE DEF Gate!Next
<1>1. ASSUME NEW subject, About(subject) PROVE GateInv' /\ Unseen
  <2>1. stage = "idle" /\ stage' = "reading" /\ changed' = changed
    BY <1>1 DEF About
  <2>2. QED BY <2>1 DEF GateInv, Stages, Consent, Answer, Unseen
<1>2. CASE \/ \E command \in CommandNames : Main(command)
           \/ \E tool \in ToolNames \cup {"no_such_tool"} : CallTool(tool)
           \/ \E path \in ReadPaths \cup MutationPaths \cup {"/elsewhere"} : Path(path)
  BY <1>1, <1>2 DEF Main, CallTool, Path
<1>3. CASE Command
  BY <1>3, CommandAsks
<1>4. CASE AnyMessage
  <2>1. PICK e \in Envelopes, framed \in BOOLEAN : Message(e, framed, PlainCall)
    BY <1>4 DEF AnyMessage
  <2>2. stage = "idle"
    BY <1>4 DEF AnyMessage
  <2>3. QED BY <2>1, <2>2, MessageAsks
<1>5. CASE ToolMessage
  <2>1. PICK call \in CallsOf(request.about) :
          Message(ToolCall("value"), FALSE, call) \/ Message(ToolCall("absent"), FALSE, call)
    BY <1>5 DEF ToolMessage
  <2>2. ToolCall("value") \in Envelopes /\ ToolCall("absent") \in Envelopes
    BY DEF ToolCall, Envelopes
  <2>3. stage = "reading"
    BY <1>5 DEF ToolMessage
  <2>4. QED BY <2>1, <2>2, <2>3, MessageAsks
<1>6. CASE HttpRequest
  BY <1>6, HttpAsks
<1>7. CASE \E line \in {"y", "yes", "n", ""} : Prompt(line)
  BY <1>7, PromptAsks
<1>8. CASE \E host \in {"localhost", "127.0.0.1", "", "example.org"}, allowed \in {"none", "http_origin", "*"} : Listen(host, allowed)
  <2>1. stage = "serving" /\ stage' = "idle" /\ changed' = changed /\ request.method = "Other"
    BY <1>8 DEF Listen
  <2>2. changed' = FALSE
    BY <2>1 DEF GateInv, Managing
  <2>3. QED BY <2>1, <2>2, Forgotten
<1>9. CASE StartMcp \/ SessionEnds \/ Shutdown
  <2>1. stage = "idle" /\ UNCHANGED <<stage, request, verdict, changed>>
    BY <1>9 DEF StartMcp, SessionEnds, Shutdown
  <2>2. QED BY <2>1 DEF GateInv, Stages, Consent, Agreed, Answer, Unseen
<1>10. CASE ServiceChanges
  <2>1. stage = "serving" /\ request.method \in Managing /\ changed' = TRUE /\ UNCHANGED <<stage, request, verdict>>
    BY <1>10 DEF ServiceChanges
  <2>2. Consent = "given" /\ Consent' = Consent /\ Answer = "none" /\ Answer' = "none"
    BY <2>1 DEF GateInv, Consent, Agreed, Answer
  <2>3. QED BY <2>1, <2>2 DEF GateInv, Stages, Gate!Change
<1>11. CASE ServiceReturns \/ RunRefuses \/ RunReturns \/ OcrRunReturns \/ InstallReturns
  BY <1>11, Answered DEF ServiceReturns, RunRefuses, RunReturns, OcrRunReturns, InstallReturns
<1>12. CASE RunStarts \/ OcrRunStarts
  BY <1>12, Started DEF RunStarts, OcrRunStarts
<1>13. CASE InstallStarts
  BY <1>13, Started DEF InstallStarts, Installing, Managing
<1>14. CASE InstallGoesOn
  <2>1. stage = "installing" /\ changed' = (changed \/ pkg'.stage = "installed") /\ UNCHANGED <<stage, request, verdict>>
    BY <1>14 DEF InstallGoesOn
  <2>2. Consent = "given" /\ Consent' = Consent /\ Answer = "none" /\ Answer' = "none"
    BY <2>1 DEF GateInv, Consent, Agreed, Answer
  <2>3. changed' = changed \/ changed' = TRUE
    BY <2>1 DEF GateInv
  <2>4. QED BY <2>1, <2>2, <2>3 DEF GateInv, Stages, Gate!Change, Unseen
<1>15. CASE Running \/ OcrRunning \/ OtherProcesses
  BY <1>15, Untouched DEF Running, OcrRunning, OtherProcesses
<1>16. CASE Done
  <2>1. stage = "answered" /\ stage' = "idle" /\ changed' = FALSE
    BY <1>16 DEF Done
  <2>2. QED BY <2>1, Forgotten
<1>17. CASE UNCHANGED vars
  BY <1>17, Untouched DEF vars
<1>18. QED
  BY <1>2, <1>3, <1>4, <1>5, <1>6, <1>7, <1>8, <1>9, <1>10, <1>11, <1>12, <1>13, <1>14, <1>15, <1>16, <1>17 DEF Next

\* Whatever the front end, the tool, the command or the page, managed state changes only
\* for a request whose sender confirmed it, before it is answered, and never for one that
\* is refused: every step is a step of the consent gate, or one the gate does not see.
THEOREM ChangesAreConfirmed == Spec => ImplementsConsentGate
<1>1. Spec => []GateInv
  BY GateInvStart, GateStep, PTL DEF Spec
<1>2. QED BY <1>1, GateInvStart, GateStep, PTL DEF Spec, ImplementsConsentGate, Gate!Spec, Gate!gateVars

-----------------------------------------------------------------------------
(* The files of the built-in OCR (OcrAssets).                               *)

\* One step of an OCR run, or of the processes beside it.
OcrNext == OcrStep \/ OtherAsset \/ OtherRuntime \/ OcrReturns

LEMMA OcrBeneath == [Next]_vars => [OcrNext]_ocrVars
BY Zenon DEF Next, vars, frontVars, workVars, OcrNext, Main, CallTool, Path, About, Command, AnyMessage, ToolMessage, Message, Settle,
  HttpRequest, Prompt, Listen, StartMcp, SessionEnds, Shutdown, ServiceChanges, ServiceReturns, RunRefuses, RunStarts,
  Running, RunReturns, OcrRunStarts, OcrRunning, OtherProcesses, OcrRunReturns, InstallStarts, InstallGoesOn,
  InstallReturns, Done

Asked == reader.options.asked
Sources == AssetSources(reader.options)

\* An asset a recognition can rely on.
Usable(asset) == asset.path \in DOMAIN models /\ (asset.pinned => models[asset.path] = "upstream")

\* The assets that are no longer to be looked at are usable, and stay so; the stages of a
\* run belong to what was asked for.
OcrInv ==
  /\ reader = [stage |-> reader.stage, options |-> reader.options, todo |-> reader.todo, tried |-> reader.tried,
               opened |-> reader.opened, result |-> reader.result]
  /\ runtime \in [library : Contents \cup {"none"}, archive : Archives \cup {"none"}]
  /\ reader.result = "ok" => reader.stage = "ended"
  /\ reader.stage = "status" => "models" \notin Asked /\ "runtime" \notin Asked
  /\ reader.stage \in {"library", "fetching", "opening", "extracting", "removing"} => "runtime" \in Asked
  /\ reader.stage = "extracting" => reader.opened \in Contents
  /\ reader.stage = "removing" => runtime.library \in Contents
  /\ reader.stage = "models" =>
       /\ "models" \in Asked /\ "runtime" \notin Asked /\ Sources # <<>>
       /\ reader.todo \in Seq(ToSet(Sources))
       /\ reader.tried > 0 => reader.todo # <<>> /\ "dry" \notin Asked
       /\ "dry" \notin Asked => \A asset \in ToSet(Sources) \ ToSet(reader.todo) : Usable(asset)
  /\ Loaded("models") /\ "runtime" \notin Asked => Sources # <<>> /\ \A asset \in ToSet(Sources) : Usable(asset)
  /\ Loaded("runtime") => runtime.library \in Contents

\* A download is of a pinned set of files or of a set without digests.
LEMMA SourcesAlike ==
  ASSUME NEW o
  PROVE  /\ AssetSources(o) \in Seq(ToSet(AssetSources(o)))
         /\ \A a, b \in ToSet(AssetSources(o)) : a.pinned = b.pinned
<1> DEFINE mobile == Backend(o) = "onnxruntime" /\ Profile(o) \in {"rapidocr", "ppocrv4"} /\ ModelSize(o) = "mobile"
           six == Backend(o) = "onnxruntime" /\ Profile(o) = "ppocrv6" /\ ModelSize(o) \in ToSet(V6Sizes)
<1>0. PICK s : s = AssetSources(o)
  OBVIOUS
<1>1. CASE mobile
  <2>0. PICK a, b, c : a = Asset(V4("det", "mobile"), TRUE) /\ b = Asset(V4("rec", "mobile"), TRUE)
                     /\ c = Asset(<<"ppocr_keys_v1.txt">>, TRUE)
    OBVIOUS
  <2>1. s = <<a, b, c>>
    BY <1>0, <1>1, <2>0 DEF AssetSources
  <2>2. a.pinned = TRUE /\ b.pinned = TRUE /\ c.pinned = TRUE
    BY <2>0 DEF Asset
  <2>3. s \in Seq({a, b, c}) /\ ToSet(s) = {a, b, c}
    BY <2>1 DEF ToSet
  <2>4. QED BY <1>0, <2>2, <2>3
<1>2. CASE six
  <2>0. PICK a, b, c, d : /\ a = Asset(V6(ModelSize(o), "det", "inference.onnx"), FALSE)
                        /\ b = Asset(V6(ModelSize(o), "det", "inference.yml"), FALSE)
                        /\ c = Asset(V6(ModelSize(o), "rec", "inference.onnx"), FALSE)
                        /\ d = Asset(V6(ModelSize(o), "rec", "inference.yml"), FALSE)
    OBVIOUS
  <2>1. s = <<a, b, c, d>>
    BY <1>0, <1>2, <2>0 DEF AssetSources
  <2>2. a.pinned = FALSE /\ b.pinned = FALSE /\ c.pinned = FALSE /\ d.pinned = FALSE
    BY <2>0 DEF Asset
  <2>3. s \in Seq({a, b, c, d}) /\ ToSet(s) = {a, b, c, d}
    BY <2>1 DEF ToSet
  <2>4. QED BY <1>0, <2>2, <2>3
<1>3. CASE ~mobile /\ ~six
  <2>1. s = <<>>
    BY <1>0, <1>3 DEF AssetSources
  <2>2. ToSet(s) = {}
    BY <2>1 DEF ToSet
  <2>3. QED BY <1>0, <2>1, <2>2
<1>4. QED BY <1>1, <1>2, <1>3

LEMMA TailOf ==
  ASSUME NEW S, NEW q \in Seq(S), q # <<>>
  PROVE  /\ Head(q) \in ToSet(q) /\ ToSet(q) \subseteq S
         /\ Tail(q) \in Seq(S)
         /\ ToSet(q) \subseteq {Head(q)} \cup ToSet(Tail(q))
<1>1. Len(q) \in Nat \ {0} /\ DOMAIN q = 1..Len(q) /\ Tail(q) \in Seq(S)
  OBVIOUS
<1>2. \A i \in 2..Len(q) : Tail(q)[i - 1] = q[i] /\ i - 1 \in DOMAIN Tail(q)
  <2>1. Len(Tail(q)) = Len(q) - 1 /\ DOMAIN Tail(q) = 1..Len(Tail(q))
    BY <1>1
  <2>2. QED BY <1>1, <2>1
<1>3. \A i \in DOMAIN q : i = 1 \/ i \in 2..Len(q)
  BY <1>1
<1>4. Head(q) = q[1] /\ 1 \in DOMAIN q
  BY <1>1
<1>5. Head(q) \in ToSet(q) /\ ToSet(q) \subseteq S
  BY <1>1, <1>4 DEF ToSet
<1>6. ToSet(q) \subseteq {Head(q)} \cup ToSet(Tail(q))
  <2> SUFFICES ASSUME NEW i \in DOMAIN q, i # 1 PROVE q[i] \in ToSet(Tail(q))
    BY <1>4 DEF ToSet
  <2>1. i - 1 \in DOMAIN Tail(q) /\ q[i] = Tail(q)[i - 1]
    BY <1>2, <1>3
  <2>2. QED BY <2>1 DEF ToSet
<1>7. QED BY <1>1, <1>5, <1>6

\* A file that is acceptable for one of the assets, put in its place, leaves them all usable
\* that were.
LEMMA PlacedUsable ==
  ASSUME NEW o, NEW asset \in ToSet(AssetSources(o)), NEW other \in ToSet(AssetSources(o)), NEW content,
         Acceptable(asset, content), models' = Placed(asset.path, content)
  PROVE  Usable(asset)' /\ (Usable(other) => Usable(other)')
<1>1. asset.pinned = other.pinned
  BY SourcesAlike
<1>2. DOMAIN models' = DOMAIN models \cup {asset.path} /\ models'[asset.path] = content
      /\ \A p \in DOMAIN models : p # asset.path => models'[p] = models[p]
  BY DEF Placed
<1>3. QED BY <1>1, <1>2 DEF Usable, Acceptable

LEMMA OcrInvStart == OcrInit => OcrInv
BY DEF OcrInit, OcrInv, NoOcr, NoOptions, NoFiles, NoRuntime, Loaded, Asked

LEMMA OcrInvStep == OcrInv /\ [OcrNext]_ocrVars => OcrInv'
<1> SUFFICES ASSUME OcrInv, [OcrNext]_ocrVars PROVE OcrInv'
  OBVIOUS
<1>1. ASSUME reader.stage = "none", NEW r \in OcrRuns, OcrStarts(r) PROVE OcrInv'
  <2> DEFINE o == r.options
  <2>1. reader' = [stage |-> FirstStage(o, r.machine), options |-> o, todo |-> AssetSources(o), tried |-> 0,
                   opened |-> "none", result |-> "none"]
    BY <1>1 DEF OcrStarts, NoOcr
  <2>2. runtime' \in [library : Contents \cup {"none"}, archive : Archives \cup {"none"}]
    BY <1>1, OcrAssumption DEF OcrStarts, NoRuntime
  <2>3. FirstStage(o, r.machine) \in {"library", "refused", "models", "status"}
    BY DEF FirstStage
  <2>4. FirstStage(o, r.machine) = "library" => "runtime" \in o.asked
    BY DEF FirstStage
  <2>5. FirstStage(o, r.machine) = "models" => "models" \in o.asked /\ "runtime" \notin o.asked /\ AssetSources(o) # <<>>
    BY DEF FirstStage
  <2>6. FirstStage(o, r.machine) = "status" => "models" \notin o.asked /\ "runtime" \notin o.asked
    BY DEF FirstStage
  <2>7. AssetSources(o) \in Seq(ToSet(AssetSources(o)))
    BY SourcesAlike
  <2> HIDE DEF o
  <2>8. QED BY <2>1, <2>2, <2>3, <2>4, <2>5, <2>6, <2>7 DEF OcrInv, Asked, Sources, Loaded
<1>2. ASSUME OcrRefused \/ SourceFails PROVE OcrInv'
  BY <1>2 DEF OcrRefused, SourceFails, OcrEnd, OcrInv, Asked, Sources, Loaded, Usable
<1>3. ASSUME NEW linked, NEW read, OcrRecognizes(linked, read) PROVE OcrInv'
  BY <1>3 DEF OcrRecognizes, OcrEnd, OcrInv, Asked, Sources, Loaded, Usable
<1>4. CASE AssetSkipped
  <2> PICK asset : asset = Head(reader.todo)
    OBVIOUS
  <2>1. reader.stage = "models" /\ reader.todo # <<>> /\ UNCHANGED <<models, runtime>>
        /\ reader' = [reader EXCEPT !.todo = Tail(@), !.tried = 0]
    BY <1>4 DEF AssetSkipped, NextAsset
  <2>2. "dry" \notin Asked => Usable(asset)
    BY <1>4 DEF AssetSkipped, InPlace, Held, Usable, Asked
  <2>3. Tail(reader.todo) \in Seq(ToSet(Sources)) /\ ToSet(reader.todo) \subseteq {asset} \cup ToSet(Tail(reader.todo))
    BY <2>1, TailOf DEF OcrInv
  <2>4. "dry" \notin Asked => \A other \in ToSet(Sources) \ ToSet(Tail(reader.todo)) : Usable(other)
    BY <2>1, <2>2, <2>3 DEF OcrInv
  <2>5. reader' = [stage |-> "models", options |-> reader.options, todo |-> Tail(reader.todo), tried |-> 0,
                   opened |-> reader.opened, result |-> reader.result]
    BY <2>1 DEF OcrInv
  <2>6. reader'.options = reader.options /\ reader'.stage = "models" /\ reader'.todo = Tail(reader.todo) /\ reader'.tried = 0
        /\ reader'.result = reader.result
    BY <2>5
  <2>7. \A other : Usable(other) => Usable(other)'
    BY <2>1 DEF Usable
  <2>8. reader.result # "ok" /\ Asked' = Asked /\ Sources' = Sources
    BY <2>1, <2>6 DEF OcrInv, Asked, Sources
  <2>9. ~Loaded("models")' /\ ~Loaded("runtime")'
    BY <2>6, <2>8 DEF Loaded
  <2>10. reader' = [stage |-> reader'.stage, options |-> reader'.options, todo |-> reader'.todo, tried |-> reader'.tried,
                    opened |-> reader'.opened, result |-> reader'.result]
    BY <2>5
  <2>11. "dry" \notin Asked' => \A other \in ToSet(Sources') \ ToSet(reader'.todo) : Usable(other)'
    BY <2>4, <2>6, <2>7, <2>8
  <2>12. QED BY <2>1, <2>3, <2>6, <2>8, <2>9, <2>10, <2>11 DEF OcrInv
<1>5. CASE AssetNeeded
  BY <1>5 DEF AssetNeeded, OcrInv, Asked, Sources, Loaded, Usable
<1>6. ASSUME NEW content, AssetArrives(content) PROVE OcrInv'
  <2> PICK asset : asset = Head(reader.todo)
    OBVIOUS
  <2>1. reader.stage = "models" /\ reader.tried > 0 /\ Acceptable(asset, content) /\ UNCHANGED runtime
        /\ reader' = [reader EXCEPT !.todo = Tail(@), !.tried = 0] /\ models' = Placed(asset.path, content)
    BY <1>6 DEF AssetArrives, NextAsset
  <2>2. /\ Tail(reader.todo) \in Seq(ToSet(Sources)) /\ ToSet(reader.todo) \subseteq {asset} \cup ToSet(Tail(reader.todo))
        /\ asset \in ToSet(Sources)
    BY <2>1, TailOf DEF OcrInv
  <2>3. \A other \in ToSet(Sources) : Usable(asset)' /\ (Usable(other) => Usable(other)')
    BY <2>1, <2>2, PlacedUsable DEF Sources
  <2>4. \A other \in ToSet(Sources) \ ToSet(Tail(reader.todo)) : Usable(other)'
    BY <2>1, <2>2, <2>3 DEF OcrInv
  <2>5. reader'.options = reader.options /\ reader'.stage = "models" /\ reader'.todo = Tail(reader.todo) /\ reader'.tried = 0
        /\ reader'.result = reader.result
    BY <2>1 DEF OcrInv
  <2>6. reader' = [stage |-> reader'.stage, options |-> reader'.options, todo |-> reader'.todo, tried |-> reader'.tried,
                   opened |-> reader'.opened, result |-> reader'.result]
    BY <2>1 DEF OcrInv
  <2>7. QED BY <2>1, <2>2, <2>4, <2>5, <2>6 DEF OcrInv, Asked, Sources, Loaded
<1>7. CASE AssetsDone
  <2>1. ToSet(reader.todo) = {}
    BY <1>7 DEF AssetsDone, ToSet
  <2>2. QED BY <1>7, <2>1 DEF AssetsDone, OcrEnd, OcrInv, Asked, Sources, Loaded, Usable
<1>8. CASE LibraryThere \/ LibraryNeeded \/ ArchiveOpened
  BY <1>8 DEF LibraryThere, LibraryNeeded, ArchiveOpened, Contents, OcrEnd, OcrGoTo, OcrInv, Asked, Sources, Loaded, Usable
<1>9. ASSUME NEW content \in Archives \cup {"none"}, ArchiveArrives(content) PROVE OcrInv'
  BY <1>9 DEF ArchiveArrives, OcrEnd, OcrGoTo, OcrInv, Asked, Sources, Loaded, Usable
<1>10. ASSUME NEW copied, LibraryExtracted(copied) PROVE OcrInv'
  BY <1>10 DEF LibraryExtracted, OcrEnd, OcrGoTo, OcrInv, Asked, Sources, Loaded, Usable
<1>11. ASSUME NEW removed, ArchiveRemoved(removed) PROVE OcrInv'
  <2>1. /\ reader.stage = "removing" /\ UNCHANGED models
        /\ reader' = [reader EXCEPT !.stage = "ended", !.result = "ok"] \/ reader' = [reader EXCEPT !.stage = "ended", !.result = "failed"]
    BY <1>11 DEF ArchiveRemoved, OcrEnd
  <2>2. runtime' \in [library : Contents \cup {"none"}, archive : Archives \cup {"none"}] /\ runtime'.library = runtime.library
    BY <1>11 DEF ArchiveRemoved, OcrInv
  <2>3. QED BY <2>1, <2>2 DEF OcrInv, Asked, Sources, Loaded, Usable
<1>12. CASE OtherAsset
  <2>1. PICK asset \in ToSet(Sources), content \in Contents :
          Acceptable(asset, content) /\ models' = Placed(asset.path, content)
    BY <1>12 DEF OtherAsset, Sources
  <2>2. \A other \in ToSet(Sources) : Usable(other) => Usable(other)'
    BY <2>1, PlacedUsable DEF Sources
  <2>3. reader.stage = "models" /\ UNCHANGED <<reader, runtime>>
    BY <1>12 DEF OtherAsset
  <2>4. QED BY <2>2, <2>3 DEF OcrInv, Asked, Sources, Loaded
<1>13. CASE OtherRuntime
  BY <1>13 DEF OtherRuntime, OcrInv, Asked, Sources, Loaded, Usable
<1>14. CASE OcrReturns
  <2>1. OcrInit'
    BY <1>14 DEF OcrReturns, OcrInit
  <2>2. QED BY <2>1, OcrInvStart, PTL
<1>15. CASE UNCHANGED ocrVars
  BY <1>15 DEF ocrVars, OcrInv, Asked, Sources, Loaded, Usable
<1>16. QED
  BY <1>1, <1>2, <1>3, <1>4, <1>5, <1>6, <1>7, <1>8, <1>9, <1>10, <1>11, <1>12, <1>13, <1>14, <1>15 DEF OcrNext, OcrStep

LEMMA SmallestIn ==
  ASSUME NEW I \in SUBSET Nat, I # {}
  PROVE  Min(I) \in I /\ \A y \in I : Min(I) <= y
<1> DEFINE R == OpToRel(<, Nat)
<1>1. IsWellFoundedOn(R, Nat)
  BY NatLessThanWellFounded
<1>2. PICK x \in I : \A y \in I : ~(<<y, x>> \in R)
  <2> HIDE DEF R
  <2> QED BY <1>1, WFMin
<1>3. \A y \in I : ~(y < x)
  BY <1>2 DEF OpToRel
<1>4. \A y \in I : x <= y
  BY <1>3
<1>5. QED BY <1>4 DEF Min

\* A candidate that is there is enough, wherever it stands in the list.
LEMMA FirstFound ==
  ASSUME NEW candidates, Len(candidates) \in Nat, NEW default, NEW i \in 1..Len(candidates), candidates[i] \in DOMAIN models
  PROVE  FirstOr(candidates, default) \in DOMAIN models
<1> DEFINE I == {j \in 1..Len(candidates) : candidates[j] \in DOMAIN models}
<1>1. I \in SUBSET Nat /\ I # {}
  OBVIOUS
<1>2. SelectInSeq(candidates, LAMBDA path : path \in DOMAIN models) = Min(I)
  BY <1>1 DEF SelectInSeq
<1>3. Min(I) \in I
  BY <1>1, SmallestIn
<1>4. QED BY <1>2, <1>3 DEF FirstOr

LEMMA Joint ==
  ASSUME NEW S, NEW s \in Seq(S), NEW t \in Seq(S)
  PROVE  /\ s \o t \in Seq(S) /\ Len(s \o t) = Len(s) + Len(t)
         /\ \A i \in 1..Len(s) : (s \o t)[i] = s[i]
         /\ \A i \in 1..Len(t) : (s \o t)[Len(s) + i] = t[i]
<1>1. s \o t \in Seq(S) /\ Len(s \o t) = Len(s) + Len(t) /\ Len(s) \in Nat /\ Len(t) \in Nat
  BY ConcatProperties
<1>2. \A i \in 1..(Len(s) + Len(t)) : (s \o t)[i] = IF i <= Len(s) THEN s[i] ELSE t[i - Len(s)]
  BY ConcatProperties
<1>3. QED BY <1>1, <1>2

\* The files of each download are among the candidates of the recognition.
LEMMA V4Candidates ==
  ASSUME NEW o, Backend(o) # "ncnn", Profile(o) \in {"rapidocr", "ppocrv4"}, NEW kind
  PROVE  /\ Len(FileCandidates(o, kind)) \in Nat
         /\ \E i \in 1..Len(FileCandidates(o, kind)) : FileCandidates(o, kind)[i] = V4(kind, "mobile")
<1> PICK all : all = FileCandidates(o, kind)
  OBVIOUS
<1> PICK p, q : p = <<Profile(o), kind, "onnx">> /\ q = <<kind, "onnx">>
  OBVIOUS
<1> PICK plain : plain = <<p, q>>
  OBVIOUS
<1>0. Len(plain) = 2 /\ plain \in Seq({p, q})
  OBVIOUS
<1>1. CASE Profile(o) = "rapidocr"
  <2>1. all = <<V4(kind, "mobile"), V4(kind, "infer"), <<"PP-OCRv4", kind, "mobile">>, <<"onnx", kind, "infer">>>> \o plain
    BY <1>1 DEF FileCandidates
  <2>2. Len(all) = 6 /\ all[1] = V4(kind, "mobile")
    BY <2>1
  <2>3. QED BY <2>2
<1>2. CASE Profile(o) = "ppocrv4"
  <2> DEFINE names == <<"mobile", "plain", "infer">>
             more == [i \in DOMAIN names |-> <<"ch_PP-OCRv4", kind, names[i]>>]
  <2>1. all = plain \o more
    BY <1>2 DEF FileCandidates
  <2>2. Len(more) = 3 /\ more \in Seq({more[i] : i \in DOMAIN more}) /\ more[1] = V4(kind, "mobile")
    BY DEF V4
  <2> HIDE DEF more
  <2>3. \E S : plain \in Seq(S) /\ more \in Seq(S)
    <3> WITNESS {p, q} \cup {more[i] : i \in DOMAIN more}
    <3> QED BY <1>0, <2>2
  <2>4. PICK S : plain \in Seq(S) /\ more \in Seq(S)
    BY <2>3
  <2>5. Len(all) = Len(plain) + Len(more) /\ \A i \in 1..Len(more) : all[Len(plain) + i] = more[i]
    BY <2>1, <2>4, Joint
  <2>6. QED BY <1>0, <2>2, <2>5
<1>3. QED BY <1>1, <1>2

LEMMA V6Candidates ==
  ASSUME NEW o, Backend(o) # "ncnn", Profile(o) = "ppocrv6", NEW kind, NEW size \in ToSet(V6Sizes)
  PROVE  /\ Len(FileCandidates(o, kind)) \in Nat
         /\ \E i \in 1..Len(FileCandidates(o, kind)) : FileCandidates(o, kind)[i] = V6(size, kind, "inference.onnx")
<1> PICK all : all = FileCandidates(o, kind)
  OBVIOUS
<1> PICK p, q : p = <<Profile(o), kind, "onnx">> /\ q = <<kind, "onnx">>
  OBVIOUS
<1> PICK plain : plain = <<p, q>>
  OBVIOUS
<1> DEFINE three == <<"plain", "server", "mobile">>
           first == [i \in DOMAIN V6Sizes |-> <<"PP-OCRv6", kind, V6Sizes[i]>>]
           second == [i \in 1..3 |-> V6(V6Sizes[i], kind, "inference.onnx")]
           third == [i \in DOMAIN three |-> <<"ch_PP-OCRv6", kind, three[i]>>]
<1>0. Len(plain) = 2 /\ plain \in Seq({p, q})
  OBVIOUS
<1>1. all = plain \o first \o second \o third
  BY DEF FileCandidates
<1>2. DOMAIN V6Sizes = 1..3 /\ DOMAIN three = 1..3
  BY DEF V6Sizes
<1>3. Len(first) = 3 /\ first \in Seq({first[i] : i \in 1..3})
  BY <1>2
<1>4. Len(second) = 3 /\ second \in Seq({second[i] : i \in 1..3})
  OBVIOUS
<1>5. Len(third) = 3 /\ third \in Seq({third[i] : i \in 1..3})
  BY <1>2
<1>6. PICK i \in 1..3 : size = V6Sizes[i]
  BY <1>2 DEF ToSet
<1>7. second[i] = V6(size, kind, "inference.onnx")
  BY <1>6
<1> HIDE DEF first, second, third
<1>8. Len(all) = 11 /\ all[5 + i] = second[i]
  <2>1. \E S : plain \in Seq(S) /\ first \in Seq(S) /\ second \in Seq(S) /\ third \in Seq(S)
    <3> WITNESS {p, q} \cup {first[j] : j \in 1..3} \cup {second[j] : j \in 1..3} \cup {third[j] : j \in 1..3}
    <3> QED BY <1>0, <1>3, <1>4, <1>5
  <2>2. PICK S : plain \in Seq(S) /\ first \in Seq(S) /\ second \in Seq(S) /\ third \in Seq(S)
    BY <2>1
  <2> PICK two : two = plain \o first
    OBVIOUS
  <2>3. two \in Seq(S) /\ Len(two) = 5
    <3>1. two \in Seq(S) /\ Len(two) = Len(plain) + Len(first)
      BY <2>2, Joint
    <3>2. QED BY <1>0, <1>3, <3>1
  <2> PICK more : more = two \o second
    OBVIOUS
  <2>4. more \in Seq(S) /\ Len(more) = 8 /\ more[5 + i] = second[i]
    <3>1. more \in Seq(S) /\ Len(more) = Len(two) + Len(second)
          /\ \A j \in 1..Len(second) : more[Len(two) + j] = second[j]
      BY <2>2, <2>3, Joint
    <3>2. QED BY <1>4, <2>3, <3>1
  <2>5. all = more \o third
    BY <1>1
  <2>6. Len(all) = Len(more) + Len(third) /\ \A j \in 1..Len(more) : all[j] = more[j]
    BY <2>2, <2>4, <2>5, Joint
  <2>7. QED BY <2>4, <2>6, <1>5
<1>9. QED BY <1>7, <1>8

LEMMA KeysListed ==
  /\ Len(KeysCandidates) \in Nat
  /\ \E i \in 1..Len(KeysCandidates) : KeysCandidates[i] = <<"ppocr_keys_v1.txt">>
  /\ \A size \in ToSet(V6Sizes) :
       \E i \in 1..Len(KeysCandidates) : KeysCandidates[i] = V6(size, "rec", "inference.yml")
<1> PICK all : all = KeysCandidates
  OBVIOUS
<1> DEFINE six == [i \in 1..3 |-> V6(V6Sizes[i], "rec", "inference.yml")]
<1> PICK named : named = <<<<"keys.txt">>, <<"ppocr_keys_v1.txt">>, <<"ppocrv5_dict.txt">>, <<"dict.txt">>,
                           <<"inference.yml">>, <<"inference.yaml">>>>
  OBVIOUS
<1>1. all = named \o six
  BY DEF KeysCandidates
<1>2. Len(named) = 6 /\ named \in Seq({named[i] : i \in 1..6}) /\ named[2] = <<"ppocr_keys_v1.txt">>
  OBVIOUS
<1>3. Len(six) = 3 /\ six \in Seq({six[i] : i \in 1..3})
  OBVIOUS
<1>4. \A size \in ToSet(V6Sizes) : \E i \in 1..3 : six[i] = V6(size, "rec", "inference.yml")
  <2>1. DOMAIN V6Sizes = 1..3
    BY DEF V6Sizes
  <2>2. QED BY <2>1 DEF ToSet
<1> HIDE DEF six
<1>5. \E S : named \in Seq(S) /\ six \in Seq(S)
  <2> WITNESS {named[i] : i \in 1..6} \cup {six[i] : i \in 1..3}
  <2> QED BY <1>2, <1>3
<1>6. PICK S : named \in Seq(S) /\ six \in Seq(S)
  BY <1>5
<1>7. /\ Len(all) = Len(named) + Len(six)
      /\ \A i \in 1..Len(named) : all[i] = named[i]
      /\ \A i \in 1..Len(six) : all[Len(named) + i] = six[i]
  BY <1>1, <1>6, Joint
<1>8. Len(all) = 9 /\ all[2] = <<"ppocr_keys_v1.txt">>
  BY <1>2, <1>3, <1>7
<1>9. \A i \in 1..3 : all[6 + i] = six[i] /\ 6 + i \in 1..9
  BY <1>2, <1>3, <1>7
<1>10. QED BY <1>4, <1>8, <1>9

\* What was downloaded is what a recognition with the same options looks for.
LEMMA DownloadSuffices ==
  ASSUME NEW o, AssetSources(o) # <<>>, \A asset \in ToSet(AssetSources(o)) : asset.path \in DOMAIN models,
         DOMAIN o.named = {}
  PROVE  RequiredFiles(o) \subseteq DOMAIN models
<1> DEFINE mobile == Backend(o) = "onnxruntime" /\ Profile(o) \in {"rapidocr", "ppocrv4"} /\ ModelSize(o) = "mobile"
           six == Backend(o) = "onnxruntime" /\ Profile(o) = "ppocrv6" /\ ModelSize(o) \in ToSet(V6Sizes)
<1>1. mobile \/ six
  BY DEF AssetSources
<1>2. SUFFICES ASSUME NEW kind \in {"det", "rec"}
               PROVE  /\ FirstOr(FileCandidates(o, kind), FileCandidates(o, kind)[1]) \in DOMAIN models
                      /\ FirstOr(KeysCandidates, <<"ppocr_keys_v1.txt">>) \in DOMAIN models
  <2>1. Backend(o) # "ncnn"
    BY <1>1
  <2>2. RequiredFiles(o) = {ModelFile(o, "det"), ModelFile(o, "rec"), KeysFile(o)}
    BY <2>1 DEF RequiredFiles
  <2>3. KeysFile(o) = FirstOr(KeysCandidates, <<"ppocr_keys_v1.txt">>)
    BY DEF KeysFile
  <2>4. \A kind \in {"det", "rec"} : ModelFile(o, kind) = FirstOr(FileCandidates(o, kind), FileCandidates(o, kind)[1])
    BY DEF ModelFile
  <2>5. QED BY <1>2, <2>2, <2>3, <2>4
<1>3. ASSUME NEW path, NEW pinned, Asset(path, pinned) \in ToSet(AssetSources(o)) PROVE path \in DOMAIN models
  <2>1. Asset(path, pinned).path = path
    BY DEF Asset
  <2>2. QED BY <1>3, <2>1
<1>4. CASE mobile
  <2>0. PICK s, a, b, c : /\ s = AssetSources(o) /\ a = Asset(V4("det", "mobile"), TRUE)
                        /\ b = Asset(V4("rec", "mobile"), TRUE) /\ c = Asset(<<"ppocr_keys_v1.txt">>, TRUE)
    OBVIOUS
  <2>1. s = <<a, b, c>>
    BY <1>4, <2>0 DEF AssetSources
  <2>2. ToSet(s) = {a, b, c}
    BY <2>1 DEF ToSet
  <2>3. V4(kind, "mobile") \in DOMAIN models /\ <<"ppocr_keys_v1.txt">> \in DOMAIN models
    BY <1>3, <2>0, <2>2
  <2>4. Backend(o) # "ncnn" /\ Profile(o) \in {"rapidocr", "ppocrv4"}
    BY <1>4
  <2>5. FirstOr(FileCandidates(o, kind), FileCandidates(o, kind)[1]) \in DOMAIN models
    BY <2>3, <2>4, V4Candidates, FirstFound
  <2>6. FirstOr(KeysCandidates, <<"ppocr_keys_v1.txt">>) \in DOMAIN models
    BY <2>3, KeysListed, FirstFound
  <2>7. QED BY <2>5, <2>6
<1>5. CASE six
  <2> DEFINE size == ModelSize(o)
  <2>0. PICK s, a, b, c, d : /\ s = AssetSources(o)
                           /\ a = Asset(V6(size, "det", "inference.onnx"), FALSE)
                           /\ b = Asset(V6(size, "det", "inference.yml"), FALSE)
                           /\ c = Asset(V6(size, "rec", "inference.onnx"), FALSE)
                           /\ d = Asset(V6(size, "rec", "inference.yml"), FALSE)
    OBVIOUS
  <2>1. s = <<a, b, c, d>>
    BY <1>5, <2>0 DEF AssetSources
  <2>2. ToSet(s) = {a, b, c, d}
    BY <2>1 DEF ToSet
  <2>3. V6(size, kind, "inference.onnx") \in DOMAIN models /\ V6(size, "rec", "inference.yml") \in DOMAIN models
    BY <1>3, <2>0, <2>2
  <2>4. Backend(o) # "ncnn" /\ Profile(o) = "ppocrv6" /\ size \in ToSet(V6Sizes)
    BY <1>5
  <2>5. FirstOr(FileCandidates(o, kind), FileCandidates(o, kind)[1]) \in DOMAIN models
    BY <2>3, <2>4, V6Candidates, FirstFound
  <2>6. FirstOr(KeysCandidates, <<"ppocr_keys_v1.txt">>) \in DOMAIN models
    BY <2>3, <2>4, KeysListed, FirstFound
  <2>7. QED BY <2>5, <2>6
<1>6. QED BY <1>1, <1>4, <1>5

\* A download that succeeds leaves what a recognition with the same options needs, pinned
\* files with their digest and the library whole, whatever the sources served, what lay
\* there before and the downloads of other processes did.
THEOREM DownloadsSuffice == Spec => []DownloadsAreUsable
<1>1. Init => OcrInit
  BY DEF Init
<1>2. OcrInv => DownloadsAreUsable
  <2> SUFFICES ASSUME OcrInv PROVE DownloadsAreUsable
    OBVIOUS
  <2>1. ASSUME Loaded("models"), "runtime" \notin Asked
        PROVE  /\ \A asset \in ToSet(Sources) : Usable(asset)
               /\ DOMAIN reader.options.named = {} => RequiredFiles(reader.options) \subseteq DOMAIN models
    <3>1. Sources # <<>> /\ \A asset \in ToSet(Sources) : Usable(asset)
      BY <2>1 DEF OcrInv
    <3>2. QED BY <3>1, DownloadSuffices DEF Sources, Usable
  <2>2. Loaded("runtime") => OcrStatus(reader.options, TRUE) # "no_library"
    BY DEF OcrInv, OcrStatus, Contents
  <2>3. QED BY <2>1, <2>2 DEF DownloadsAreUsable, Asked, Sources, Usable
<1>3. QED BY <1>1, <1>2, OcrInvStart, OcrInvStep, OcrBeneath, PTL DEF Spec

-----------------------------------------------------------------------------
(* Induction over finite sets, and folds.                                   *)

\* Induction over the natural numbers, for a set of them.
LEMMA Induction ==
  ASSUME NEW S \in SUBSET Nat, 0 \in S, \A n \in S : n + 1 \in S
  PROVE  S = Nat
<1> DEFINE R == OpToRel(<, Nat)
           T == Nat \ S
<1>1. IsWellFoundedOn(R, Nat)
  BY NatLessThanWellFounded
<1>2. SUFFICES ASSUME T # {} PROVE FALSE
  OBVIOUS
<1>3. PICK x \in T : \A y \in T : ~(<<y, x>> \in R)
  <2> HIDE DEF R
  <2>1. T \subseteq Nat
    OBVIOUS
  <2> HIDE DEF T
  <2> QED BY <1>1, <1>2, <2>1, WFMin
<1>4. \A y \in T : ~(y < x)
  BY <1>3 DEF OpToRel
<1>5. x \in Nat /\ x # 0 /\ x - 1 \in Nat /\ x - 1 < x /\ x = (x - 1) + 1
  OBVIOUS
<1>6. x - 1 \in S
  BY <1>4, <1>5
<1>7. QED BY <1>5, <1>6

\* A set of subsets that has a subset with all it has of one element less has every subset.
LEMMA SubsetInduction ==
  ASSUME NEW D, IsFiniteSet(D), NEW T,
         \A s \in SUBSET D : (\A p \in s : s \ {p} \in T) => s \in T
  PROVE  \A s \in SUBSET D : s \in T
<1> DEFINE N == {n \in Nat : \A s \in SUBSET D : Cardinality(s) <= n => s \in T}
<1>0. \A s \in SUBSET D : IsFiniteSet(s) /\ Cardinality(s) \in Nat /\ (Cardinality(s) = 0 <=> s = {})
  BY FS_Subset, FS_CardinalityType, FS_EmptySet
<1>1. 0 \in N
  BY <1>0
<1>2. ASSUME NEW n \in N PROVE n + 1 \in N
  <2> SUFFICES ASSUME NEW s \in SUBSET D, Cardinality(s) <= n + 1 PROVE s \in T
    OBVIOUS
  <2>1. ASSUME NEW p \in s PROVE s \ {p} \in T
    <3>1. Cardinality(s \ {p}) = Cardinality(s) - 1
      BY <1>0, FS_RemoveElement
    <3>2. Cardinality(s \ {p}) <= n /\ s \ {p} \in SUBSET D
      BY <1>0, <3>1
    <3>3. QED BY <3>2
  <2>2. QED BY <2>1
<1>3. N = Nat
  <2>1. N \subseteq Nat
    OBVIOUS
  <2> HIDE DEF N
  <2>2. QED BY <1>1, <1>2, <2>1, Induction
<1>4. QED BY <1>0, <1>3

\* A fold over the subsets of a finite set exists.
Foldable(D, A, base, m, F) ==
  /\ IsFiniteSet(D) /\ base \in A
  /\ \A s \in SUBSET D : s # {} => m[s] \in s
  /\ \A x \in D, a \in A : F[<<x, a>>] \in A

Folded(D, A, base, m, F) ==
  \E g \in [SUBSET D -> A] : \A s \in SUBSET D : g[s] = IF s = {} THEN base ELSE F[<<m[s], g[s \ {m[s]}]>>]

LEMMA FoldExists ==
  ASSUME NEW D, NEW A, NEW base, NEW m, NEW F, Foldable(D, A, base, m, F)
  PROVE  Folded(D, A, base, m, F)
<1> SUFFICES ASSUME IsFiniteSet(D), base \in A, \A s \in SUBSET D : s # {} => m[s] \in s,
                    \A x \in D, a \in A : F[<<x, a>>] \in A
             PROVE  \E g \in [SUBSET D -> A] :
                      \A s \in SUBSET D : g[s] = IF s = {} THEN base ELSE F[<<m[s], g[s \ {m[s]}]>>]
  BY DEF Foldable, Folded
<1> DEFINE Small(n) == {s \in SUBSET D : Cardinality(s) <= n}
           Folds(g, s) == g[s] = IF s = {} THEN base ELSE F[<<m[s], g[s \ {m[s]}]>>]
           N == {n \in Nat : \E g \in [Small(n) -> A] : \A s \in Small(n) : Folds(g, s)}
<1>0. \A s \in SUBSET D : IsFiniteSet(s) /\ Cardinality(s) \in Nat /\ (Cardinality(s) = 0 <=> s = {})
  BY FS_Subset, FS_CardinalityType, FS_EmptySet
<1>1. 0 \in N
  <2>1. \A s \in Small(0) : s = {}
    BY <1>0
  <2>2. [s \in Small(0) |-> base] \in [Small(0) -> A] /\ \A s \in Small(0) : Folds([t \in Small(0) |-> base], s)
    BY <2>1
  <2>3. QED BY <2>2
<1>2. ASSUME NEW n \in N PROVE n + 1 \in N
  <2>1. PICK g \in [Small(n) -> A] : \A s \in Small(n) : Folds(g, s)
    OBVIOUS
  <2>2. \A s \in Small(n + 1) : s # {} => s \ {m[s]} \in Small(n)
    <3> SUFFICES ASSUME NEW s \in Small(n + 1), s # {} PROVE s \ {m[s]} \in Small(n)
      OBVIOUS
    <3>1. m[s] \in s /\ IsFiniteSet(s) /\ Cardinality(s) \in Nat
      BY <1>0
    <3>2. \A x : Cardinality(s \ {x}) = IF x \in s THEN Cardinality(s) - 1 ELSE Cardinality(s)
      BY <3>1, FS_RemoveElement
    <3>3. Cardinality(s \ {m[s]}) = Cardinality(s) - 1
      BY <3>1, <3>2
    <3>4. QED BY <3>1, <3>3
  <2>3. \A s \in Small(n) : s \in Small(n + 1)
    BY <1>0
  <2> DEFINE h == [s \in Small(n + 1) |-> IF s = {} THEN base ELSE F[<<m[s], g[s \ {m[s]}]>>]]
  <2> HIDE DEF Small
  <2>4. h \in [Small(n + 1) -> A]
    <3>1. ASSUME NEW s \in Small(n + 1) PROVE (IF s = {} THEN base ELSE F[<<m[s], g[s \ {m[s]}]>>]) \in A
      <4>1. CASE s = {} BY <4>1
      <4>2. CASE s # {}
        <5>1. m[s] \in D
          BY <4>2 DEF Small
        <5>2. g[s \ {m[s]}] \in A
          BY <2>2, <4>2
        <5>3. QED BY <4>2, <5>1, <5>2
      <4>3. QED BY <4>1, <4>2
    <3>2. QED BY <3>1
  <2>5. \A s \in Small(n) : h[s] = g[s]
    BY <2>1, <2>3
  <2>6. ASSUME NEW s \in Small(n + 1) PROVE Folds(h, s)
    BY <2>2, <2>5
  <2>7. n + 1 \in Nat
    OBVIOUS
  <2>8. QED BY <2>4, <2>6, <2>7
<1>3. N = Nat
  <2>1. N \subseteq Nat
    OBVIOUS
  <2> HIDE DEF N
  <2>2. QED BY <1>1, <1>2, <2>1, Induction
<1>4. Cardinality(D) \in Nat /\ \A s \in SUBSET D : Cardinality(s) <= Cardinality(D)
  BY <1>0, FS_Subset, FS_CardinalityType
<1>5. Small(Cardinality(D)) = SUBSET D
  BY <1>4
<1>6. Cardinality(D) \in N
  BY <1>3, <1>4
<1> HIDE DEF Small
<1>7. PICK g \in [Small(Cardinality(D)) -> A] : \A s \in Small(Cardinality(D)) : Folds(g, s)
  BY <1>6
<1>8. QED BY <1>5, <1>7

\* g sums up the values of f over the sets of its arguments.
Sums(f, g) ==
  /\ g[{}] = 0
  /\ \A s \in SUBSET DOMAIN f : g[s] \in Nat /\ \A p \in s : g[s] = f[p] + g[s \ {p}]

LEMMA TotalSums ==
  ASSUME NEW f, IsFiniteSet(DOMAIN f), f \in [DOMAIN f -> Nat]
  PROVE  \E g : Sums(f, g) /\ Total(f) = g[DOMAIN f]
<1> DEFINE D == DOMAIN f
           m == [s \in SUBSET D |-> CHOOSE x \in s : TRUE]
           F == [x \in D \X Nat |-> f[x[1]] + x[2]]
           Iter(it) == it = [s \in SUBSET D |-> IF s = {} THEN 0 ELSE f[CHOOSE x \in s : TRUE] + it[s \ {CHOOSE x \in s : TRUE}]]
           iter == CHOOSE it : Iter(it)
<1>1. Total(f) = iter[D]
  BY DEF Total, FoldFunction, FoldFunctionOnSet, MapThenFoldSet
<1>2. \A s \in SUBSET D : s # {} => m[s] \in s
  OBVIOUS
<1>3. \A x \in D, a \in Nat : F[<<x, a>>] \in Nat /\ F[<<x, a>>] = f[x] + a
  OBVIOUS
<1>4. PICK h \in [SUBSET D -> Nat] : \A s \in SUBSET D : h[s] = IF s = {} THEN 0 ELSE F[<<m[s], h[s \ {m[s]}]>>]
  <2>1. IsFiniteSet(D)
    OBVIOUS
  <2> HIDE DEF D, m, F
  <2>2. Foldable(D, Nat, 0, m, F)
    BY <1>2, <1>3, <2>1 DEF Foldable
  <2>3. Folded(D, Nat, 0, m, F)
    BY <2>2, FoldExists
  <2>4. QED BY <2>3 DEF Folded
<1>5. \A s \in SUBSET D : s # {} => h[s] = f[m[s]] + h[s \ {m[s]}]
  <2> SUFFICES ASSUME NEW s \in SUBSET D, s # {} PROVE h[s] = f[m[s]] + h[s \ {m[s]}]
    OBVIOUS
  <2>1. m[s] \in D /\ h[s \ {m[s]}] \in Nat
    BY <1>2
  <2> HIDE DEF m, F
  <2>2. QED BY <1>3, <1>4, <2>1
<1>6. Iter(h)
  <2>1. \A s \in SUBSET D : h[s] = IF s = {} THEN 0 ELSE f[CHOOSE x \in s : TRUE] + h[s \ {CHOOSE x \in s : TRUE}]
    BY <1>4, <1>5
  <2>2. QED BY <2>1
<1>7. Iter(iter)
  <2> HIDE DEF Iter
  <2> QED BY <1>6
<1>8. \A s \in SUBSET D : iter[s] = IF s = {} THEN 0 ELSE f[m[s]] + iter[s \ {m[s]}]
  <2> HIDE DEF iter
  <2> QED BY <1>7
<1> HIDE DEF iter, m, F, Iter
<1>9. \A s \in SUBSET D : iter[s] \in Nat
  <2> DEFINE T == {s \in SUBSET D : iter[s] \in Nat}
  <2>1. ASSUME NEW s \in SUBSET D, \A p \in s : s \ {p} \in T PROVE s \in T
    <3>1. CASE s = {}
      <4>1. iter[s] = 0
        BY <1>8, <3>1
      <4>2. QED BY <4>1
    <3>2. CASE s # {}
      <4>1. m[s] \in s /\ s \ {m[s]} \in T
        BY <1>2, <2>1, <3>2
      <4>2. f[m[s]] \in Nat /\ iter[s \ {m[s]}] \in Nat /\ iter[s] = f[m[s]] + iter[s \ {m[s]}]
        BY <1>8, <3>2, <4>1
      <4>3. iter[s] \in Nat
        BY <4>2
      <4>4. QED BY <4>3
    <3>3. QED BY <3>1, <3>2
  <2> HIDE DEF T
  <2>2. \A s \in SUBSET D : s \in T
    BY <2>1, SubsetInduction
  <2>3. QED BY <2>2 DEF T
<1>10. \A s \in SUBSET D : \A p \in s : iter[s] = f[p] + iter[s \ {p}]
  <2> DEFINE T == {s \in SUBSET D : \A p \in s : iter[s] = f[p] + iter[s \ {p}]}
  <2>1. ASSUME NEW s \in SUBSET D, \A p \in s : s \ {p} \in T PROVE s \in T
    <3> SUFFICES ASSUME NEW p \in s PROVE iter[s] = f[p] + iter[s \ {p}]
      OBVIOUS
    <3>1. m[s] \in s /\ iter[s] = f[m[s]] + iter[s \ {m[s]}]
      BY <1>2, <1>8
    <3>2. CASE p = m[s]
      BY <3>1, <3>2
    <3>3. CASE p # m[s]
      <4> DEFINE rest == (s \ {m[s]}) \ {p}
      <4>1. iter[s \ {m[s]}] = f[p] + iter[rest]
        BY <2>1, <3>1, <3>3
      <4>2. iter[s \ {p}] = f[m[s]] + iter[(s \ {p}) \ {m[s]}]
        BY <2>1, <3>1, <3>3
      <4>3. (s \ {p}) \ {m[s]} = rest /\ rest \in SUBSET D
        OBVIOUS
      <4>4. PICK a \in Nat, b \in Nat, c \in Nat : a = f[p] /\ b = f[m[s]] /\ c = iter[rest]
        BY <1>9, <3>1, <4>3
      <4>5. iter[s] = b + (a + c) /\ iter[s \ {p}] = b + c
        BY <3>1, <4>1, <4>2, <4>3, <4>4
      <4>6. b + (a + c) = a + (b + c)
        OBVIOUS
      <4>7. QED BY <4>4, <4>5, <4>6
    <3>4. QED BY <3>2, <3>3
  <2> HIDE DEF T
  <2>2. \A s \in SUBSET D : s \in T
    BY <2>1, SubsetInduction
  <2>3. QED BY <2>2 DEF T
<1>11. iter[{}] = 0
  BY <1>8
<1>12. QED BY <1>1, <1>9, <1>10, <1>11 DEF Sums

\* What is summed up: a function from a finite set to the natural numbers.
Summable(f) == IsFiniteSet(DOMAIN f) /\ f \in [DOMAIN f -> Nat]

\* Two functions that differ in one argument at most, which the first need not have.
Sets(f, p, f2) == DOMAIN f2 = DOMAIN f \cup {p} /\ \A q \in DOMAIN f \ {p} : f2[q] = f[q]

LEMMA TotalChanges ==
  ASSUME NEW f, NEW p, NEW f2, Summable(f), Summable(f2), Sets(f, p, f2)
  PROVE  /\ Total(f) \in Nat /\ Total(f2) \in Nat
         /\ Total(f2) + (IF p \in DOMAIN f THEN f[p] ELSE 0) = Total(f) + f2[p]
<1>1. PICK g : Sums(f, g) /\ Total(f) = g[DOMAIN f]
  BY TotalSums DEF Summable
<1>2. PICK g2 : Sums(f2, g2) /\ Total(f2) = g2[DOMAIN f2]
  BY TotalSums DEF Summable
<1> DEFINE rest == DOMAIN f \ {p}
<1>3. IsFiniteSet(rest) /\ rest \in SUBSET DOMAIN f /\ rest \in SUBSET DOMAIN f2 /\ DOMAIN f2 \ {p} = rest
  BY FS_Subset DEF Summable, Sets
<1>4. \A s \in SUBSET rest : g[s] = g2[s]
  <2> DEFINE T == {s \in SUBSET rest : g[s] = g2[s]}
  <2>1. ASSUME NEW s \in SUBSET rest, \A q \in s : s \ {q} \in T PROVE s \in T
    <3>1. CASE s = {}
      <4>1. g[s] = 0 /\ g2[s] = 0
        BY <1>1, <1>2, <3>1 DEF Sums
      <4>2. QED BY <4>1
    <3>2. CASE s # {}
      <4>1. PICK q \in s : TRUE
        BY <3>2
      <4>2. s \ {q} \in T /\ f[q] = f2[q]
        BY <2>1, <4>1 DEF Sets
      <4>3. s \in SUBSET DOMAIN f /\ s \in SUBSET DOMAIN f2
        BY <1>3
      <4>4. g[s] = f[q] + g[s \ {q}] /\ g2[s] = f2[q] + g2[s \ {q}]
        BY <1>1, <1>2, <4>1, <4>3 DEF Sums
      <4>5. QED BY <4>2, <4>4
    <3>3. QED BY <3>1, <3>2
  <2> HIDE DEF T
  <2>2. \A s \in SUBSET rest : s \in T
    BY <1>3, <2>1, SubsetInduction
  <2>3. QED BY <2>2 DEF T
<1>5. g2[DOMAIN f2] = f2[p] + g2[rest] /\ f2[p] \in Nat /\ g2[rest] \in Nat
  <2>1. p \in DOMAIN f2 /\ DOMAIN f2 \in SUBSET DOMAIN f2
    BY DEF Sets
  <2>2. g2[DOMAIN f2] = f2[p] + g2[DOMAIN f2 \ {p}]
    BY <1>2, <2>1 DEF Sums
  <2>3. f2[p] \in Nat
    BY <2>1 DEF Summable
  <2>4. g2[rest] \in Nat
    BY <1>2, <1>3 DEF Sums
  <2>5. QED BY <1>3, <2>2, <2>3, <2>4
<1>6. g2[rest] = g[rest]
  BY <1>4
<1>7. CASE p \in DOMAIN f
  <2>1. g[DOMAIN f] = f[p] + g[rest] /\ f[p] \in Nat
    BY <1>1, <1>7 DEF Sums, Summable
  <2> HIDE DEF rest
  <2>2. QED BY <1>1, <1>2, <1>5, <1>6, <1>7, <2>1
<1>8. CASE p \notin DOMAIN f
  <2>1. rest = DOMAIN f
    BY <1>8
  <2> HIDE DEF rest
  <2>2. QED BY <1>1, <1>2, <1>5, <1>6, <1>8, <2>1
<1>9. QED BY <1>7, <1>8

LEMMA TotalOfNothing == ASSUME NEW f, DOMAIN f = {} PROVE f \in [DOMAIN f -> Nat] => Summable(f) /\ Total(f) = 0
<1> SUFFICES ASSUME f \in [DOMAIN f -> Nat] PROVE Summable(f) /\ Total(f) = 0
  OBVIOUS
<1>1. IsFiniteSet(DOMAIN f)
  BY FS_EmptySet
<1>2. PICK g : Sums(f, g) /\ Total(f) = g[DOMAIN f]
  BY <1>1, TotalSums
<1>3. QED BY <1>1, <1>2 DEF Sums, Summable

-----------------------------------------------------------------------------
(* Paths.                                                                   *)

\* What a path is made of.  The provers do not know that a literal is in STRING.
Segments == STRING \cup {"manifest.json", "README.txt"}

\* The paths that lead somewhere under the directory they are taken from.
Inside == {path \in Seq(Segments) : path # <<>> /\ path[1] # ".."}

LEMMA LargestIn ==
  ASSUME NEW n \in Nat, NEW s \in SUBSET (1..n), s # {}
  PROVE  Max(s) \in s
<1> DEFINE I == {n - y : y \in s}
<1>0. \A y \in s : y \in Nat /\ n - y \in Nat
  OBVIOUS
<1>1. I \in SUBSET Nat /\ I # {}
  BY <1>0
<1>2. Min(I) \in I /\ \A y \in I : Min(I) <= y
  <2> HIDE DEF I
  <2> QED BY <1>1, SmallestIn
<1>3. PICK x \in s : Min(I) = n - x
  BY <1>2
<1>4. \A y \in s : n - x <= n - y
  BY <1>2, <1>3
<1>5. \A y \in s : x >= y
  BY <1>4
<1>6. QED BY <1>5 DEF Max

LEMMA CleanInside == ASSUME NEW path \in Seq(Segments), Clean(path) # Unsafe PROVE Clean(path) \in Inside
<1> DEFINE D == DOMAIN path
           A == Seq(Segments)
           Step(done, segment) ==
             CASE segment \in {".", ""} -> done
               [] segment = ".." /\ done # <<>> /\ Last(done) # ".." -> Front(done)
               [] OTHER -> Append(done, segment)
           m == [s \in SUBSET D |-> Max(s)]
           F == [x \in D \X A |-> Step(x[2], path[x[1]])]
           Iter(it) == it = [s \in SUBSET D |-> IF s = {} THEN <<>> ELSE Step(it[s \ {Max(s)}], path[Max(s)])]
           iter == CHOOSE it : Iter(it)
           clean == iter[D]
<1>1. Clean(path) = IF clean = <<>> \/ Head(clean) = ".." \/ Head(path) = "" \/ "odd" \in ToSet(path) THEN Unsafe ELSE clean
  BY DEF Clean, FoldLeft, MapThenFoldSet
<1> HIDE DEF clean
<1>2. Clean(path) = clean /\ clean # <<>> /\ Head(clean) # ".."
  BY <1>1
<1>3. clean \in A
  <2>1. D = 1..Len(path) /\ Len(path) \in Nat /\ IsFiniteSet(D)
    BY FS_Interval
  <2>2. \A s \in SUBSET D : s # {} => m[s] \in s
    BY <2>1, LargestIn
  <2>3. ASSUME NEW done \in A, NEW segment \in Segments PROVE Step(done, segment) \in A
    <3>1. CASE segment \in {".", ""}
      BY <3>1
    <3>2. CASE segment = ".." /\ done # <<>> /\ Last(done) # ".."
      <4>1. Len(done) - 1 \in Nat /\ Len(done) - 1 <= Len(done) /\ done \in Seq(Segments)
        BY <3>2
      <4>2. Front(done) \in Seq(Segments)
        BY <4>1, SubSeqProperties DEF Front
      <4>3. Step(done, segment) = Front(done)
        BY <3>2
      <4>4. QED BY <4>2, <4>3
    <3>3. CASE segment \notin {".", ""} /\ ~(segment = ".." /\ done # <<>> /\ Last(done) # "..")
      <4>1. Step(done, segment) = Append(done, segment)
        BY <3>3
      <4>2. Append(done, segment) \in Seq(Segments)
        BY AppendProperties
      <4>3. QED BY <4>1, <4>2
    <3>4. QED BY <3>1, <3>2, <3>3
  <2>4. \A x \in D, a \in A : F[<<x, a>>] = Step(a, path[x])
    <3> HIDE DEF Step
    <3> QED OBVIOUS
  <2>5. \A x \in D : path[x] \in Segments
    BY <2>1
  <2> HIDE DEF Step, m, F, D, A
  <2>6. Foldable(D, A, <<>>, m, F)
    <3>1. <<>> \in A
      BY DEF A
    <3>2. QED BY <2>1, <2>2, <2>3, <2>4, <2>5, <3>1 DEF Foldable
  <2>7. PICK h \in [SUBSET D -> A] : \A s \in SUBSET D : h[s] = IF s = {} THEN <<>> ELSE F[<<m[s], h[s \ {m[s]}]>>]
    <3>1. Folded(D, A, <<>>, m, F)
      BY <2>6, FoldExists
    <3>2. QED BY <3>1 DEF Folded
  <2>8. Iter(h)
    <3>1. \A s \in SUBSET D : s # {} => h[s] = Step(h[s \ {Max(s)}], path[Max(s)])
      <4> SUFFICES ASSUME NEW s \in SUBSET D, s # {} PROVE h[s] = Step(h[s \ {Max(s)}], path[Max(s)])
        OBVIOUS
      <4>1. m[s] = Max(s) /\ m[s] \in D /\ h[s \ {m[s]}] \in A
        BY <2>2, <2>7 DEF m
      <4>2. QED BY <2>4, <2>7, <4>1
    <3>2. QED BY <2>7, <3>1
  <2>9. Iter(iter)
    <3> HIDE DEF Iter
    <3> QED BY <2>8
  <2>10. \A s \in SUBSET D : iter[s] = IF s = {} THEN <<>> ELSE Step(iter[s \ {Max(s)}], path[Max(s)])
    <3> HIDE DEF iter
    <3> QED BY <2>9
  <2> HIDE DEF iter, Iter
  <2>11. \A s \in SUBSET D : iter[s] \in A
    <3> DEFINE T == {s \in SUBSET D : iter[s] \in A}
    <3>1. ASSUME NEW s \in SUBSET D, \A p \in s : s \ {p} \in T PROVE s \in T
      <4>1. CASE s = {}
        <5>1. iter[s] = <<>>
          BY <2>10, <4>1
        <5>2. <<>> \in A
          BY DEF A
        <5>3. QED BY <5>1, <5>2
      <4>2. CASE s # {}
        <5>1. Max(s) \in s /\ Max(s) \in D /\ s \ {Max(s)} \in T
          BY <2>2, <3>1, <4>2 DEF m
        <5>2. iter[s \ {Max(s)}] \in A /\ path[Max(s)] \in Segments
          BY <2>5, <5>1
        <5>3. iter[s] \in A
          BY <2>3, <2>10, <4>2, <5>2
        <5>4. QED BY <5>3
      <4>3. QED BY <4>1, <4>2
    <3> HIDE DEF T
    <3>2. \A s \in SUBSET D : s \in T
      BY <2>1, <3>1, SubsetInduction
    <3>3. QED BY <3>2 DEF T
  <2>12. QED BY <2>11 DEF clean
<1>4. clean[1] # ".."
  BY <1>2, <1>3
<1>5. QED BY <1>2, <1>3, <1>4 DEF Inside

\* A path stands in its chain, and the directories above it are inside as it is.
LEMMA ChainInside == ASSUME NEW path \in Inside PROVE path \in Chain(path) /\ Chain(path) \subseteq Inside
<1>1. path \in Seq(Segments) /\ path # <<>> /\ path[1] # ".." /\ Len(path) \in Nat
  BY DEF Inside
<1>2. path \in Chain(path)
  <2>1. SubSeq(path, 1, Len(path)) = path
    BY <1>1, SubSeqFull
  <2>2. \E l \in 0..Len(path) : path = SubSeq(path, 1, l)
    <3> Len(path) \in 0..Len(path)
      BY <1>1
    <3> WITNESS Len(path) \in 0..Len(path)
    <3> QED BY <2>1
  <2>3. path \in Prefixes(path)
    BY <2>2 DEF Prefixes
  <2>4. QED BY <1>1, <2>3 DEF Chain
<1>3. ASSUME NEW prefix \in Chain(path) PROVE prefix \in Inside
  <2>1. PICK l \in 0..Len(path) : prefix = SubSeq(path, 1, l)
    BY DEF Chain, Prefixes
  <2>2. \A i \in 1..l : path[i] \in Segments
    BY <1>1
  <2>3. prefix \in Seq(Segments) /\ Len(prefix) = IF 1 <= l THEN l ELSE 0
    BY <1>1, <2>1, <2>2, SubSeqProperties
  <2>4. \A i \in 1..l : prefix[i] = path[i]
    BY <1>1, <2>1, <2>2, SubSeqProperties
  <2>5. prefix # <<>>
    BY DEF Chain
  <2>6. 1 \in 1..l
    BY <2>3, <2>5
  <2>7. prefix[1] = path[1]
    BY <2>4, <2>6
  <2>8. QED BY <1>1, <2>3, <2>5, <2>7 DEF Inside
<1>4. QED BY <1>2, <1>3

-----------------------------------------------------------------------------
(* The bundle of a skill that is installed.                                 *)

LEMMA SmallestIs == ASSUME NEW I \in SUBSET Nat, NEW k \in I, \A y \in I : k <= y PROVE Min(I) = k
<1>1. Min(I) \in I /\ Min(I) <= k
  BY SmallestIn
<1>2. k <= Min(I)
  BY <1>1
<1>3. k \in Nat /\ Min(I) \in Nat
  BY <1>1
<1>4. QED BY <1>1, <1>2, <1>3

\* What a manifest may hold and an install accepts, `registry status' calls runnable.
LEMMA AcceptedRunnable ==
  ASSUME NEW skill, NEW bundle, skill.stub \in BOOLEAN, BundleValid(skill, bundle)
  PROVE  Runnable(skill, bundle) <=> ~skill.stub
<1> DEFINE faults == << <<"stub",               skill.stub>>,
                        <<"builtin",            skill.builtin # "none">>,
                        <<"missing_url",        bundle.url = NoUrl>>,
                        <<"invalid_url",        ~BundleUrlValid(bundle.url)>>,
                        <<"missing_sha256",     bundle.sha256 # "ok">>,
                        <<"invalid_archive",    ~ArchiveValid(bundle)>>,
                        <<"missing_entrypoint", bundle.entrypoint = <<>> >>,
                        <<"invalid_entrypoint", Clean(bundle.entrypoint) = Unsafe>>,
                        <<"complete",           TRUE>> >>
           I == {i \in 1..Len(faults) : faults[i][2]}
<1>1. BundleReason(skill, bundle) = faults[IF I # {} THEN Min(I) ELSE 0][1]
  BY DEF BundleReason, SelectInSeq
<1>2. Len(faults) = 9
  OBVIOUS
<1>0. \A i \in 1..9 : i \in I <=> faults[i][2]
  BY <1>2
<1>3. (faults[1][2] <=> skill.stub) /\ (faults[2][2] <=> skill.builtin # "none") /\ faults[9][2]
  OBVIOUS
<1>4. /\ faults[3][2] <=> bundle.url = NoUrl
      /\ faults[4][2] <=> ~BundleUrlValid(bundle.url)
      /\ faults[5][2] <=> bundle.sha256 # "ok"
      /\ faults[6][2] <=> ~ArchiveValid(bundle)
      /\ faults[7][2] <=> bundle.entrypoint = <<>>
      /\ faults[8][2] <=> Clean(bundle.entrypoint) = Unsafe
  OBVIOUS
<1>5. faults[1][1] = "stub" /\ faults[2][1] = "builtin" /\ faults[9][1] = "complete"
  OBVIOUS
<1>6. I \in SUBSET (1..9)
  OBVIOUS
<1> HIDE DEF I, faults
<1>7. CASE skill.stub
  <2>1. Min(I) = 1
    <3>1. 1 \in I /\ I \in SUBSET Nat /\ \A y \in I : 1 <= y
      BY <1>0, <1>3, <1>6, <1>7
    <3>2. QED BY <3>1, SmallestIs
  <2>2. BundleReason(skill, bundle) = "stub"
    BY <1>0, <1>1, <1>3, <1>5, <2>1
  <2>3. QED BY <1>7, <2>2 DEF Runnable
<1>8. CASE ~skill.stub /\ skill.builtin # "none"
  <2>1. Min(I) = 2
    <3>1. 2 \in I /\ I \in SUBSET Nat /\ \A y \in I : 2 <= y
      BY <1>0, <1>3, <1>6, <1>8
    <3>2. QED BY <3>1, SmallestIs
  <2>2. BundleReason(skill, bundle) = "builtin"
    BY <1>0, <1>1, <1>3, <1>5, <2>1
  <2>3. QED BY <1>8, <2>2 DEF Runnable
<1>9. CASE ~skill.stub /\ skill.builtin = "none"
  <2>1. /\ bundle.url # NoUrl /\ BundleUrlValid(bundle.url) /\ bundle.sha256 = "ok" /\ ArchiveValid(bundle)
        /\ bundle.entrypoint # <<>> /\ Clean(bundle.entrypoint) # Unsafe
    BY <1>9 DEF BundleValid
  <2>2. Min(I) = 9
    <3>1. 9 \in I /\ I \in SUBSET Nat /\ \A y \in I : 9 <= y
      BY <1>0, <1>3, <1>4, <1>6, <1>9, <2>1
    <3>2. QED BY <3>1, SmallestIs
  <2>3. BundleReason(skill, bundle) = "complete"
    BY <1>0, <1>1, <1>3, <1>5, <2>2
  <2>4. QED BY <1>9, <2>3 DEF Runnable
<1>10. QED BY <1>7, <1>8, <1>9

-----------------------------------------------------------------------------
(* The install of a package (PackageInstall).                               *)

\* One step of an install.
PackageNext == (\E skill \in Skills : Begin(skill)) \/ PackageStep \/ Report

LEMMA PackageBeneath == [Next]_vars => [PackageNext]_pkgVars
BY Zenon DEF Next, vars, frontVars, workVars, PackageNext, Main, CallTool, Path, About, Command, AnyMessage, ToolMessage, Message, Settle,
  HttpRequest, Prompt, Listen, StartMcp, SessionEnds, Shutdown, ServiceChanges, ServiceReturns, RunRefuses, RunStarts,
  Running, RunReturns, OcrRunStarts, OcrRunning, OtherProcesses, OcrRunReturns, InstallStarts, InstallGoesOn,
  InstallReturns, Done

InstallStages == {"none", "fetching", "extracting", "writing", "renaming", "installed", "failed", "cleaned"}

\* The temporary directory and what is reserved for it: files and directories are apart,
\* all inside, and no more than was reserved.
TreeInv ==
  /\ tree = [files |-> tree.files, dirs |-> tree.dirs]
  /\ Summable(tree.files)
  /\ DOMAIN tree.files \cup tree.dirs \subseteq Inside /\ DOMAIN tree.files \cap tree.dirs = {}
  /\ budget \in [files : 0..MaxFiles, bytes : 0..MaxBytes]
  /\ Cardinality(DOMAIN tree.files \ Own) <= budget.files
  /\ Total(tree.files) <= budget.bytes \/ pkg.wide

\* While the entries go well, everything read is there, and accounted for to the byte.
EntriesThere ==
  /\ seen \subseteq DOMAIN tree.files \cup tree.dirs
  /\ DOMAIN tree.files \subseteq seen
  /\ Total(tree.files) = budget.bytes

\* The skill and the bundle of the install were accepted.
BundleAccepted ==
  /\ pkg.skill \in Skills /\ pkg.bundle \in pkg.skill.bundles
  /\ pkg.bundle.platform = Here /\ BundleValid(pkg.skill, pkg.bundle)

PackageInv ==
  /\ pkg = [stage |-> pkg.stage, skill |-> pkg.skill, bundle |-> pkg.bundle, read |-> pkg.read, wide |-> pkg.wide]
  /\ pkg.stage \in InstallStages /\ pkg.wide \in BOOLEAN
  /\ TreeInv
  /\ pkg.stage \in {"none", "fetching", "extracting", "writing"} => EntriesThere
  /\ pkg.stage \in {"fetching", "extracting", "writing", "renaming", "installed"} => BundleAccepted
  /\ pkg.stage \in {"writing", "renaming", "installed"} /\ Packaged(pkg.skill) =>
       Clean(pkg.bundle.entrypoint) \in DOMAIN tree.files
  /\ pkg.stage \in {"renaming", "installed"} =>
       /\ Own \subseteq DOMAIN tree.files /\ seen \subseteq DOMAIN tree.files \cup tree.dirs
       /\ seen \cap Own = {} => Total(tree.files) = budget.bytes

LEMMA NothingThere == tree = EmptyTree /\ budget = NothingReserved /\ seen = {} => TreeInv /\ EntriesThere
<1> SUFFICES ASSUME tree = EmptyTree, budget = NothingReserved, seen = {} PROVE TreeInv /\ EntriesThere
  OBVIOUS
<1>1. DOMAIN tree.files = {} /\ tree.files \in [DOMAIN tree.files -> Nat] /\ tree.dirs = {}
  BY DEF EmptyTree
<1>2. Summable(tree.files) /\ Total(tree.files) = 0
  BY <1>1, TotalOfNothing
<1>3. Cardinality(DOMAIN tree.files \ Own) = 0
  BY <1>1, FS_EmptySet
<1>4. tree = [files |-> tree.files, dirs |-> tree.dirs]
  BY DEF EmptyTree
<1>5. budget \in [files : 0..MaxFiles, bytes : 0..MaxBytes] /\ budget.files = 0 /\ budget.bytes = 0
  BY PackageAssumption DEF NothingReserved
<1>6. QED BY <1>1, <1>2, <1>3, <1>4, <1>5 DEF TreeInv, EntriesThere

LEMMA PackageInvStart == PackageInit => PackageInv
<1> SUFFICES ASSUME PackageInit PROVE PackageInv
  OBVIOUS
<1>1. TreeInv /\ EntriesThere
  BY NothingThere DEF PackageInit
<1>2. QED BY <1>1 DEF PackageInit, PackageInv, NoInstall, InstallStages

\* A step that leaves the directory as it is.
LEMMA TreeKept ==
  ASSUME TreeInv, UNCHANGED <<tree, budget, seen>>, pkg.wide => pkg'.wide
  PROVE  TreeInv' /\ (EntriesThere <=> EntriesThere')
BY DEF TreeInv, EntriesThere

LEMMA BeginStep == ASSUME PackageInv, NEW skill \in Skills, Begin(skill) PROVE PackageInv'
<1>1. pkg.stage = "none" /\ UNCHANGED <<tree, budget, seen>>
  BY DEF Begin
<1>2. CASE pkg' = [pkg EXCEPT !.stage = "failed"]
  <2>1. TreeInv'
    BY <1>1, <1>2, TreeKept DEF PackageInv
  <2>2. QED BY <1>2, <2>1 DEF PackageInv, InstallStages
<1>3. CASE pkg' # [pkg EXCEPT !.stage = "failed"]
  <2>1. PICK bundle \in skill.bundles :
          /\ bundle.platform = Here /\ BundleValid(skill, bundle)
          /\ pkg' = [NoInstall EXCEPT !.stage = IF Packaged(skill) THEN "fetching" ELSE "writing",
                                      !.skill = skill, !.bundle = bundle]
    BY <1>3 DEF Begin, GoTo
  <2>2. pkg' = [stage |-> IF Packaged(skill) THEN "fetching" ELSE "writing", skill |-> skill, bundle |-> bundle,
                read |-> 0, wide |-> FALSE]
    BY <2>1 DEF NoInstall
  <2>3. EntriesThere' /\ Summable(tree.files) /\ Total(tree.files) <= budget.bytes
    <3>1. EntriesThere /\ Summable(tree.files)
      BY <1>1 DEF PackageInv, TreeInv
    <3>2. EntriesThere'
      BY <1>1, <3>1 DEF EntriesThere
    <3>3. Total(tree.files) = budget.bytes /\ budget.bytes \in Nat
      BY <3>1, PackageAssumption DEF EntriesThere, PackageInv, TreeInv
    <3>4. QED BY <3>1, <3>2, <3>3
  <2>4. TreeInv'
    BY <1>1, <2>3 DEF PackageInv, TreeInv
  <2>5. BundleAccepted'
    BY <2>1, <2>2 DEF BundleAccepted
  <2>6. QED BY <2>2, <2>3, <2>4, <2>5 DEF PackageInv, InstallStages
<1>4. QED BY <1>2, <1>3

LEMMA QuietSteps ==
  ASSUME PackageInv, (\E got \in BOOLEAN : Fetch(got)) \/ (\E damaged \in BOOLEAN : EndOfArchive(damaged))
                     \/ (\E done \in BOOLEAN : Rename(done))
  PROVE  PackageInv'
<1>1. UNCHANGED <<tree, budget, seen>> /\ pkg'.wide = pkg.wide /\ pkg'.skill = pkg.skill /\ pkg'.bundle = pkg.bundle
      /\ pkg' = [stage |-> pkg'.stage, skill |-> pkg.skill, bundle |-> pkg.bundle, read |-> pkg.read, wide |-> pkg.wide]
  BY DEF Fetch, EndOfArchive, Rename, GoTo, PackageInv
<1>2. TreeInv' /\ (EntriesThere <=> EntriesThere')
  BY <1>1, TreeKept DEF PackageInv
<1>3. BundleAccepted <=> BundleAccepted'
  BY <1>1 DEF BundleAccepted
<1>4. CASE pkg'.stage = "failed"
  BY <1>1, <1>2, <1>4 DEF PackageInv, InstallStages
<1>5. CASE pkg.stage = "fetching" /\ pkg'.stage = "extracting"
  BY <1>1, <1>2, <1>3, <1>5 DEF PackageInv, InstallStages
<1>6. CASE pkg.stage = "extracting" /\ pkg'.stage = "writing" /\ EntrypointFound
  <2>1. Clean(pkg'.bundle.entrypoint) \in DOMAIN tree'.files
    BY <1>1, <1>6 DEF EntrypointFound
  <2>2. QED BY <1>1, <1>2, <1>3, <1>6, <2>1 DEF PackageInv, InstallStages
<1>7. CASE pkg.stage = "renaming" /\ pkg'.stage = "installed"
  <2>1. (Packaged(pkg.skill) => Clean(pkg.bundle.entrypoint) \in DOMAIN tree.files)'
    BY <1>1, <1>7 DEF PackageInv, Packaged
  <2>2. QED BY <1>1, <1>2, <1>3, <1>7, <2>1 DEF PackageInv, InstallStages
<1>8. QED BY <1>1, <1>4, <1>5, <1>6, <1>7 DEF Fetch, EndOfArchive, Rename, GoTo

\* After an entry the install goes on, or has failed.
LEMMA GoesOn ==
  ASSUME PackageInv, pkg.stage = "extracting", NEW e \in Entries, NEW ok, Goes(ok, e),
         TreeInv', ok => EntriesThere'
  PROVE  PackageInv'
<1>1. (Size(e) < 0) \in BOOLEAN
  OBVIOUS
<1>2. /\ pkg'.stage = IF ok THEN "extracting" ELSE "failed"
      /\ pkg'.skill = pkg.skill /\ pkg'.bundle = pkg.bundle /\ pkg'.wide \in BOOLEAN
      /\ pkg' = [stage |-> pkg'.stage, skill |-> pkg'.skill, bundle |-> pkg'.bundle, read |-> pkg'.read, wide |-> pkg'.wide]
  BY <1>1 DEF Goes, PackageInv
<1>3. BundleAccepted'
  BY <1>2 DEF PackageInv, BundleAccepted
<1>4. QED BY <1>2, <1>3 DEF PackageInv, InstallStages

LEMMA RefusedStep == ASSUME PackageInv, pkg.stage = "extracting", NEW e \in Entries, EntryRefused(e) PROVE PackageInv'
<1>1. pkg.wide => pkg'.wide
  BY DEF EntryRefused, Goes, PackageInv
<1>2. TreeInv'
  BY <1>1, TreeKept DEF EntryRefused, PackageInv
<1>3. QED BY <1>2, GoesOn DEF EntryRefused

LEMMA DirectoryStep ==
  ASSUME PackageInv, pkg.stage = "extracting", NEW e \in Entries, NEW path \in Inside, Directory(e, path),
         seen' = seen \cup {path}
  PROVE  PackageInv'
<1>1. TreeInv /\ EntriesThere
  BY DEF PackageInv
<1>2. path \in Chain(path) /\ Chain(path) \subseteq Inside
  BY ChainInside
<1>3. budget' = budget /\ CanMakeDirs(path) \in BOOLEAN /\ Goes(CanMakeDirs(path), e)
  BY DEF Directory, CanMakeDirs
<1>4. pkg.wide => pkg'.wide
  BY <1>3 DEF Goes, PackageInv
<1>5. CASE CanMakeDirs(path)
  <2>1. tree' = [files |-> tree.files, dirs |-> tree.dirs \cup Chain(path)]
    BY <1>1, <1>5 DEF Directory, TreeInv
  <2>2. Chain(path) \cap DOMAIN tree.files = {}
    BY <1>5 DEF CanMakeDirs
  <2>3. TreeInv'
    BY <1>1, <1>2, <1>3, <1>4, <2>1, <2>2 DEF TreeInv
  <2>4. EntriesThere'
    BY <1>1, <1>2, <1>3, <2>1 DEF EntriesThere
  <2>5. QED BY <1>3, <2>3, <2>4, GoesOn
<1>6. CASE ~CanMakeDirs(path)
  <2>1. tree' = tree
    BY <1>6 DEF Directory
  <2>2. TreeInv'
    BY <1>1, <1>3, <1>4, <2>1 DEF TreeInv
  <2>3. QED BY <1>3, <1>6, <2>2, GoesOn
<1>7. QED BY <1>5, <1>6

LEMMA FileStep ==
  ASSUME PackageInv, pkg.stage = "extracting", NEW e \in Entries, NEW path \in Inside, File(e, path),
         seen' = seen \cup {path}
  PROVE  PackageInv'
<1> DEFINE parents == Chain(path) \ {path}
           made == [tree EXCEPT !.dirs = @ \cup parents]
           free == path \notin DOMAIN tree.files \cup tree.dirs
<1>1. TreeInv /\ EntriesThere
  BY DEF PackageInv
<1>2. path \in Chain(path) /\ Chain(path) \subseteq Inside
  BY ChainInside
<1>3. PICK ok : Goes(ok, e) /\ (ok => free /\ Copied(e).whole /\ Reservable(Size(e)) /\ parents \cap DOMAIN tree.files = {})
  <2>1. CASE Reservable(Size(e)) /\ parents \cap DOMAIN tree.files = {}
    <3>1. Goes(free /\ Copied(e).whole, e)
      BY <2>1 DEF File
    <3> HIDE DEF free, parents
    <3> WITNESS free /\ Copied(e).whole
    <3>2. QED BY Zenon, <2>1, <3>1
  <2>2. CASE ~(Reservable(Size(e)) /\ parents \cap DOMAIN tree.files = {})
    <3>1. Goes(FALSE, e)
      BY <2>2 DEF File
    <3> WITNESS FALSE
    <3>2. QED BY Zenon, <3>1
  <2>3. QED BY Zenon, <2>1, <2>2
<1>4. (pkg.wide => pkg'.wide) /\ (Size(e) < 0 => pkg'.wide)
  BY <1>3 DEF Goes, PackageInv
<1>5. made = [files |-> tree.files, dirs |-> tree.dirs \cup parents] /\ made.files = tree.files
  BY <1>1 DEF TreeInv
<1>6. CASE parents \cap DOMAIN tree.files # {}
  <2>1. tree' = tree /\ budget' = budget
    BY <1>6 DEF File
  <2>2. TreeInv'
    BY <1>1, <1>4, <2>1 DEF TreeInv
  <2>3. QED BY <1>3, <1>6, <2>2, GoesOn
<1>7. CASE parents \cap DOMAIN tree.files = {} /\ ~Reservable(Size(e))
  <2>1. tree' = made /\ budget' = budget
    BY <1>7 DEF File
  <2>2. TreeInv'
    BY <1>1, <1>2, <1>4, <1>5, <1>7, <2>1 DEF TreeInv
  <2>3. QED BY <1>3, <1>7, <2>2, GoesOn
<1>8. CASE parents \cap DOMAIN tree.files = {} /\ Reservable(Size(e))
  <2>1. Reserve(Size(e)) /\ tree' = IF free THEN [made EXCEPT !.files = Put({path}, Copied(e).bytes)] ELSE made
    BY <1>8 DEF File
  <2>2. Size(e) \in Int /\ e.data \in Nat
    BY PackageAssumption DEF Size
  <2>3. budget.files \in 0..MaxFiles /\ budget.bytes \in 0..MaxBytes /\ MaxFiles \in Nat /\ MaxBytes \in Nat
    BY <1>1, PackageAssumption DEF TreeInv
  <2>4. PICK size \in Nat : size = IF Size(e) > 0 THEN Size(e) ELSE 0
    BY <2>2
  <2>5. budget' = [files |-> budget.files + 1, bytes |-> budget.bytes + size] /\ size <= MaxBytes - budget.bytes
    BY <1>8, <2>1, <2>2, <2>3, <2>4 DEF Reserve, Reservable
  <2>6. budget' \in [files : 0..MaxFiles, bytes : 0..MaxBytes] /\ budget'.files = budget.files + 1 /\ budget'.bytes = budget.bytes + size
    BY <1>8, <2>3, <2>5 DEF Reservable
  <2>7. Summable(tree.files) /\ Total(tree.files) = budget.bytes
    BY <1>1 DEF TreeInv, EntriesThere
  <2>8. IsFiniteSet(DOMAIN tree.files \ Own) /\ Cardinality(DOMAIN tree.files \ Own) \in Nat
        /\ Cardinality(DOMAIN tree.files \ Own) <= budget.files
    BY <1>1, <2>7, FS_Subset, FS_CardinalityType DEF Summable, TreeInv
  <2>9. CASE ~free
    <3>1. tree' = made
      BY <2>1, <2>9
    <3>2. Cardinality(DOMAIN tree'.files \ Own) <= budget'.files /\ Total(tree'.files) <= budget'.bytes
      BY <1>5, <2>3, <2>4, <2>6, <2>7, <2>8, <3>1
    <3>3. TreeInv'
      BY <1>1, <1>2, <1>5, <1>8, <2>6, <3>1, <3>2 DEF TreeInv
    <3>4. QED BY <1>3, <2>9, <3>3, GoesOn
  <2>10. CASE free
    <3>1. PICK bytes \in Nat : bytes = Copied(e).bytes
      BY <2>2 DEF Copied
    <3>2. (Size(e) >= 0 => bytes <= size) /\ (Copied(e).whole => Size(e) >= 0 /\ bytes = size)
      <4>1. CASE Size(e) >= 0
        <5>1. Copied(e) = [bytes |-> IF e.data < Size(e) THEN e.data ELSE Size(e), whole |-> e.data >= Size(e)]
          BY Zenon, <4>1 DEF Copied
        <5>2. Copied(e).whole <=> e.data >= Size(e)
          <6>1. PICK copied : copied = Copied(e)
            OBVIOUS
          <6>2. copied.whole = (e.data >= Size(e))
            BY <2>2, <5>1, <6>1
          <6>3. QED BY <6>1, <6>2
        <5>3. Copied(e).bytes = IF e.data < Size(e) THEN e.data ELSE Size(e)
          BY <5>1
        <5>4. size = Size(e)
          BY <2>2, <2>4, <4>1
        <5>5. QED BY <2>2, <3>1, <4>1, <5>2, <5>3, <5>4
      <4>2. CASE ~(Size(e) >= 0)
        <5>1. Copied(e) = [bytes |-> e.data, whole |-> FALSE]
          BY Zenon, <4>2 DEF Copied
        <5>2. ~Copied(e).whole
          BY <5>1
        <5>3. QED BY <4>2, <5>2
      <4>3. QED BY <4>1, <4>2
    <3>3. PICK files : files = Put({path}, bytes)
      OBVIOUS
    <3>4. tree' = [files |-> files, dirs |-> tree.dirs \cup parents]
      BY <1>5, <2>1, <2>10, <3>1, <3>3
    <3>5. DOMAIN files = DOMAIN tree.files \cup {path} /\ files[path] = bytes
          /\ Sets(tree.files, path, files)
      BY <3>3 DEF Put, Sets
    <3>6. Summable(files)
      <4>1. IsFiniteSet(DOMAIN files)
        BY <2>7, <3>5, FS_AddElement DEF Summable
      <4>2. files \in [DOMAIN files -> Nat]
        BY <2>7, <3>1, <3>3 DEF Put, Summable
      <4>3. QED BY <4>1, <4>2 DEF Summable
    <3>7. Total(files) = budget.bytes + bytes
      <4>1. Total(tree.files) \in Nat /\ Total(files) \in Nat
            /\ Total(files) + (IF path \in DOMAIN tree.files THEN tree.files[path] ELSE 0) = Total(tree.files) + files[path]
        BY <2>7, <3>5, <3>6, TotalChanges
      <4>2. QED BY <2>7, <2>10, <3>5, <4>1
    <3>8. Cardinality(DOMAIN files \ Own) <= budget.files + 1
      <4>1. PICK S : S = DOMAIN tree.files \ Own
        OBVIOUS
      <4>2. IsFiniteSet(S \cup {path}) /\ Cardinality(S \cup {path}) \in {Cardinality(S), Cardinality(S) + 1}
        BY <2>8, <4>1, FS_AddElement
      <4>3. DOMAIN files \ Own \subseteq S \cup {path}
        BY <3>5, <4>1
      <4>4. Cardinality(DOMAIN files \ Own) \in Nat /\ Cardinality(DOMAIN files \ Own) <= Cardinality(S \cup {path})
        BY <4>2, <4>3, FS_Subset, FS_CardinalityType
      <4>5. QED BY <2>3, <2>8, <4>1, <4>2, <4>4
    <3>9. Total(files) <= budget'.bytes \/ pkg'.wide
      BY <1>4, <2>2, <2>3, <2>4, <2>6, <3>1, <3>2, <3>7
    <3>10. TreeInv'
      <4>1. DOMAIN files \cup (tree.dirs \cup parents) \subseteq Inside /\ DOMAIN files \cap (tree.dirs \cup parents) = {}
        BY <1>1, <1>2, <1>8, <2>10, <3>5 DEF TreeInv
      <4>2. QED BY <2>6, <3>4, <3>6, <3>8, <3>9, <4>1 DEF TreeInv
    <3>11. ok => EntriesThere'
      BY <1>1, <1>3, <2>6, <3>2, <3>4, <3>5, <3>7 DEF EntriesThere
    <3>12. QED BY <1>3, <3>10, <3>11, GoesOn
  <2>11. QED BY <2>9, <2>10
<1>9. QED BY <1>6, <1>7, <1>8

LEMMA EntryStep == ASSUME PackageInv, NEW e \in Entries, Entry(e) PROVE PackageInv'
<1>1. CASE EntryRefused(e)
  BY <1>1, RefusedStep DEF Entry
<1>2. CASE ~EntryRefused(e)
  <2>1. Clean(e.path) # Unsafe /\ seen' = seen \cup {Clean(e.path)}
        /\ (Directory(e, Clean(e.path)) \/ File(e, Clean(e.path)))
    BY <1>2 DEF Entry
  <2>2. PICK path \in Inside : path = Clean(e.path)
    <3>1. e.path \in Seq(STRING)
      BY PackageAssumption
    <3>2. e.path \in Seq(Segments)
      BY <3>1 DEF Segments
    <3>3. QED BY <2>1, <3>2, CleanInside
  <2>3. pkg.stage = "extracting"
    BY DEF Entry
  <2>4. QED BY <2>1, <2>2, <2>3, DirectoryStep, FileStep
<1>3. QED BY <1>1, <1>2

\* agtx's own two files are written over what the package brought, if it did.
LEMMA ManifestStep == ASSUME PackageInv, WriteManifest PROVE PackageInv'
<1>1. TreeInv /\ EntriesThere /\ BundleAccepted /\ pkg.stage = "writing" /\ budget' = budget /\ seen' = seen
  BY DEF PackageInv, WriteManifest
<1>2. pkg' = [stage |-> pkg'.stage, skill |-> pkg.skill, bundle |-> pkg.bundle, read |-> pkg.read, wide |-> pkg.wide]
      /\ pkg'.skill = pkg.skill /\ pkg'.bundle = pkg.bundle /\ pkg'.wide = pkg.wide
  BY DEF PackageInv, WriteManifest, GoTo
<1>3. CASE Own \cap tree.dirs # {}
  <2>1. tree' = tree /\ pkg'.stage = "failed"
    BY <1>3 DEF WriteManifest, GoTo, PackageInv
  <2>2. TreeInv'
    BY <1>1, <1>2, <2>1, TreeKept
  <2>3. QED BY <1>2, <2>1, <2>2 DEF PackageInv, InstallStages
<1>4. CASE Own \cap tree.dirs = {}
  <2>1. pkg'.stage = "renaming" /\ tree' = [tree EXCEPT !.files = Put(Own, 0)]
    BY <1>4 DEF WriteManifest, GoTo, PackageInv
  <2>2. PICK files : files = Put(Own, 0)
    OBVIOUS
  <2>3. tree' = [files |-> files, dirs |-> tree.dirs]
    BY <1>1, <2>1, <2>2 DEF TreeInv
  <2>4. PICK a, b : Own = {a, b} /\ a # b /\ a \in Inside /\ b \in Inside
    <3>1. <<"manifest.json">> \in Inside /\ <<"README.txt">> \in Inside /\ <<"manifest.json">> # <<"README.txt">>
      <4>1. /\ \A name \in Segments : <<name>> \in Seq(Segments)
            /\ \A name \in Segments : <<name>> # <<>>
            /\ \A name \in Segments : <<name>>[1] = name
        OBVIOUS
      <4>2. "manifest.json" # ".." /\ "README.txt" # ".." /\ "manifest.json" # "README.txt"
        OBVIOUS
      <4>3. \A name \in Segments : name # ".." => <<name>> \in Inside
        BY <4>1 DEF Inside
      <4>4. <<"manifest.json">> # <<"README.txt">>
        OBVIOUS
      <4>5. "manifest.json" \in Segments /\ "README.txt" \in Segments
        BY DEF Segments
      <4>6. QED BY Zenon, <4>2, <4>3, <4>4, <4>5
    <3> WITNESS <<"manifest.json">>, <<"README.txt">>
    <3>2. QED BY Zenon, <3>1 DEF Own
  <2>5. DOMAIN files = DOMAIN tree.files \cup {a, b} /\ DOMAIN files \ Own = DOMAIN tree.files \ Own
    BY <2>2, <2>4 DEF Put
  <2>6. PICK first : first = [p \in DOMAIN tree.files \cup {a} |-> IF p = a THEN 0 ELSE tree.files[p]]
    OBVIOUS
  <2>7. Summable(tree.files) /\ Total(tree.files) = budget.bytes /\ budget.bytes \in Nat
    BY <1>1, PackageAssumption DEF TreeInv, EntriesThere
  <2>8. Summable(first) /\ Sets(tree.files, a, first) /\ first[a] = 0 /\ DOMAIN first = DOMAIN tree.files \cup {a}
    <3>1. IsFiniteSet(DOMAIN tree.files \cup {a})
      BY <2>7, FS_AddElement DEF Summable
    <3>2. QED BY <2>6, <2>7, <3>1 DEF Summable, Sets
  <2>9. Summable(files) /\ Sets(first, b, files) /\ files[b] = 0
    <3>1. IsFiniteSet(DOMAIN first \cup {b}) /\ DOMAIN files = DOMAIN first \cup {b}
      BY <2>5, <2>8, FS_AddElement DEF Summable
    <3>2. \A p \in DOMAIN files : files[p] = IF p \in {a, b} THEN 0 ELSE tree.files[p]
      BY <2>2, <2>4 DEF Put
    <3>3. files \in [DOMAIN files -> Nat]
      BY <2>2, <2>4, <2>7 DEF Put, Summable
    <3>4. QED BY <2>6, <2>8, <3>1, <3>2, <3>3 DEF Summable, Sets
  <2>10. Total(files) <= budget.bytes /\ (a \notin DOMAIN tree.files /\ b \notin DOMAIN tree.files => Total(files) = budget.bytes)
    <3>1. /\ Total(first) \in Nat
          /\ Total(first) + (IF a \in DOMAIN tree.files THEN tree.files[a] ELSE 0) = budget.bytes + 0
      BY <2>7, <2>8, TotalChanges
    <3>2. /\ Total(files) \in Nat
          /\ Total(files) + (IF b \in DOMAIN first THEN first[b] ELSE 0) = Total(first) + 0
      BY <2>8, <2>9, TotalChanges
    <3>3. (a \in DOMAIN tree.files => tree.files[a] \in Nat) /\ (b \in DOMAIN first => first[b] \in Nat)
      BY <2>7, <2>8 DEF Summable
    <3>4. b \in DOMAIN first <=> b \in DOMAIN tree.files
      BY <2>4, <2>8
    <3>5. QED BY <2>7, <3>1, <3>2, <3>3, <3>4
  <2>11. TreeInv'
    <3>1. DOMAIN files \cup tree.dirs \subseteq Inside /\ DOMAIN files \cap tree.dirs = {}
      BY <1>1, <1>4, <2>4, <2>5 DEF TreeInv
    <3>2. Cardinality(DOMAIN files \ Own) <= budget'.files /\ budget' \in [files : 0..MaxFiles, bytes : 0..MaxBytes]
      BY <1>1, <2>5 DEF TreeInv
    <3>3. QED BY <1>1, <2>3, <2>9, <2>10, <3>1, <3>2 DEF TreeInv
  <2>12. (seen \cap Own = {} => Total(tree.files) = budget.bytes)'
    BY <1>1, <2>3, <2>4, <2>10 DEF EntriesThere
  <2>13. (Own \subseteq DOMAIN tree.files /\ seen \subseteq DOMAIN tree.files \cup tree.dirs)'
    BY <1>1, <2>3, <2>4, <2>5 DEF EntriesThere
  <2>14. (Packaged(pkg.skill) => Clean(pkg.bundle.entrypoint) \in DOMAIN tree.files)'
    BY <1>1, <1>2, <2>3, <2>5 DEF PackageInv, Packaged
  <2>15. BundleAccepted'
    BY <1>1, <1>2 DEF BundleAccepted
  <2>16. QED BY <1>2, <2>1, <2>11, <2>12, <2>13, <2>14, <2>15 DEF PackageInv, InstallStages
<1>5. QED BY <1>3, <1>4

LEMMA PackageInvStep == PackageInv /\ [PackageNext]_pkgVars => PackageInv'
<1> SUFFICES ASSUME PackageInv, [PackageNext]_pkgVars PROVE PackageInv'
  OBVIOUS
<1>1. CASE \E skill \in Skills : Begin(skill)
  BY <1>1, BeginStep
<1>2. CASE (\E got \in BOOLEAN : Fetch(got)) \/ (\E damaged \in BOOLEAN : EndOfArchive(damaged))
           \/ (\E done \in BOOLEAN : Rename(done))
  BY <1>2, QuietSteps
<1>3. CASE \E e \in Entries : Entry(e)
  BY <1>3, EntryStep
<1>4. CASE WriteManifest
  BY <1>4, ManifestStep
<1>5. CASE CleanUp \/ Report
  <2>1. (tree = EmptyTree /\ budget = NothingReserved /\ seen = {})'
    BY <1>5 DEF CleanUp, Report, EmptyTree, NothingReserved
  <2>2. (TreeInv /\ EntriesThere)'
    <3>1. (tree = EmptyTree /\ budget = NothingReserved /\ seen = {} => TreeInv /\ EntriesThere)'
      BY NothingThere, PTL
    <3>2. QED BY <2>1, <3>1
  <2>3. pkg' = [stage |-> pkg'.stage, skill |-> NoSkill, bundle |-> NoUrl, read |-> 0, wide |-> FALSE]
        /\ pkg'.stage \in {"none", "cleaned"} /\ pkg'.wide = FALSE
    BY <1>5 DEF CleanUp, Report, NoInstall
  <2>4. QED BY <2>2, <2>3 DEF PackageInv, InstallStages
<1>6. CASE UNCHANGED pkgVars
  BY <1>6 DEF PackageInv, TreeInv, EntriesThere, BundleAccepted, pkgVars
<1>7. QED BY <1>1, <1>2, <1>3, <1>4, <1>5, <1>6 DEF PackageNext, PackageStep

LEMMA PackageInvHolds == Spec => []PackageInv
<1>1. Init => PackageInit
  BY DEF Init
<1>2. QED BY <1>1, PackageInvStart, PackageInvStep, PackageBeneath, PTL DEF Spec

\* Whatever the archive holds and wherever its extraction fails: every file and directory
\* made is under the temporary directory, no more files and bytes are on the disk than the
\* configuration allows, unless a size was declared that does not fit an int64.
THEOREM ExtractionIsBounded == Spec => []WithinLimits
<1>1. PackageInv => WithinLimits
  <2> SUFFICES ASSUME PackageInv PROVE WithinLimits
    OBVIOUS
  <2>1. TreeInv
    BY DEF PackageInv
  <2>2. \A path \in DOMAIN tree.files \cup tree.dirs : Head(path) # ".."
    BY <2>1 DEF TreeInv, Inside
  <2>3. Cardinality(DOMAIN tree.files \ Own) <= MaxFiles
    <3>1. Cardinality(DOMAIN tree.files \ Own) \in Nat
      BY <2>1, FS_Subset, FS_CardinalityType DEF TreeInv, Summable
    <3>2. QED BY <2>1, <3>1, PackageAssumption DEF TreeInv
  <2>4. Bytes <= MaxBytes \/ pkg.wide
    <3>1. Total(tree.files) \in Nat
      <4>1. PICK g : Sums(tree.files, g) /\ Total(tree.files) = g[DOMAIN tree.files]
        BY <2>1, TotalSums DEF TreeInv, Summable
      <4>2. QED BY <4>1 DEF Sums
    <3>2. QED BY <2>1, <3>1, PackageAssumption DEF TreeInv, Bytes
  <2>5. QED BY <2>2, <2>3, <2>4 DEF WithinLimits
<1>2. QED BY <1>1, PackageInvHolds, PTL

\* What is renamed into place is the whole package and nothing but it: every entry read,
\* with the bytes accounted for, agtx's own two files, an entrypoint that is a file; and
\* `registry status' calls it runnable exactly when it is no stub.
THEOREM InstallIsWhole == Spec => []InstalledIsWhole
<1>1. PackageInv => InstalledIsWhole
  <2> SUFFICES ASSUME PackageInv, pkg.stage = "installed" PROVE InstalledIsWhole
    BY DEF InstalledIsWhole
  <2>1. TreeInv /\ BundleAccepted
    BY DEF PackageInv
  <2>2. Own \subseteq DOMAIN tree.files /\ seen \subseteq DOMAIN tree.files \cup tree.dirs
    BY DEF PackageInv
  <2>3. seen \cap Own = {} => Bytes = budget.bytes
    BY DEF PackageInv, Bytes
  <2>4. Packaged(pkg.skill) => Clean(pkg.bundle.entrypoint) \in DOMAIN tree.files \ tree.dirs
    BY <2>1 DEF PackageInv, TreeInv
  <2>5. pkg.skill.stub \in BOOLEAN
    BY <2>1, PackageAssumption DEF BundleAccepted
  <2>6. Runnable(pkg.skill, pkg.bundle) <=> ~pkg.skill.stub
    BY <2>1, <2>5, AcceptedRunnable DEF BundleAccepted
  <2>7. SkillStatus(pkg.skill, {Here}) = (IF pkg.skill.stub THEN "stub" ELSE "implemented")
    <3>1. CASE pkg.skill.stub
      BY <3>1 DEF SkillStatus
    <3>2. CASE ~pkg.skill.stub
      <4>1. {p \in {Here} : \E bundle \in pkg.skill.bundles : bundle.platform = p /\ Runnable(pkg.skill, bundle)} = {Here}
        BY <2>1, <2>6, <3>2 DEF BundleAccepted
      <4>2. QED BY <3>2, <4>1 DEF SkillStatus
    <3>3. QED BY <3>1, <3>2
  <2>8. QED BY <2>2, <2>3, <2>4, <2>6, <2>7 DEF InstalledIsWhole
<1>2. QED BY <1>1, PackageInvHolds, PTL

-----------------------------------------------------------------------------
(* What is refused for want of a confirmation alone.                        *)

\* A flag with one of the names.
FlagIn(t, names) == t.kind = "flag" /\ t.flag \in names

WithoutSteps(args, switches, g) ==
  /\ g[0] = <<>>
  /\ \A k \in 1..Len(args) : g[k] = IF FlagIn(args[k], switches) THEN g[k - 1] ELSE Append(g[k - 1], args[k])
  /\ Without(args, switches) = g[Len(args)]

\* The elements up to the k-th, and the last of them.
LEMMA FirstElements ==
  ASSUME NEW k \in Nat, k # 0
  PROVE  Max(1..k) = k /\ (1..k) \ {k} = 1..(k - 1)
<1>1. Max(1..k) = k
  <2>1. k \in 1..k /\ \A y \in 1..k : k >= y
    OBVIOUS
  <2>2. 1..k # {} /\ 1..k \in SUBSET (1..k)
    BY <2>1
  <2>3. PICK x \in 1..k : x = Max(1..k) /\ \A y \in 1..k : x >= y
    BY <2>1 DEF Max
  <2>4. QED BY <2>1, <2>3
<1>2. QED BY <1>1

LEMMA WithoutRead ==
  ASSUME NEW S, NEW args \in Seq(S), NEW switches
  PROVE  \E g : WithoutSteps(args, switches, g)
<1> DEFINE D == DOMAIN args
           A == Seq(S)
           Step(kept, t) == IF t.kind = "flag" /\ t.flag \in switches THEN kept ELSE Append(kept, t)
           m == [s \in SUBSET D |-> Max(s)]
           F == [x \in D \X A |-> Step(x[2], args[x[1]])]
           Iter(it) == it = [s \in SUBSET D |-> IF s = {} THEN <<>> ELSE Step(it[s \ {Max(s)}], args[Max(s)])]
           iter == CHOOSE it : Iter(it)
<1>1. Without(args, switches) = iter[D]
  BY DEF Without, FoldLeft, MapThenFoldSet
<1>2. D = 1..Len(args) /\ Len(args) \in Nat /\ IsFiniteSet(D)
  BY FS_Interval
<1>3. \A s \in SUBSET D : s # {} => m[s] \in s
  BY <1>2, LargestIn
<1>4. \A kept \in A, t \in S : Step(kept, t) \in A
  BY AppendProperties
<1>5. \A x \in D, a \in A : F[<<x, a>>] = Step(a, args[x])
  <2> HIDE DEF Step
  <2> QED OBVIOUS
<1>6. \A x \in D : args[x] \in S
  BY <1>2
<1>7. Iter(iter)
  <2> HIDE DEF Step, m, F, D, A
  <2>1. Foldable(D, A, <<>>, m, F)
    <3>1. <<>> \in A
      BY DEF A
    <3>2. QED BY <1>2, <1>3, <1>4, <1>5, <1>6, <3>1 DEF Foldable
  <2>2. PICK h \in [SUBSET D -> A] : \A s \in SUBSET D : h[s] = IF s = {} THEN <<>> ELSE F[<<m[s], h[s \ {m[s]}]>>]
    <3>1. Folded(D, A, <<>>, m, F)
      BY <2>1, FoldExists
    <3>2. QED BY <3>1 DEF Folded
  <2>3. Iter(h)
    <3>1. \A s \in SUBSET D : s # {} => h[s] = Step(h[s \ {Max(s)}], args[Max(s)])
      <4> SUFFICES ASSUME NEW s \in SUBSET D, s # {} PROVE h[s] = Step(h[s \ {Max(s)}], args[Max(s)])
        OBVIOUS
      <4>1. m[s] = Max(s) /\ m[s] \in D /\ h[s \ {m[s]}] \in A
        BY <1>3, <2>2 DEF m
      <4>2. QED BY <1>5, <2>2, <4>1
    <3>2. QED BY <2>2, <3>1
  <2> HIDE DEF Iter
  <2>4. QED BY <2>3
<1>8. \A s \in SUBSET D : iter[s] = IF s = {} THEN <<>> ELSE Step(iter[s \ {Max(s)}], args[Max(s)])
  <2> HIDE DEF iter, Step
  <2> QED BY <1>7
<1> HIDE DEF iter, Iter, m, F
<1> DEFINE g == [k \in 0..Len(args) |-> iter[1..k]]
<1>9. ASSUME NEW k \in 1..Len(args)
      PROVE  g[k] = IF FlagIn(args[k], switches) THEN g[k - 1] ELSE Append(g[k - 1], args[k])
  <2>1. Max(1..k) = k /\ (1..k) \ {k} = 1..(k - 1) /\ 1..k \in SUBSET D /\ 1..k # {}
    BY <1>2, FirstElements
  <2>2. iter[1..k] = Step(iter[(1..k) \ {Max(1..k)}], args[Max(1..k)])
    <3> HIDE DEF Step, D
    <3> QED BY <1>8, <2>1
  <2>3. iter[1..k] = Step(iter[1..(k - 1)], args[k])
    <3> HIDE DEF Step, D
    <3> QED BY <2>1, <2>2
  <2>4. g[k] = iter[1..k] /\ g[k - 1] = iter[1..(k - 1)]
    BY <1>2
  <2>5. QED BY <2>3, <2>4 DEF FlagIn
<1>10. g[0] = <<>> /\ g[Len(args)] = iter[D]
  <2>1. 1..0 = {} /\ {} \in SUBSET D
    OBVIOUS
  <2>2. iter[{}] = <<>>
    <3> HIDE DEF D
    <3> QED BY <1>8, <2>1
  <2>3. QED BY <1>2, <2>1, <2>2
<1> HIDE DEF g
<1>11. WithoutSteps(args, switches, g)
  BY <1>1, <1>9, <1>10 DEF WithoutSteps
<1>12. QED BY <1>11

LEMMA InFront ==
  ASSUME NEW S, NEW args \in Seq(S), NEW y \in S
  PROVE  LET more == <<y>> \o args
             n == Len(args)
         IN  more \in Seq(S) /\ Len(more) = n + 1 /\ n \in Nat /\ more[1] = y /\ \A k \in 1..n : more[k + 1] = args[k]
<1>1. <<y>> \in Seq(S) /\ Len(<<y>>) = 1 /\ <<y>>[1] = y
  OBVIOUS
<1>2. PICK one \in Seq(S) : one = <<y>>
  BY <1>1
<1>3. one \o args \in Seq(S) /\ Len(one \o args) = Len(one) + Len(args)
      /\ \A i \in 1..Len(one) + Len(args) : (one \o args)[i] = IF i <= Len(one) THEN one[i] ELSE args[i - Len(one)]
  BY ConcatProperties
<1>4. QED BY <1>1, <1>2, <1>3

\* A switch more in front is taken out, and leaves the rest as it was.
LEMMA SwitchInFront ==
  ASSUME NEW S, NEW args \in Seq(S), NEW y \in S, NEW switches, FlagIn(y, switches)
  PROVE  Without(<<y>> \o args, switches) = Without(args, switches)
<1> DEFINE more == <<y>> \o args
           n == Len(args)
<1>1. more \in Seq(S) /\ Len(more) = n + 1 /\ n \in Nat /\ more[1] = y /\ \A k \in 1..n : more[k + 1] = args[k]
  BY InFront
<1> HIDE DEF more
<1>2. PICK g : WithoutSteps(args, switches, g)
  BY WithoutRead
<1>3. PICK g2 : WithoutSteps(more, switches, g2)
  BY <1>1, WithoutRead
<1>4. g2[1] = <<>>
  BY <1>1, <1>3 DEF WithoutSteps
<1> DEFINE N == {k \in Nat : k <= n => g2[k + 1] = g[k]}
<1>5. 0 \in N
  BY <1>2, <1>4 DEF WithoutSteps
<1>6. ASSUME NEW k \in N PROVE k + 1 \in N
  <2> SUFFICES ASSUME k + 1 <= n PROVE g2[k + 2] = g[k + 1]
    OBVIOUS
  <2>1. g2[k + 1] = g[k]
    BY <1>1
  <2>2. k + 1 \in 1..n /\ k + 2 \in 1..(n + 1) /\ (k + 1) - 1 = k /\ (k + 2) - 1 = k + 1 /\ more[k + 2] = args[k + 1]
    BY <1>1
  <2>3. g[k + 1] = IF FlagIn(args[k + 1], switches) THEN g[k] ELSE Append(g[k], args[k + 1])
    BY <1>2, <2>2 DEF WithoutSteps
  <2>4. g2[k + 2] = IF FlagIn(more[k + 2], switches) THEN g2[k + 1] ELSE Append(g2[k + 1], more[k + 2])
    BY <1>1, <1>3, <2>2 DEF WithoutSteps
  <2>5. QED BY <2>1, <2>2, <2>3, <2>4
<1>7. N = Nat
  <2>1. N \in SUBSET Nat
    OBVIOUS
  <2> HIDE DEF N
  <2>2. QED BY <1>5, <1>6, <2>1, Induction
<1>8. g2[n + 1] = g[n]
  BY <1>1, <1>7
<1>9. QED BY <1>1, <1>2, <1>3, <1>8 DEF WithoutSteps, more

LEMMA CommandRepeated ==
  ASSUME NEW command, NEW S, NEW args \in Seq(S), NEW terminal \in BOOLEAN,
         CommandVerdict(command, Parse(command, args), terminal) = "confirmation_required"
  PROVE  CommandVerdict(command, Parse(command, <<Flag("--yes")>> \o args), FALSE) = "call"
<1> DEFINE c == Commands[command]
           parsed == Parse(command, args)
<1>1. PICK y : y = Flag("--yes")
  OBVIOUS
<1>2. PICK more : more = <<y>> \o args
  OBVIOUS
<1> DEFINE again == Parse(command, more)
<1>3. command \in Asking /\ ~Refused(command, parsed) /\ "--plan" \notin parsed.switches
  <2> HIDE DEF parsed
  <2>1. CommandVerdict(command, parsed, terminal) = "confirmation_required"
    BY DEF parsed
  <2>2. ~Refused(command, parsed)
    BY <2>1 DEF CommandVerdict
  <2>3. "--plan" \notin parsed.switches
    BY <2>1, <2>2 DEF CommandVerdict
  <2>4. command \in Asking
    BY <2>1, <2>2, <2>3 DEF CommandVerdict
  <2>5. QED BY <2>2, <2>3, <2>4
<1>4. Confirm \subseteq c.switches /\ "--yes" \in Confirm
  BY <1>3, AskingTakes DEF Confirm
<1>5. PICK name : c.values = <<>> \/ c.values = <<name>>
  BY <1>3, AskingTakes
<1>6. parsed = Passes(c, args) /\ again = Passes(c, more)
  BY <1>3 DEF Parse, BeforeDashes, Asking
<1>7. y.kind = "flag" /\ y.flag = "--yes" /\ FlagIn(y, c.switches)
  BY <1>1, <1>4 DEF Flag, FlagIn
<1>8. more \in Seq(S \cup {y}) /\ args \in Seq(S \cup {y}) /\ Len(more) = Len(args) + 1 /\ Len(args) \in Nat
      /\ more[1] = y /\ \A k \in 1..Len(args) : more[k + 1] = args[k]
  <2>1. args \in Seq(S \cup {y})
    OBVIOUS
  <2>2. QED BY <1>2, <2>1, InFront
<1>9. Without(more, c.switches) = Without(args, c.switches)
  BY <1>2, <1>7, <1>8, SwitchInFront
<1>10. ToSet(more) = ToSet(args) \cup {y}
  <2>1. \A i \in 1..Len(more) : i = 1 \/ (i - 1 \in 1..Len(args) /\ more[i] = args[i - 1])
    <3> SUFFICES ASSUME NEW i \in 1..Len(more), i # 1 PROVE i - 1 \in 1..Len(args) /\ more[i] = args[i - 1]
      OBVIOUS
    <3>1. i - 1 \in 1..Len(args) /\ (i - 1) + 1 = i
      BY <1>8
    <3>2. QED BY <1>8, <3>1
  <2>2. \A k \in 1..Len(args) : k + 1 \in 1..Len(more)
    BY <1>8
  <2>3. 1 \in 1..Len(more) /\ DOMAIN more = 1..Len(more) /\ DOMAIN args = 1..Len(args)
    BY <1>8
  <2>4. ToSet(more) = {more[i] : i \in 1..Len(more)} /\ ToSet(args) = {args[i] : i \in 1..Len(args)}
    BY <2>3 DEF ToSet
  <2>5. \A i \in 1..Len(more) : more[i] \in ToSet(args) \cup {y}
    BY <1>8, <2>1, <2>4
  <2>6. \A k \in 1..Len(args) : args[k] \in ToSet(more)
    BY <1>8, <2>2, <2>4
  <2>7. y \in ToSet(more)
    BY <1>8, <2>3, <2>4
  <2>8. QED BY <2>4, <2>5, <2>6, <2>7
<1> HIDE DEF c, parsed, again
<1>11. again.rest = parsed.rest
  <2>1. Passes(c, args).rest = LeftOver(c, Without(args, c.switches), name)
    BY <1>5, PassesRead
  <2>2. Passes(c, more).rest = LeftOver(c, Without(more, c.switches), name)
    BY <1>5, PassesRead
  <2>3. QED BY Zenon, <1>6, <1>9, <2>1, <2>2
<1>12. /\ parsed.switches = {t.flag : t \in {u \in ToSet(args) : u.kind = "flag" /\ u.flag \in c.switches}}
       /\ again.switches = {t.flag : t \in {u \in ToSet(more) : u.kind = "flag" /\ u.flag \in c.switches}}
  BY <1>5, <1>6, PassesRead
<1>13. "--yes" \in again.switches /\ "--plan" \notin again.switches
  BY <1>3, <1>4, <1>7, <1>10, <1>12
<1>14. ~Refused(command, again)
  BY <1>3, <1>11 DEF Refused, Asking
<1>15. Confirmation(again, FALSE) = "call"
  BY <1>4, <1>13 DEF Confirmation
<1>16. CommandVerdict(command, again, FALSE) = "call"
  BY <1>3, <1>13, <1>14, <1>15 DEF CommandVerdict
<1>17. QED BY <1>1, <1>2, <1>16 DEF again

LEMMA HttpRepeated ==
  ASSUME NEW req, IsRequest(req), HttpVerdict(req) = "confirmation_required"
  PROVE  HttpVerdict([req EXCEPT !.yes = "yes"]) = "call"
<1>1. PICK again : again = [req EXCEPT !.yes = "yes"]
  OBVIOUS
<1>2. /\ again.path = req.path /\ again.method = req.method /\ again.token = req.token /\ again.body = req.body
      /\ again.id = req.id /\ again.yes = "yes"
  BY <1>1 DEF IsRequest
<1>3. Route(origin, req) = 428
  BY DEF HttpVerdict
<1>4. req.method # "OPTIONS" /\ req.path \in ReadPaths \cup MutationPaths
  BY <1>3 DEF Route
<1>5. req.method = MethodOf(req.path)
  <2> SUFFICES ASSUME req.method # MethodOf(req.path) PROVE FALSE
    OBVIOUS
  <2>1. ~(req.method = "POST" /\ req.path \in MutationPaths)
    BY DEF MethodOf
  <2>2. ~(req.method = "GET" /\ req.path \in ReadPaths)
    BY DEF MethodOf, ReadPaths, MutationPaths, PagePaths, QueryPaths, PlanPaths
  <2>3. Route(origin, req) = 405
    BY <1>4, <2>1, <2>2 DEF Route
  <2>4. QED BY <1>3, <2>3
<1>6. req.path \in MutationPaths /\ req.method = "POST"
  <2> SUFFICES ASSUME req.path \notin MutationPaths PROVE FALSE
    BY <1>5 DEF MethodOf
  <2>1. req.method = "GET" /\ req.path \in ReadPaths
    BY <1>4, <1>5 DEF MethodOf
  <2>2. Route(origin, req) \in {200, 400}
    BY <1>4, <1>5, <2>1 DEF Route
  <2>3. QED BY <1>3, <2>2
<1>7. Mutation(req) = 428
  BY <1>3, <1>4, <1>5, <1>6 DEF Route
<1>8. Authorized(req) /\ BodyStatus(req) = 200
  <2>1. Authorized(req)
    BY <1>7 DEF Mutation
  <2>2. BodyStatus(req) \in {200, 400, 413}
    <3>1. CASE req.body \in {"oversize", "broken"}
      BY <3>1 DEF BodyStatus
    <3>2. CASE req.body \in {"none", "blank", "not_json", "extra_field"}
      BY <3>2 DEF BodyStatus
    <3>3. CASE req.body = "object" /\ req.id # "text"
      BY <3>3 DEF BodyStatus
    <3>4. CASE ~(req.body = "object" /\ req.id # "text") /\ req.body \notin {"oversize", "broken"}
               /\ req.body \notin {"none", "blank", "not_json", "extra_field"}
      BY <3>4 DEF BodyStatus
    <3>5. QED BY <3>1, <3>2, <3>3, <3>4
  <2>3. QED BY <1>7, <2>1, <2>2 DEF Mutation
<1>9. Authorized(again) /\ BodyStatus(again) = 200 /\ ConfirmedByBody(again)
  BY <1>2, <1>8 DEF Authorized, BodyStatus, ConfirmedByBody
<1>10. Mutation(again) = 200
  BY <1>9 DEF Mutation
<1>11. Route(origin, again) = 200
  BY <1>2, <1>4, <1>5, <1>6, <1>10 DEF Route
<1>12. QED BY <1>1, <1>11 DEF HttpVerdict

-----------------------------------------------------------------------------
(* The tools, table by table.                                               *)

CaseTables ==
  {CatalogueCases, PackCases, RecordCases, ProofCases, BareCases, AccountCases, InspectCases, SkillCases, RunCase}

SchemaTables ==
  {CatalogueSchemas, PackSchemas, RecordSchemas, ProofSchemas, BareSchemas, AccountSchemas, SkillSchemas, RunSchema}

\* A tool has one entry in a list of tables.
In(tables, table, tool) == table \in tables /\ tool \in DOMAIN table /\ \A u \in tables : tool \in DOMAIN u => u = table

LEMMA CaseEntries ==
  /\ \A tool \in DOMAIN CatalogueCases : Cases[tool] = CatalogueCases[tool]
  /\ \A tool \in DOMAIN PackCases : Cases[tool] = PackCases[tool]
  /\ \A tool \in DOMAIN RecordCases : Cases[tool] = RecordCases[tool]
  /\ \A tool \in DOMAIN ProofCases : Cases[tool] = ProofCases[tool]
  /\ \A tool \in DOMAIN BareCases : Cases[tool] = BareCases[tool]
  /\ \A tool \in DOMAIN AccountCases : Cases[tool] = AccountCases[tool]
  /\ \A tool \in DOMAIN InspectCases : Cases[tool] = InspectCases[tool]
  /\ \A tool \in DOMAIN SkillCases : Cases[tool] = SkillCases[tool]
  /\ \A tool \in DOMAIN RunCase : Cases[tool] = RunCase[tool]
<1>1. Cases = Joined(CaseTables)
  BY DEF Cases, CaseTables
<1>2. ASSUME NEW table, NEW tool, In(CaseTables, table, tool) PROVE Cases[tool] = table[tool]
  <2> HIDE DEF CaseTables
  <2> QED BY <1>1, <1>2, JoinedEntry DEF In
<1>3. \A tool \in DOMAIN CatalogueCases : In(CaseTables, CatalogueCases, tool)
  BY CaseDomains DEF In, CaseTables, RecordTools, BareTools
<1>4. \A tool \in DOMAIN PackCases : In(CaseTables, PackCases, tool)
  BY CaseDomains DEF In, CaseTables, RecordTools, BareTools
<1>5. \A tool \in DOMAIN RecordCases : In(CaseTables, RecordCases, tool)
  BY CaseDomains DEF In, CaseTables, RecordTools, BareTools
<1>6. \A tool \in DOMAIN ProofCases : In(CaseTables, ProofCases, tool)
  BY CaseDomains DEF In, CaseTables, RecordTools, BareTools
<1>7. \A tool \in DOMAIN BareCases : In(CaseTables, BareCases, tool)
  BY CaseDomains DEF In, CaseTables, RecordTools, BareTools
<1>8. \A tool \in DOMAIN AccountCases : In(CaseTables, AccountCases, tool)
  BY CaseDomains DEF In, CaseTables, RecordTools, BareTools
<1>9. \A tool \in DOMAIN InspectCases : In(CaseTables, InspectCases, tool)
  BY CaseDomains DEF In, CaseTables, RecordTools, BareTools
<1>10. \A tool \in DOMAIN SkillCases : In(CaseTables, SkillCases, tool)
  BY CaseDomains DEF In, CaseTables, RecordTools, BareTools
<1>11. \A tool \in DOMAIN RunCase : In(CaseTables, RunCase, tool)
  BY CaseDomains DEF In, CaseTables, RecordTools, BareTools
<1>12. QED BY <1>2, <1>3, <1>4, <1>5, <1>6, <1>7, <1>8, <1>9, <1>10, <1>11

LEMMA SchemaDomains ==
  /\ DOMAIN CatalogueSchemas = {"search_skills", "list_skills", "list_capability_scenarios", "get_capability_scenario",
                                "get_agent_target", "validate_registry"}
  /\ DOMAIN PackSchemas = {"plan_capability_pack_install", "install_capability_pack",
                           "plan_capability_scenario_install", "install_capability_scenario"}
  /\ DOMAIN RecordSchemas = RecordTools
  /\ DOMAIN ProofSchemas = {"get_capability_scenario_ledger", "get_commerce_proof", "submit_commerce_proof"}
  /\ DOMAIN BareSchemas = BareTools
  /\ DOMAIN AccountSchemas = {"complete_pro_login", "revoke_pro_device"}
  /\ DOMAIN SkillSchemas = {"verify_skill", "plan_install", "install_skill", "upgrade_skill", "rollback_skill", "uninstall_skill"}
  /\ DOMAIN RunSchema = {"run_skill"}
BY DEF CatalogueSchemas, PackSchemas, RecordSchemas, ProofSchemas, BareSchemas, AccountSchemas, SkillSchemas, RunSchema

LEMMA SchemaEntries ==
  /\ \A tool \in DOMAIN CatalogueSchemas : Schemas[tool] = CatalogueSchemas[tool]
  /\ \A tool \in DOMAIN PackSchemas : Schemas[tool] = PackSchemas[tool]
  /\ \A tool \in DOMAIN RecordSchemas : Schemas[tool] = RecordSchemas[tool]
  /\ \A tool \in DOMAIN ProofSchemas : Schemas[tool] = ProofSchemas[tool]
  /\ \A tool \in DOMAIN BareSchemas : Schemas[tool] = BareSchemas[tool]
  /\ \A tool \in DOMAIN AccountSchemas : Schemas[tool] = AccountSchemas[tool]
  /\ \A tool \in DOMAIN SkillSchemas : Schemas[tool] = SkillSchemas[tool]
  /\ \A tool \in DOMAIN RunSchema : Schemas[tool] = RunSchema[tool]
<1>1. Schemas = Joined(SchemaTables)
  BY DEF Schemas, SchemaTables
<1>2. ASSUME NEW table, NEW tool, In(SchemaTables, table, tool) PROVE Schemas[tool] = table[tool]
  <2> HIDE DEF SchemaTables
  <2> QED BY <1>1, <1>2, JoinedEntry DEF In
<1>3. \A tool \in DOMAIN CatalogueSchemas : In(SchemaTables, CatalogueSchemas, tool)
  BY SchemaDomains DEF In, SchemaTables, RecordTools, BareTools
<1>4. \A tool \in DOMAIN PackSchemas : In(SchemaTables, PackSchemas, tool)
  BY SchemaDomains DEF In, SchemaTables, RecordTools, BareTools
<1>5. \A tool \in DOMAIN RecordSchemas : In(SchemaTables, RecordSchemas, tool)
  BY SchemaDomains DEF In, SchemaTables, RecordTools, BareTools
<1>6. \A tool \in DOMAIN ProofSchemas : In(SchemaTables, ProofSchemas, tool)
  BY SchemaDomains DEF In, SchemaTables, RecordTools, BareTools
<1>7. \A tool \in DOMAIN BareSchemas : In(SchemaTables, BareSchemas, tool)
  BY SchemaDomains DEF In, SchemaTables, RecordTools, BareTools
<1>8. \A tool \in DOMAIN AccountSchemas : In(SchemaTables, AccountSchemas, tool)
  BY SchemaDomains DEF In, SchemaTables, RecordTools, BareTools
<1>9. \A tool \in DOMAIN SkillSchemas : In(SchemaTables, SkillSchemas, tool)
  BY SchemaDomains DEF In, SchemaTables, RecordTools, BareTools
<1>10. \A tool \in DOMAIN RunSchema : In(SchemaTables, RunSchema, tool)
  BY SchemaDomains DEF In, SchemaTables, RecordTools, BareTools
<1>11. QED BY <1>2, <1>3, <1>4, <1>5, <1>6, <1>7, <1>8, <1>9, <1>10

\* Every tool has a schema in one table and a case in one table.
LEMMA ToolsAre ==
  ASSUME NEW tool \in ToolNames
  PROVE  \/ tool \in {"search_skills", "list_skills", "list_capability_scenarios", "get_capability_scenario"}
         \/ tool \in DOMAIN PackCases
         \/ tool \in RecordTools
         \/ tool \in DOMAIN ProofCases
         \/ tool \in BareTools
         \/ tool \in DOMAIN AccountCases
         \/ tool \in DOMAIN InspectCases
         \/ tool \in DOMAIN SkillCases
         \/ tool = "run_skill"
<1>1. DOMAIN Schemas = UNION {DOMAIN u : u \in SchemaTables}
  BY DEF Schemas, SchemaTables, Joined
<1>2. PICK table \in SchemaTables : tool \in DOMAIN table
  <2> HIDE DEF SchemaTables
  <2> QED BY <1>1 DEF ToolNames
<1>3. QED BY <1>2, SchemaDomains, CaseDomains DEF SchemaTables

-----------------------------------------------------------------------------
(* What a schema says and what a case reads.                                *)

\* A getter reads what the type allows, and nothing else but what says nothing.
Matches(type, getter) ==
  /\ Accepted(type) \subseteq Reads(getter)
  /\ Reads(getter) \ {"null", "empty", "none"} \subseteq Accepted(type)

LEMMA TypesMatch ==
  /\ Matches("string", "String") /\ Matches("nonEmptyString", "String")
  /\ Matches("boolean", "Bool") /\ Matches("positiveInteger", "PositiveInt")
  /\ Matches("strings", "StringSlice") /\ Matches("nonEmptyStrings", "StringSlice")
  /\ Matches("object", "Options")
BY DEF Matches, Accepted, Reads, Texts

\* Schema, case and allowedToolArguments tell the same of a tool.
Agree(tool, schema, case) ==
  /\ DOMAIN schema.properties = Allowed(tool) /\ DOMAIN case.reads = Allowed(tool)
  /\ \A n \in Allowed(tool) : Matches(schema.properties[n], case.reads[n])
  /\ case.needs \subseteq Allowed(tool) \ {"yes"}
  /\ \A n \in case.needs : schema.properties[n] = "nonEmptyString" /\ case.reads[n] = "String"
  /\ tool # "plan_install" => schema.required = {{n} : n \in case.needs}
  /\ "from" \in Allowed(tool) => tool \in RecordTools \cup {"get_capability_scenario_ledger"}
  /\ "yes" \in Allowed(tool) => case.reads["yes"] = "Bool" /\ tool \notin {"plan_install", "run_skill"}

LEMMA BareAgree == ASSUME NEW tool \in BareTools PROVE Agree(tool, Schemas[tool], Cases[tool])
<1>1. Schemas[tool] = Object(NoProperties, {}) /\ Cases[tool] = Case(NoProperties, {})
  BY SchemaEntries, CaseEntries, SchemaDomains, CaseDomains DEF BareSchemas, BareCases
<1>2. Allowed(tool) = {} /\ tool # "plan_install"
  BY DEF Allowed, BareTools, RecordTools
<1>3. QED BY <1>1, <1>2 DEF Agree, Object, Case, NoProperties

LEMMA PackAgree == ASSUME NEW tool \in DOMAIN PackCases PROVE Agree(tool, Schemas[tool], Cases[tool])
<1>1. Schemas[tool] = PackSchemas[tool] /\ Cases[tool] = PackCases[tool]
  BY SchemaEntries, CaseEntries, SchemaDomains, CaseDomains
<1>2. tool \in {"plan_capability_pack_install", "install_capability_pack",
                "plan_capability_scenario_install", "install_capability_scenario"}
  BY CaseDomains
<1>3. Allowed(tool) = CASE tool = "plan_capability_pack_install" -> {"pack"}
                        [] tool = "install_capability_pack" -> {"pack", "yes"}
                        [] tool = "plan_capability_scenario_install" -> {"scenario"}
                        [] tool = "install_capability_scenario" -> {"scenario", "yes"}
  BY <1>2 DEF Allowed, BareTools, RecordTools
<1>4. QED BY <1>1, <1>2, <1>3, TypesMatch DEF Agree, PackSchemas, PackCases, Object, Case, One

LEMMA RecordEntries ==
  /\ DOMAIN RecordQuery = Filters \cup {"limit"} /\ DOMAIN RecordReads = Filters \cup {"limit"}
  /\ RecordQuery["limit"] = "positiveInteger" /\ RecordReads["limit"] = "PositiveInt"
  /\ \A n \in Filters : RecordQuery[n] = "string" /\ RecordReads[n] = "String"
<1>1. PICK texts, limit : texts = All(Filters, "string") /\ limit = [limit |-> "positiveInteger"]
  OBVIOUS
<1>2. PICK textReads, limitReads : textReads = All(Filters, "String") /\ limitReads = [limit |-> "PositiveInt"]
  OBVIOUS
<1>3. /\ DOMAIN texts = Filters /\ DOMAIN textReads = Filters /\ DOMAIN limit = {"limit"} /\ DOMAIN limitReads = {"limit"}
      /\ \A n \in Filters : texts[n] = "string" /\ textReads[n] = "String"
      /\ limit["limit"] = "positiveInteger" /\ limitReads["limit"] = "PositiveInt"
  BY <1>1, <1>2 DEF All
<1>4. "limit" \notin Filters
  BY DEF Filters
<1>5. RecordQuery = Joined({texts, limit}) /\ RecordReads = Joined({textReads, limitReads})
  BY Zenon, <1>1, <1>2 DEF RecordQuery, RecordReads
<1>6. DOMAIN RecordQuery = Filters \cup {"limit"} /\ DOMAIN RecordReads = Filters \cup {"limit"}
  BY <1>3, <1>5 DEF Joined
<1>7. ASSUME NEW n \in Filters PROVE RecordQuery[n] = "string" /\ RecordReads[n] = "String"
  <2>0. n \in DOMAIN texts /\ n \notin DOMAIN limit /\ n \in DOMAIN textReads /\ n \notin DOMAIN limitReads
    BY <1>3, <1>4
  <2>1. Joined({texts, limit})[n] = texts[n]
    BY <2>0, JoinedEntry
  <2>2. Joined({textReads, limitReads})[n] = textReads[n]
    BY <2>0, JoinedEntry
  <2>3. QED BY <1>3, <1>5, <2>1, <2>2
<1>8. RecordQuery["limit"] = "positiveInteger" /\ RecordReads["limit"] = "PositiveInt"
  <2>1. Joined({texts, limit})["limit"] = limit["limit"]
    BY <1>3, <1>4, JoinedEntry
  <2>2. Joined({textReads, limitReads})["limit"] = limitReads["limit"]
    BY <1>3, <1>4, JoinedEntry
  <2>3. QED BY <1>3, <1>5, <2>1, <2>2
<1>9. QED BY <1>6, <1>7, <1>8

LEMMA RecordAgree == ASSUME NEW tool \in RecordTools PROVE Agree(tool, Schemas[tool], Cases[tool])
<1>1. Schemas[tool] = Object(RecordQuery, {}) /\ Cases[tool] = Case(RecordReads, {})
  BY SchemaEntries, CaseEntries, SchemaDomains, CaseDomains DEF RecordSchemas, RecordCases
<1>2. Allowed(tool) = Filters \cup {"limit"} /\ "yes" \notin Allowed(tool)
  BY DEF Allowed, RecordTools, BareTools, Filters
<1>3. QED BY <1>1, <1>2, RecordEntries, TypesMatch DEF Agree, Object, Case

LEMMA ProofAgree == ASSUME NEW tool \in DOMAIN ProofCases PROVE Agree(tool, Schemas[tool], Cases[tool])
<1>1. Schemas[tool] = ProofSchemas[tool] /\ Cases[tool] = ProofCases[tool]
  BY SchemaEntries, CaseEntries, SchemaDomains, CaseDomains
<1>2. CASE tool = "get_capability_scenario_ledger"
  <2>1. PICK scenario, scenarioReads : scenario = [scenario |-> "nonEmptyString"] /\ scenarioReads = [scenario |-> "String"]
    OBVIOUS
  <2>2. /\ DOMAIN scenario = {"scenario"} /\ DOMAIN scenarioReads = {"scenario"}
        /\ scenario["scenario"] = "nonEmptyString" /\ scenarioReads["scenario"] = "String"
    BY <2>1
  <2>3. "scenario" \notin Filters \cup {"limit"} /\ "yes" \notin Filters \cup {"limit"}
    BY DEF Filters
  <2>4. PICK properties, reads : properties = Joined({RecordQuery, scenario}) /\ reads = Joined({scenarioReads, RecordReads})
    OBVIOUS
  <2>5. Schemas[tool] = Object(properties, One("scenario")) /\ Cases[tool] = Case(reads, {"scenario"})
    BY <1>1, <1>2, <2>1, <2>4 DEF ProofSchemas, ProofCases
  <2>6. DOMAIN properties = Filters \cup {"scenario", "limit"} /\ DOMAIN reads = Filters \cup {"scenario", "limit"}
    BY <2>2, <2>4, RecordEntries DEF Joined
  <2>7. \A n \in Filters \cup {"limit"} : properties[n] = RecordQuery[n] /\ reads[n] = RecordReads[n]
    <3> SUFFICES ASSUME NEW n \in Filters \cup {"limit"} PROVE properties[n] = RecordQuery[n] /\ reads[n] = RecordReads[n]
      OBVIOUS
    <3>1. n \notin DOMAIN scenario /\ n \notin DOMAIN scenarioReads /\ n \in DOMAIN RecordQuery /\ n \in DOMAIN RecordReads
      BY <2>2, <2>3, RecordEntries
    <3>2. QED BY <2>4, <3>1, JoinedEntry
  <2>8. properties["scenario"] = "nonEmptyString" /\ reads["scenario"] = "String"
    <3>1. "scenario" \notin DOMAIN RecordQuery /\ "scenario" \notin DOMAIN RecordReads
      BY <2>3, RecordEntries
    <3>2. QED BY <2>2, <2>4, <3>1, JoinedEntry
  <2>9. Allowed(tool) = Filters \cup {"scenario", "limit"} /\ tool # "plan_install"
    BY <1>2 DEF Allowed, RecordTools, BareTools
  <2>10. \A n \in Allowed(tool) : Matches(properties[n], reads[n])
    BY <2>7, <2>8, <2>9, RecordEntries, TypesMatch
  <2>11. QED BY <1>2, <2>3, <2>5, <2>6, <2>8, <2>9, <2>10 DEF Agree, Object, Case, One
<1>3. CASE tool \in {"get_commerce_proof", "submit_commerce_proof"}
  <2>1. Allowed(tool) = IF tool = "get_commerce_proof" THEN {"challenge"} ELSE {"challenge", "yes"}
    BY <1>3 DEF Allowed, RecordTools, BareTools
  <2>2. CASE tool = "get_commerce_proof"
    <3>1. Schemas[tool] = Object([challenge |-> "nonEmptyString"], One("challenge"))
          /\ Cases[tool] = Case([challenge |-> "String"], {"challenge"})
      BY <1>1, <2>2 DEF ProofSchemas, ProofCases
    <3>2. QED BY <2>1, <2>2, <3>1, TypesMatch DEF Agree, Object, Case, One
  <2>3. CASE tool = "submit_commerce_proof"
    <3>1. Schemas[tool] = Object([challenge |-> "nonEmptyString", yes |-> "boolean"], One("challenge"))
          /\ Cases[tool] = Case([challenge |-> "String", yes |-> "Bool"], {"challenge"})
      BY <1>1, <2>3 DEF ProofSchemas, ProofCases
    <3>2. QED BY <2>1, <2>3, <3>1, TypesMatch DEF Agree, Object, Case, One
  <2>4. QED BY <1>3, <2>2, <2>3
<1>4. QED BY <1>2, <1>3, CaseDomains

LEMMA CatalogueAgree ==
  ASSUME NEW tool \in DOMAIN CatalogueCases \cup DOMAIN InspectCases
  PROVE  Agree(tool, Schemas[tool], Cases[tool])
<1>1. CASE tool \in DOMAIN CatalogueCases
  <2>1. Schemas[tool] = CatalogueSchemas[tool] /\ Cases[tool] = CatalogueCases[tool]
    BY <1>1, SchemaEntries, CaseEntries, SchemaDomains, CaseDomains
  <2>2. tool \in {"search_skills", "list_skills", "list_capability_scenarios", "get_capability_scenario"}
    BY <1>1, CaseDomains
  <2>3. Allowed(tool) = CASE tool = "search_skills" -> {"query", "limit"}
                          [] tool = "list_skills" -> {"installed", "available"}
                          [] tool = "list_capability_scenarios" -> {"pack_id"}
                          [] tool = "get_capability_scenario" -> {"scenario"}
    BY <2>2 DEF Allowed, RecordTools, BareTools
  <2>4. QED BY <2>1, <2>2, <2>3, TypesMatch DEF Agree, CatalogueSchemas, CatalogueCases, Object, Case, One
<1>2. CASE tool \in DOMAIN InspectCases
  <2>1. tool \in {"get_agent_target", "verify_skill", "validate_registry"}
    BY <1>2, CaseDomains
  <2>2. Cases[tool] = InspectCases[tool]
    BY <1>2, CaseEntries
  <2>3. Schemas[tool] = IF tool = "verify_skill" THEN SkillSchemas[tool] ELSE CatalogueSchemas[tool]
    BY <2>1, SchemaEntries, SchemaDomains
  <2>4. Allowed(tool) = CASE tool = "get_agent_target" -> {"target"}
                          [] tool = "verify_skill" -> {"skill"}
                          [] tool = "validate_registry" -> {"path"}
    BY <2>1 DEF Allowed, RecordTools, BareTools
  <2>5. CASE tool = "get_agent_target"
    <3>1. Schemas[tool] = Object([target |-> "nonEmptyString"], One("target")) /\ Cases[tool] = Case([target |-> "String"], {"target"})
      BY <2>2, <2>3, <2>5 DEF CatalogueSchemas, InspectCases
    <3>2. QED BY <2>4, <2>5, <3>1, TypesMatch DEF Agree, Object, Case, One
  <2>6. CASE tool = "verify_skill"
    <3>1. Schemas[tool] = Object([skill |-> "nonEmptyString"], One("skill")) /\ Cases[tool] = Case([skill |-> "String"], {"skill"})
      BY <2>2, <2>3, <2>6 DEF SkillSchemas, InspectCases
    <3>2. QED BY <2>4, <2>6, <3>1, TypesMatch DEF Agree, Object, Case, One
  <2>7. CASE tool = "validate_registry"
    <3>1. Schemas[tool] = Object([path |-> "nonEmptyString"], One("path")) /\ Cases[tool] = Case([path |-> "String"], {"path"})
      BY <2>2, <2>3, <2>7 DEF CatalogueSchemas, InspectCases
    <3>2. QED BY <2>4, <2>7, <3>1, TypesMatch DEF Agree, Object, Case, One
  <2>8. QED BY <2>1, <2>5, <2>6, <2>7
<1>3. QED BY <1>1, <1>2

LEMMA AccountAgree == ASSUME NEW tool \in DOMAIN AccountCases PROVE Agree(tool, Schemas[tool], Cases[tool])
<1>1. Schemas[tool] = AccountSchemas[tool] /\ Cases[tool] = AccountCases[tool]
  BY SchemaEntries, CaseEntries, SchemaDomains, CaseDomains
<1>2. tool \in {"complete_pro_login", "revoke_pro_device"}
  BY CaseDomains
<1>3. Allowed(tool) = IF tool = "complete_pro_login" THEN {"callback_uri"} ELSE {"device_id", "yes"}
  BY <1>2 DEF Allowed, RecordTools, BareTools
<1>4. QED BY <1>1, <1>2, <1>3, TypesMatch DEF Agree, AccountSchemas, AccountCases, Object, Case, One

LEMMA SkillAgree == ASSUME NEW tool \in DOMAIN SkillCases PROVE Agree(tool, Schemas[tool], Cases[tool])
<1>1. Schemas[tool] = SkillSchemas[tool] /\ Cases[tool] = SkillCases[tool]
  BY SchemaEntries, CaseEntries, SchemaDomains, CaseDomains
<1>2. tool \in {"plan_install", "install_skill", "upgrade_skill", "rollback_skill", "uninstall_skill"}
  BY CaseDomains
<1>3. Allowed(tool) = CASE tool = "plan_install" -> {"skill", "skills"}
                        [] tool = "install_skill" -> {"skill", "yes"}
                        [] tool = "upgrade_skill" -> {"skill", "yes", "plan"}
                        [] tool = "rollback_skill" -> {"skill", "to", "yes", "plan"}
                        [] tool = "uninstall_skill" -> {"skill", "all_versions", "yes", "plan"}
  BY <1>2 DEF Allowed, RecordTools, BareTools
<1>4. QED BY <1>1, <1>2, <1>3, TypesMatch DEF Agree, SkillSchemas, SkillCases, Object, Case, One

LEMMA RunAgree == Agree("run_skill", Schemas["run_skill"], Cases["run_skill"])
<1>1. Schemas["run_skill"] = RunSchema["run_skill"] /\ Cases["run_skill"] = RunCase["run_skill"]
  BY SchemaEntries, CaseEntries, SchemaDomains, CaseDomains
<1>2. Allowed("run_skill") = {"skill", "args", "input", "input_base64", "input_path", "timeout_ms",
                              "output_limit_bytes", "scenario_id", "agent_name", "ocr"}
  BY DEF Allowed, RecordTools, BareTools
<1>3. PICK properties : properties = RunSchema["run_skill"].properties
  OBVIOUS
<1>4. PICK reads : reads = RunCase["run_skill"].reads
  OBVIOUS
<1>5. Schemas["run_skill"] = Object(properties, One("skill")) /\ Cases["run_skill"] = Case(reads, {"skill"})
  BY <1>1, <1>3, <1>4 DEF RunSchema, RunCase, Object, Case
<1>6. /\ DOMAIN properties = Allowed("run_skill")
      /\ properties["skill"] = "nonEmptyString" /\ properties["input"] = "string" /\ properties["input_base64"] = "string"
      /\ properties["input_path"] = "string" /\ properties["scenario_id"] = "string" /\ properties["agent_name"] = "string"
      /\ properties["args"] = "strings" /\ properties["timeout_ms"] = "positiveInteger"
      /\ properties["output_limit_bytes"] = "positiveInteger" /\ properties["ocr"] = "object"
  BY <1>2, <1>3 DEF RunSchema, Object
<1>7. /\ DOMAIN reads = Allowed("run_skill")
      /\ reads["skill"] = "String" /\ reads["input"] = "String" /\ reads["input_base64"] = "String"
      /\ reads["input_path"] = "String" /\ reads["scenario_id"] = "String" /\ reads["agent_name"] = "String"
      /\ reads["args"] = "StringSlice" /\ reads["timeout_ms"] = "PositiveInt"
      /\ reads["output_limit_bytes"] = "PositiveInt" /\ reads["ocr"] = "Options"
  BY <1>2, <1>4 DEF RunCase, Case
<1>8. \A n \in Allowed("run_skill") : Matches(properties[n], reads[n])
  BY <1>2, <1>6, <1>7, TypesMatch
<1>9. QED BY <1>2, <1>5, <1>6, <1>7, <1>8 DEF Agree, Object, Case, One

LEMMA ToolsAgree == ASSUME NEW tool \in ToolNames PROVE Agree(tool, Schemas[tool], Cases[tool])
BY ToolsAre, CaseDomains, BareAgree, PackAgree, RecordAgree, ProofAgree, CatalogueAgree, AccountAgree, SkillAgree, RunAgree

\* The one tool that takes either of two arguments.
LEMMA PlanInstallTakes ==
  LET schema == Schemas["plan_install"]
      case == Cases["plan_install"]
  IN  /\ DOMAIN schema.properties = {"skill", "skills"} /\ schema.required = {{"skill", "skills"}}
      /\ schema.properties["skill"] = "nonEmptyString" /\ schema.properties["skills"] = "nonEmptyStrings"
      /\ DOMAIN case.reads = {"skill", "skills"} /\ case.needs = {}
      /\ case.reads["skill"] = "String" /\ case.reads["skills"] = "StringSlice"
      /\ "plan_install" \in ToolNames
<1>1. Schemas["plan_install"] = SkillSchemas["plan_install"] /\ Cases["plan_install"] = SkillCases["plan_install"]
  BY SchemaEntries, CaseEntries, SchemaDomains, CaseDomains
<1>2. SkillSchemas["plan_install"] = Object([skill |-> "nonEmptyString", skills |-> "nonEmptyStrings"], {{"skill", "skills"}})
      /\ SkillCases["plan_install"] = Case([skills |-> "StringSlice", skill |-> "String"], {})
  BY DEF SkillSchemas, SkillCases
<1>3. "plan_install" \in ToolNames
  <2>1. DOMAIN Schemas = UNION {DOMAIN u : u \in SchemaTables}
    BY DEF Schemas, SchemaTables, Joined
  <2>2. SkillSchemas \in SchemaTables /\ "plan_install" \in DOMAIN SkillSchemas
    BY SchemaDomains DEF SchemaTables
  <2> HIDE DEF SchemaTables
  <2>3. QED BY <2>1, <2>2 DEF ToolNames
<1>4. QED BY <1>1, <1>2, <1>3 DEF Object, Case

LEMMA LookedAt ==
  ASSUME NEW call, call.tool \in ToolNames
  PROVE  /\ Looked(call) \subseteq DOMAIN Cases[call.tool].reads
         /\ Planning(call) => Looked(call) = DOMAIN Cases[call.tool].reads \ {"yes"}
         /\ ~Planning(call) /\ call.tool # "plan_install" => Looked(call) = DOMAIN Cases[call.tool].reads
         /\ call.tool = "plan_install" =>
              Looked(call) = IF Arg(call, "skills") = "words" THEN {"skills"} ELSE {"skill", "skills"}
<1>1. call.tool = "plan_install" => ~Planning(call) /\ DOMAIN Cases[call.tool].reads = {"skill", "skills"}
  BY PlanInstallTakes DEF Planning
<1>2. CASE Planning(call)
  <2>1. Looked(call) = DOMAIN Cases[call.tool].reads \ {"yes"}
    BY <1>1, <1>2 DEF Looked
  <2>2. QED BY <1>1, <1>2, <2>1
<1>3. CASE ~Planning(call) /\ call.tool = "plan_install" /\ Arg(call, "skills") = "words"
  BY <1>1, <1>3 DEF Looked
<1>4. CASE ~Planning(call) /\ ~(call.tool = "plan_install" /\ Arg(call, "skills") = "words")
  <2>1. Looked(call) = DOMAIN Cases[call.tool].reads
    BY <1>4 DEF Looked
  <2>2. QED BY <1>1, <1>4, <2>1
<1>5. QED BY <1>2, <1>3, <1>4

\* What a schema allows and makes sense beyond it, the case of the tool can read.
LEMMA AllowedIsRead ==
  ASSUME NEW call, call.tool \in ToolNames, SchemaAccepts(Schemas[call.tool], call.args), Sensible(call)
  PROVE  Readable(call)
<1>1. PICK tool : tool = call.tool
  OBVIOUS
<1>2. PICK schema, case : schema = Schemas[tool] /\ case = Cases[tool]
  OBVIOUS
<1>3. PICK args : args = call.args
  OBVIOUS
<1>4. Agree(tool, schema, case)
  BY <1>1, <1>2, ToolsAgree
<1>5. /\ DOMAIN args \subseteq DOMAIN schema.properties
      /\ \A n \in DOMAIN args : args[n] \in Accepted(schema.properties[n])
      /\ \A choice \in schema.required : choice \cap DOMAIN args # {}
  BY <1>1, <1>2, <1>3 DEF SchemaAccepts
<1>6. DOMAIN args \subseteq Allowed(tool)
  BY <1>4, <1>5 DEF Agree
<1>7. \A n \in DOMAIN args : args[n] \in Reads(case.reads[n])
  BY <1>4, <1>5, <1>6 DEF Agree, Matches
<1>8. \A n \in DOMAIN args : args[n] # "blank" /\ Arg(call, n) = args[n]
  BY <1>3 DEF Sensible, Arg
<1>9. \A n \in DOMAIN args : schema.properties[n] = "nonEmptyString" => ~Blank(Arg(call, n))
  <2>1. Accepted("nonEmptyString") = Texts \ {"empty"}
    BY DEF Accepted
  <2>2. \A n \in DOMAIN args : schema.properties[n] = "nonEmptyString" => args[n] \in Texts \ {"empty"}
    BY <1>5, <2>1
  <2>3. \A shape \in Texts \ {"empty", "blank"} : ~Blank(shape)
    BY DEF Texts, Blank
  <2>4. QED BY <1>8, <2>2, <2>3
<1>10. \A n \in case.needs : ~Blank(Arg(call, n))
  <2>1. CASE tool = "plan_install"
    BY <1>2, <2>1, PlanInstallTakes
  <2>2. CASE tool # "plan_install"
    <3>1. \A n \in case.needs : {n} \in schema.required /\ schema.properties[n] = "nonEmptyString"
      BY <1>4, <2>2 DEF Agree
    <3>2. \A n \in case.needs : n \in DOMAIN args
      BY <1>5, <3>1
    <3>3. QED BY <1>9, <3>1, <3>2
  <2>3. QED BY <2>1, <2>2
<1>11. tool = "plan_install" => Arg(call, "skills") = "words" \/ ~Blank(Arg(call, "skill"))
  <2> SUFFICES ASSUME tool = "plan_install" PROVE Arg(call, "skills") = "words" \/ ~Blank(Arg(call, "skill"))
    OBVIOUS
  <2>1. schema.required = {{"skill", "skills"}} /\ schema.properties["skill"] = "nonEmptyString"
        /\ schema.properties["skills"] = "nonEmptyStrings"
    BY <1>2, PlanInstallTakes
  <2>2. "skill" \in DOMAIN args \/ "skills" \in DOMAIN args
    BY <1>5, <2>1
  <2>3. CASE "skills" \in DOMAIN args
    <3>1. args["skills"] \in Accepted("nonEmptyStrings")
      BY <1>5, <2>1, <2>3
    <3>2. args["skills"] = "words"
      BY <3>1 DEF Accepted
    <3>3. QED BY <1>8, <2>3, <3>2
  <2>4. CASE "skill" \in DOMAIN args
    BY <1>9, <2>1, <2>4
  <2>5. QED BY <2>2, <2>3, <2>4
<1>12. "from" \in Allowed(tool) => TimesInOrder(call)
  BY <1>1, <1>4 DEF Agree, Sensible
<1>13. tool = "run_skill" => RunInput(call)
  BY <1>1 DEF Sensible
<1>14. QED BY <1>1, <1>2, <1>3, <1>6, <1>7, <1>10, <1>11, <1>12, <1>13 DEF Readable

\* What the case of the tool reads of a call, its schema allows.
LEMMA ReadIsAllowed ==
  ASSUME NEW call, call.tool \in ToolNames, Readable(call)
  PROVE  SchemaAccepts(Schemas[call.tool], Given(call))
<1>1. PICK tool : tool = call.tool
  OBVIOUS
<1>2. PICK schema, case : schema = Schemas[tool] /\ case = Cases[tool]
  OBVIOUS
<1>3. PICK args : args = call.args
  OBVIOUS
<1>4. PICK given : given = Given(call)
  OBVIOUS
<1>5. Agree(tool, schema, case)
  BY <1>1, <1>2, ToolsAgree
<1>6. /\ DOMAIN given = {n \in Looked(call) \cap DOMAIN args : args[n] \notin {"null", "empty", "none"}}
      /\ \A n \in DOMAIN given : given[n] = args[n]
  BY <1>3, <1>4 DEF Given
<1>7. /\ \A n \in Looked(call) \cap DOMAIN args : args[n] \in Reads(case.reads[n])
      /\ \A n \in case.needs : ~Blank(Arg(call, n))
      /\ tool = "plan_install" => Arg(call, "skills") = "words" \/ ~Blank(Arg(call, "skill"))
  BY <1>1, <1>2, <1>3 DEF Readable
<1>8. Looked(call) \subseteq Allowed(tool)
  BY <1>1, <1>2, <1>5, LookedAt DEF Agree
<1>9. DOMAIN given \subseteq DOMAIN schema.properties
  BY <1>5, <1>6, <1>8 DEF Agree
<1>10. \A n \in DOMAIN given : given[n] \in Accepted(schema.properties[n])
  BY <1>5, <1>6, <1>7, <1>8 DEF Agree, Matches
<1>11. \A n : ~Blank(Arg(call, n)) => n \in DOMAIN args /\ Arg(call, n) = args[n] /\ args[n] \notin {"null", "empty", "blank"}
  BY <1>3 DEF Arg, Blank
<1>12. \A n \in Looked(call) : case.reads[n] = "String" /\ ~Blank(Arg(call, n)) => n \in DOMAIN given
  <2>1. "none" \notin Reads("String")
    BY DEF Reads, Texts
  <2>2. QED BY <1>6, <1>7, <1>11, <2>1
<1>13. \A choice \in schema.required : choice \cap DOMAIN given # {}
  <2>1. CASE tool = "plan_install"
    <3>1. schema.required = {{"skill", "skills"}} /\ case.reads["skill"] = "String"
      BY <1>2, <2>1, PlanInstallTakes
    <3>2. CASE Arg(call, "skills") = "words"
      <4>1. Looked(call) = {"skills"}
        BY <1>1, <2>1, <3>2, LookedAt
      <4>2. "skills" \in DOMAIN args /\ args["skills"] = "words"
        BY <1>3, <3>2 DEF Arg
      <4>3. "skills" \in DOMAIN given
        BY <1>6, <4>1, <4>2
      <4>4. QED BY <3>1, <4>3
    <3>3. CASE Arg(call, "skills") # "words"
      <4>1. Looked(call) = {"skill", "skills"}
        BY <1>1, <2>1, <3>3, LookedAt
      <4>2. "skill" \in DOMAIN given
        BY <1>7, <1>12, <2>1, <3>1, <3>3, <4>1
      <4>3. QED BY <3>1, <4>2
    <3>4. QED BY <3>2, <3>3
  <2>2. CASE tool # "plan_install"
    <3>1. schema.required = {{n} : n \in case.needs} /\ case.needs \subseteq Allowed(tool) \ {"yes"}
          /\ \A n \in case.needs : case.reads[n] = "String"
      BY <1>5, <2>2 DEF Agree
    <3>2. case.needs \subseteq Looked(call)
      BY <1>1, <1>2, <1>5, <2>2, <3>1, LookedAt DEF Agree
    <3>3. \A n \in case.needs : n \in DOMAIN given
      BY <1>7, <1>12, <3>1, <3>2
    <3>4. QED BY <3>1, <3>3
  <2>3. QED BY <2>1, <2>2
<1>14. QED BY <1>1, <1>2, <1>4, <1>9, <1>10, <1>13 DEF SchemaAccepts

\* A call that is told to be confirmed, sent again with yes=true, reaches the Service.
LEMMA CallRepeated ==
  ASSUME NEW call, IsCall(call), Verdict(call) = "confirmation_required"
  PROVE  Verdict([call EXCEPT !.args = [n \in DOMAIN @ \cup {"yes"} |-> IF n = "yes" THEN "yes" ELSE @[n]]]) = "call"
<1>1. PICK args : args = call.args
  OBVIOUS
<1>2. PICK more : more = [n \in DOMAIN args \cup {"yes"} |-> IF n = "yes" THEN "yes" ELSE args[n]]
  OBVIOUS
<1>3. PICK again : again = [call EXCEPT !.args = [n \in DOMAIN @ \cup {"yes"} |-> IF n = "yes" THEN "yes" ELSE @[n]]]
  OBVIOUS
<1>4. again.tool = call.tool /\ again.args = more /\ again.ocr = call.ocr
  BY <1>1, <1>2, <1>3 DEF IsCall
<1>5. PICK tool : tool = call.tool
  OBVIOUS
<1>6. PICK case : case = Cases[tool]
  OBVIOUS
<1>7. tool \in ToolNames /\ Readable(call) /\ Asks(call)
  BY <1>5 DEF Verdict
<1>8. Agree(tool, Schemas[tool], case)
  BY <1>6, <1>7, ToolsAgree
<1>9. "yes" \in DOMAIN case.reads /\ ~Planning(call)
  BY <1>5, <1>6, <1>7 DEF Asks
<1>10. "yes" \in Allowed(tool) /\ case.reads["yes"] = "Bool" /\ tool \notin {"plan_install", "run_skill"} /\ "yes" \notin case.needs
  BY <1>8, <1>9 DEF Agree
<1>11. Arg(again, "yes") = "yes" /\ \A n : n # "yes" => Arg(again, n) = Arg(call, n)
  BY <1>1, <1>2, <1>4 DEF Arg
<1>12. ~Planning(again)
  BY <1>4, <1>9, <1>11 DEF Planning
<1>13. Looked(call) = DOMAIN case.reads /\ Looked(again) = DOMAIN case.reads
  BY <1>4, <1>5, <1>6, <1>7, <1>9, <1>10, <1>12, LookedAt
<1>14. Readable(again)
  <2>1. DOMAIN more \subseteq Allowed(tool)
    BY <1>1, <1>2, <1>5, <1>7, <1>10 DEF Readable
  <2>2. \A n \in DOMAIN case.reads \cap DOMAIN more : more[n] \in Reads(case.reads[n])
    <3>1. "yes" \in Reads("Bool")
      BY DEF Reads
    <3>2. \A n \in DOMAIN case.reads \cap DOMAIN args : args[n] \in Reads(case.reads[n])
      BY <1>1, <1>5, <1>6, <1>7, <1>13 DEF Readable
    <3>3. QED BY <1>2, <1>10, <3>1, <3>2
  <2>3. \A n \in case.needs : ~Blank(Arg(again, n))
    BY <1>5, <1>6, <1>7, <1>10, <1>11 DEF Readable
  <2>4. "from" \in Allowed(tool) => TimesInOrder(again)
    BY <1>5, <1>7, <1>11 DEF Readable, TimesInOrder
  <2>5. QED BY <1>4, <1>5, <1>6, <1>10, <1>13, <2>1, <2>2, <2>3, <2>4 DEF Readable
<1>15. QED BY <1>3, <1>4, <1>5, <1>7, <1>11, <1>14 DEF Verdict

-----------------------------------------------------------------------------
(* A request told to be confirmed needs only that, and schemas tell calls.  *)

\* What is known of the request in hand: a tool or a path that is read next is one there
\* are calls of or requests for, a verdict on a call is the call's, and a request that
\* was told to be confirmed is answered and would reach the Service with it.
RequestInv ==
  /\ stage = "reading" /\ front = "mcp" => request.about \in ToolNames \cup {"no_such_tool"}
  /\ stage = "reading" /\ front = "http" => request.about \in ReadPaths \cup MutationPaths \cup {"/elsewhere"}
  /\ stage \in {"idle", "reading", "prompting"} => "call" \notin DOMAIN request
  /\ "call" \in DOMAIN request /\ reply.kind = "tool" => verdict = Verdict(request.call)
  /\ verdict = "confirmation_required" => stage = "answered" /\ Resent = "call"

LEMMA RequestInvStart == Init => RequestInv
BY DEF Init, RequestInv, NoRequest, NoReply

\* The verdict of a request that was read, as far as RequestInv speaks of it.
LEMMA RequestSettled ==
  ASSUME NEW given, Settle(given),
         "call" \in DOMAIN request' => given # "prompt",
         "call" \in DOMAIN request' /\ reply'.kind = "tool" => given = Verdict(request'.call),
         given = "confirmation_required" => Resent' = "call"
  PROVE  RequestInv'
<1>1. verdict' = given
  BY DEF Settle
<1>2. \/ given = "call" /\ stage' = "serving"
      \/ given = "prompt" /\ stage' = "prompting"
      \/ given \notin {"call", "prompt"} /\ stage' = "answered"
  BY DEF Settle
<1>3. Verdict(request.call)' = Verdict(request'.call)
  OBVIOUS
<1>4. QED BY <1>1, <1>2, <1>3 DEF RequestInv

LEMMA CommandSettled == Command => RequestInv'
<1> SUFFICES ASSUME Command PROVE RequestInv'
  OBVIOUS
<1>1. PICK about : about = request.about
  OBVIOUS
<1>2. PICK n \in 0..MaxArgs, terminal \in BOOLEAN : \E args \in [1..n -> Tokens(about)] :
        /\ request' = [from |-> "cli", cmd |-> [command |-> about, args |-> args, typed |-> FALSE],
                       method |-> CommandMethod(about, Parse(about, args))]
        /\ Settle(CommandVerdict(about, Parse(about, args), terminal))
  BY <1>1 DEF Command
<1>3. PICK args \in [1..n -> Tokens(about)] :
        /\ request' = [from |-> "cli", cmd |-> [command |-> about, args |-> args, typed |-> FALSE],
                       method |-> CommandMethod(about, Parse(about, args))]
        /\ Settle(CommandVerdict(about, Parse(about, args), terminal))
  BY <1>2
<1>4. PICK given : given = CommandVerdict(about, Parse(about, args), terminal)
  OBVIOUS
<1>5. /\ request'.from = "cli" /\ request'.cmd.command = about /\ request'.cmd.args = args
      /\ "call" \notin DOMAIN request'
  BY <1>3
<1>6. ASSUME given = "confirmation_required" PROVE Resent' = "call"
  <2>1. args \in Seq(Tokens(about))
    BY <1>2, <1>3, FrontEndsAssumption
  <2>2. CommandVerdict(about, Parse(about, <<Flag("--yes")>> \o args), FALSE) = "call"
    BY <1>4, <1>6, <2>1, CommandRepeated
  <2>3. Resent' = CommandVerdict(about, Parse(about, <<Flag("--yes")>> \o args), FALSE)
    <3>1. Resent' = CommandVerdict(request'.cmd.command, Parse(request'.cmd.command, <<Flag("--yes")>> \o request'.cmd.args), FALSE)
      BY <1>5 DEF Resent
    <3>2. QED BY <1>5, <3>1, Zenon
  <2>4. QED BY <2>2, <2>3
<1>7. Settle(given)
  BY <1>3, <1>4
<1>8. QED BY <1>5, <1>6, <1>7, RequestSettled

LEMMA MessageSettled ==
  ASSUME NEW e, NEW framed, NEW call, IsCall(call), Message(e, framed, call)
  PROVE  RequestInv'
<1>1. PICK given : given = IF HandleLine(e) = "tool" THEN Verdict(call) ELSE "protocol"
  OBVIOUS
<1>2. request'.from = "mcp" /\ request'.call = call /\ reply'.kind = HandleLine(e)
  BY DEF Message
<1>3. Settle(given)
  BY <1>1 DEF Message
<1>4. given # "prompt"
  BY <1>1 DEF Verdict
<1>5. ASSUME given = "confirmation_required" PROVE Resent' = "call"
  <2>1. Verdict(call) = "confirmation_required"
    BY <1>1, <1>5
  <2>2. Verdict([call EXCEPT !.args = [n \in DOMAIN @ \cup {"yes"} |-> IF n = "yes" THEN "yes" ELSE @[n]]]) = "call"
    BY <2>1, CallRepeated
  <2>3. Resent' = Verdict([request'.call EXCEPT !.args = [n \in DOMAIN @ \cup {"yes"} |-> IF n = "yes" THEN "yes" ELSE @[n]]])
    BY <1>2 DEF Resent
  <2>4. QED BY <1>2, <2>2, <2>3, Zenon
<1>6. QED BY <1>1, <1>2, <1>3, <1>4, <1>5, RequestSettled

LEMMA HttpSettled ==
  ASSUME RequestInv, HttpRequest
  PROVE  RequestInv'
<1>1. PICK req \in RequestsOf(request.about) :
        request' = [from |-> "http", req |-> req, method |-> HttpMethod(req)] /\ Settle(HttpVerdict(req))
  BY DEF HttpRequest
<1>2. IsRequest(req)
  BY <1>1, FrontEndsAssumption DEF HttpRequest, RequestInv
<1>3. "call" \notin DOMAIN request' /\ request'.from = "http" /\ request'.req = req /\ origin' = origin
  BY <1>1 DEF HttpRequest
<1>4. ASSUME HttpVerdict(req) = "confirmation_required" PROVE Resent' = "call"
  <2>1. HttpVerdict([req EXCEPT !.yes = "yes"]) = "call"
    BY <1>2, <1>4, HttpRepeated
  <2>2. Resent' = HttpVerdict([req EXCEPT !.yes = "yes"])
    BY <1>3 DEF Resent, HttpVerdict
  <2>3. QED BY <2>1, <2>2
<1>5. QED BY <1>1, <1>3, <1>4, RequestSettled

\* A step that forgets the request, or keeps less of it.
LEMMA RequestDropped ==
  ASSUME RequestInv, stage' # "reading", "call" \notin DOMAIN request', verdict' # "confirmation_required"
  PROVE  RequestInv'
BY DEF RequestInv

\* A step of the Service or of a terminal that keeps the request.
LEMMA RequestKept ==
  ASSUME RequestInv, stage \notin {"answered"}, UNCHANGED <<request, verdict, reply>>,
         stage' # "reading", stage \in {"idle", "reading", "prompting"} \/ stage' \notin {"idle", "reading", "prompting"}
  PROVE  RequestInv'
<1>1. verdict # "confirmation_required"
  BY DEF RequestInv
<1>2. Verdict(request.call)' = Verdict(request.call)
  BY Zenon
<1>3. QED BY <1>1, <1>2 DEF RequestInv

LEMMA RequestStep == RequestInv /\ [Next]_vars => RequestInv'
<1> SUFFICES ASSUME RequestInv, [Next]_vars PROVE RequestInv'
  OBVIOUS
<1>1. ASSUME NEW subject, About(subject),
             front' = "mcp" => subject \in ToolNames \cup {"no_such_tool"},
             front' = "http" => subject \in ReadPaths \cup MutationPaths \cup {"/elsewhere"}
      PROVE  RequestInv'
  <2>1. stage = "idle" /\ stage' = "reading" /\ request' = [from |-> front', about |-> subject] /\ verdict' = verdict
    BY <1>1 DEF About
  <2>2. QED BY <1>1, <2>1 DEF RequestInv
<1>2. CASE \E command \in CommandNames : Main(command)
  BY <1>1, <1>2 DEF Main
<1>3. CASE \E tool \in ToolNames \cup {"no_such_tool"} : CallTool(tool)
  BY <1>1, <1>3 DEF CallTool
<1>4. CASE \E path \in ReadPaths \cup MutationPaths \cup {"/elsewhere"} : Path(path)
  BY <1>1, <1>4 DEF Path
<1>5. CASE Command
  BY <1>5, CommandSettled
<1>6. CASE AnyMessage
  <2>1. PICK e \in Envelopes, framed \in BOOLEAN : Message(e, framed, PlainCall)
    BY <1>6 DEF AnyMessage
  <2>2. IsCall(PlainCall)
    BY DEF IsCall, PlainCall, NoProperties
  <2>3. QED BY <2>1, <2>2, MessageSettled
<1>7. CASE ToolMessage
  <2>1. PICK call \in CallsOf(request.about) :
          Message(ToolCall("value"), FALSE, call) \/ Message(ToolCall("absent"), FALSE, call)
    BY <1>7 DEF ToolMessage
  <2>2. IsCall(call)
    BY <1>7, <2>1, FrontEndsAssumption DEF ToolMessage, RequestInv
  <2>3. QED BY <2>1, <2>2, MessageSettled
<1>8. CASE HttpRequest
  BY <1>8, HttpSettled
<1>9. CASE \E line \in {"y", "yes", "n", ""} : Prompt(line)
  <2>1. PICK line : Prompt(line)
    BY <1>9
  <2>2. stage = "prompting" /\ "call" \notin DOMAIN request
    BY <2>1 DEF Prompt, RequestInv
  <2>3. DOMAIN request' = DOMAIN request
    BY <2>1 DEF Prompt
  <2>4. verdict' # "confirmation_required" /\ stage' # "reading"
    BY <2>1 DEF Prompt
  <2>5. QED BY <2>2, <2>3, <2>4, RequestDropped
<1>10. CASE \E host \in {"localhost", "127.0.0.1", "", "example.org"}, allowed \in {"none", "http_origin", "*"} : Listen(host, allowed)
  <2>1. stage' = "idle" /\ request' = NoRequest /\ verdict' = "none"
    BY <1>10 DEF Listen
  <2>2. QED BY <2>1, RequestDropped DEF NoRequest
<1>11. CASE StartMcp \/ SessionEnds \/ Shutdown
  <2>1. stage = "idle" /\ UNCHANGED <<stage, request, verdict, reply>>
    BY <1>11 DEF StartMcp, SessionEnds, Shutdown
  <2>2. QED BY <2>1, RequestKept
<1>12. CASE ServiceChanges \/ ServiceReturns \/ RunRefuses \/ RunReturns \/ OcrRunReturns \/ InstallReturns \/ InstallGoesOn
  <2>1. /\ stage \in {"serving", "running", "reading_text", "installing"}
        /\ stage' \in {"serving", "running", "reading_text", "installing", "answered"}
        /\ UNCHANGED <<request, verdict, reply>>
    BY <1>12 DEF ServiceChanges, ServiceReturns, RunRefuses, RunReturns, OcrRunReturns, InstallReturns, InstallGoesOn
  <2>2. QED BY <2>1, RequestKept
<1>13. CASE RunStarts \/ OcrRunStarts \/ InstallStarts
  <2>1. /\ stage = "serving" /\ stage' # "reading" /\ verdict' = verdict
        /\ \E method : request' = [from |-> request.from, method |-> method, consent |-> Consent]
    BY <1>13 DEF RunStarts, OcrRunStarts, InstallStarts
  <2>2. "call" \notin DOMAIN request'
    BY <2>1
  <2>3. verdict # "confirmation_required"
    BY <2>1 DEF RequestInv
  <2>4. QED BY <2>1, <2>2, <2>3, RequestDropped
<1>14. CASE Running \/ OcrRunning \/ OtherProcesses
  <2>1. stage \in {"running", "reading_text"} /\ UNCHANGED <<stage, request, verdict, reply>>
    BY <1>14 DEF Running, OcrRunning, OtherProcesses, frontVars
  <2>2. QED BY <2>1, RequestKept
<1>15. CASE Done
  <2>1. stage' = "idle" /\ request' = NoRequest /\ verdict' = "none"
    BY <1>15 DEF Done
  <2>2. QED BY <2>1, RequestDropped DEF NoRequest
<1>16. CASE UNCHANGED vars
  <2>1. UNCHANGED <<front, stage, origin, request, verdict, reply>>
    BY <1>16 DEF vars, frontVars
  <2>2. Resent' = Resent
    BY <2>1, Zenon DEF Resent, HttpVerdict
  <2>3. Verdict(request.call)' = Verdict(request.call)
    BY <2>1, Zenon
  <2>4. QED BY <2>1, <2>2, <2>3 DEF RequestInv
<1>17. QED
  BY <1>2, <1>3, <1>4, <1>5, <1>6, <1>7, <1>8, <1>9, <1>10, <1>11, <1>12, <1>13, <1>14, <1>15, <1>16, Zenon DEF Next

LEMMA RequestInvHolds == Spec => []RequestInv
BY RequestInvStart, RequestStep, PTL DEF Spec

\* A request refused for want of a confirmation, a command line, a tool call or a POST,
\* reaches the Service when it is sent again with nothing but the confirmation added:
\* whatever else is wrong with a request is told first.
THEOREM ConfirmationSuffices == Spec => []ConfirmationIsLast
<1>1. RequestInv => ConfirmationIsLast
  BY DEF RequestInv, ConfirmationIsLast
<1>2. QED BY <1>1, RequestInvHolds, PTL

\* The schemas of tools() and the cases of callTool agree for every tool and every
\* arguments: what a schema allows is not refused as invalid, what is served, as far as
\* it is looked at, the schema allows.
THEOREM SchemasAreTrue == Spec => []SchemasTellCalls
<1>1. RequestInv => SchemasTellCalls
  <2> SUFFICES ASSUME RequestInv, Tool PROVE
        /\ SchemaAccepts(Schemas[request.call.tool], request.call.args) /\ Sensible(request.call) => verdict # "invalid_argument"
        /\ verdict # "invalid_argument" => SchemaAccepts(Schemas[request.call.tool], Given(request.call))
    BY DEF SchemasTellCalls
  <2>1. PICK call : call = request.call
    OBVIOUS
  <2>2. verdict = Verdict(call) /\ verdict # "unknown_tool"
    BY <2>1 DEF RequestInv, Tool
  <2>3. call.tool \in ToolNames
    BY <2>2 DEF Verdict
  <2>4. verdict = "invalid_argument" <=> ~Readable(call)
    BY <2>2, <2>3 DEF Verdict
  <2>5. SchemaAccepts(Schemas[call.tool], call.args) /\ Sensible(call) => Readable(call)
    BY <2>3, AllowedIsRead
  <2>6. Readable(call) => SchemaAccepts(Schemas[call.tool], Given(call))
    BY <2>3, ReadIsAllowed
  <2>7. QED BY <2>1, <2>4, <2>5, <2>6
<1>2. QED BY <1>1, RequestInvHolds, PTL

-----------------------------------------------------------------------------
(* Folds over the elements of a sequence, one step for each.                *)

\* A fold over the first elements exists.
Steppable(n, A, base, F) == n \in Nat /\ base \in A /\ \A x \in 1..n, a \in A : F[<<x, a>>] \in A

Stepped(n, A, base, F) ==
  \E h \in [SUBSET (1..n) -> A] : \A s \in SUBSET (1..n) :
    IF s = {} THEN h[s] = base ELSE Max(s) \in 1..n /\ h[s] = F[<<Max(s), h[s \ {Max(s)}]>>]

LEMMA FoldSteps ==
  ASSUME NEW n, NEW A, NEW base, NEW F, Steppable(n, A, base, F)
  PROVE  Stepped(n, A, base, F)
<1>0. n \in Nat /\ base \in A /\ \A x \in 1..n, a \in A : F[<<x, a>>] \in A
  BY DEF Steppable
<1> DEFINE D == 1..n
           m == [s \in SUBSET D |-> Max(s)]
<1>1. IsFiniteSet(D)
  <2>1. 1 \in Int /\ n \in Int
    BY <1>0
  <2>2. QED BY <2>1, FS_Interval
<1>2. \A s \in SUBSET D : s # {} => m[s] \in s /\ m[s] = Max(s)
  BY <1>0, LargestIn
<1>3. Foldable(D, A, base, m, F)
  <2> HIDE DEF D, m
  <2>1. \A x \in D, a \in A : F[<<x, a>>] \in A
    BY <1>0 DEF D
  <2>2. QED BY <1>0, <1>1, <1>2, <2>1 DEF Foldable
<1>4. PICK h \in [SUBSET D -> A] : \A s \in SUBSET D : h[s] = IF s = {} THEN base ELSE F[<<m[s], h[s \ {m[s]}]>>]
  <2>1. Folded(D, A, base, m, F)
    BY <1>3, FoldExists
  <2>2. QED BY <2>1 DEF Folded
<1>5. QED BY <1>2, <1>4 DEF Stepped

\* What holds at the start and is kept by every step holds to the end.
LEMMA StepsInduction ==
  ASSUME NEW n \in Nat, NEW T, 0 \in T, \A k \in 1..n : k - 1 \in T => k \in T
  PROVE  0..n \subseteq T
<1> DEFINE N == {k \in Nat : k <= n => k \in T}
<1>1. 0 \in N
  OBVIOUS
<1>2. ASSUME NEW k \in N PROVE k + 1 \in N
  <2> SUFFICES ASSUME k + 1 <= n PROVE k + 1 \in T
    OBVIOUS
  <2>1. k \in T /\ k + 1 \in 1..n /\ (k + 1) - 1 = k
    OBVIOUS
  <2>2. QED BY <2>1
<1>3. N = Nat
  <2>1. N \in SUBSET Nat
    OBVIOUS
  <2> HIDE DEF N
  <2>2. QED BY <1>1, <1>2, <2>1, Induction
<1>4. QED BY <1>3

-----------------------------------------------------------------------------
(* takeStringFlag, token by token.                                          *)

NoToken == [kept |-> <<>>, wants |-> FALSE, value |-> NoText]

PassSteps(args, name, known, g) ==
  /\ g[0] = NoToken
  /\ \A k \in 1..Len(args) : g[k] = TakeToken(name, known, g[k - 1], args[k])
  /\ TakePass(args, name, known) = g[Len(args)]

\* What a pass over tokens of S has: tokens of S and values of theirs.
Values(S) == {NoText} \cup {Text(t) : t \in S} \cup {t.value : t \in S}
PassOf(S) == [kept : Seq(S), wants : BOOLEAN, value : Values(S)]

LEMMA TakeTokenType ==
  ASSUME NEW S, NEW name, NEW known, Mark("missing", name) \in S, NEW pass \in PassOf(S), NEW t \in S
  PROVE  TakeToken(name, known, pass, t) \in PassOf(S)
<1> DEFINE missing == Mark("missing", name)
<1>1. Text(t) \in Values(S) /\ t.value \in Values(S) /\ NoText \in Values(S)
  BY DEF Values
<1>2. pass.kept \in Seq(S) /\ pass.wants \in BOOLEAN /\ pass.value \in Values(S)
      /\ pass = [kept |-> pass.kept, wants |-> pass.wants, value |-> pass.value]
  BY DEF PassOf
<1>3. \A s \in Seq(S), x \in S : Append(s, x) \in Seq(S)
  BY AppendProperties
<1>4. PICK V : V = Values(S)
  OBVIOUS
<1>5. missing \in S
  OBVIOUS
<1>6. PICK text : text = Text(t)
  OBVIOUS
<1> HIDE DEF missing
<1>7. QED BY <1>1, <1>2, <1>3, <1>4, <1>5, <1>6 DEF TakeToken, PassOf, missing


LEMMA TakePassRead ==
  ASSUME NEW S, NEW args \in Seq(S), NEW name, NEW known, Mark("missing", name) \in S
  PROVE  (\E g : PassSteps(args, name, known, g)) /\ TakePass(args, name, known) \in PassOf(S)
<1> DEFINE n == Len(args)
           D == DOMAIN args
           A == PassOf(S)
           Step(pass, t) == TakeToken(name, known, pass, t)
           F == [x \in (1..n) \X A |-> Step(x[2], args[x[1]])]
           Iter(it) == it = [s \in SUBSET D |-> IF s = {} THEN NoToken ELSE Step(it[s \ {Max(s)}], args[Max(s)])]
           iter == CHOOSE it : Iter(it)
<1>1. TakePass(args, name, known) = iter[D]
  BY DEF TakePass, FoldLeft, MapThenFoldSet, NoToken
<1>2. D = 1..n /\ n \in Nat /\ \A x \in 1..n : args[x] \in S
  OBVIOUS
<1>3. NoToken \in A
  BY DEF NoToken, PassOf, Values
<1>4. \A pass \in A, t \in S : Step(pass, t) \in A
  BY TakeTokenType
<1>5. \A x \in 1..n, a \in A : F[<<x, a>>] = Step(a, args[x]) /\ F[<<x, a>>] \in A
  <2> HIDE DEF Step, A
  <2> QED BY <1>2, <1>4
<1>6. Iter(iter)
  <2> HIDE DEF F, A, n
  <2>1. PICK h \in [SUBSET (1..n) -> A] : \A s \in SUBSET (1..n) :
           IF s = {} THEN h[s] = NoToken ELSE Max(s) \in 1..n /\ h[s] = F[<<Max(s), h[s \ {Max(s)}]>>]
    <3> HIDE DEF Step
    <3>1. Steppable(n, A, NoToken, F)
      BY <1>2, <1>3, <1>5 DEF Steppable
    <3>2. Stepped(n, A, NoToken, F)
      BY <3>1, FoldSteps
    <3>3. QED BY <3>2 DEF Stepped
  <2> HIDE DEF Step
  <2>2. \A s \in SUBSET (1..n) : s # {} => h[s] = Step(h[s \ {Max(s)}], args[Max(s)])
    BY <1>5, <2>1
  <2>3. Iter(h)
    BY <1>2, <2>1, <2>2
  <2> HIDE DEF Iter
  <2>4. QED BY <2>3
<1>7. \A s \in SUBSET (1..n) : iter[s] = IF s = {} THEN NoToken ELSE Step(iter[s \ {Max(s)}], args[Max(s)])
  <2> HIDE DEF iter, Step
  <2> QED BY <1>2, <1>6
<1> HIDE DEF iter, Iter, F
<1> DEFINE g == [k \in 0..n |-> iter[1..k]]
<1>8. ASSUME NEW k \in 1..n PROVE g[k] = Step(g[k - 1], args[k])
  <2> HIDE DEF Step
  <2>1. Max(1..k) = k /\ (1..k) \ {k} = 1..(k - 1) /\ 1..k \in SUBSET (1..n) /\ 1..k # {}
    BY <1>2, FirstElements
  <2>2. iter[1..k] = Step(iter[(1..k) \ {Max(1..k)}], args[Max(1..k)])
    BY <1>7, <2>1
  <2>3. QED BY <1>2, <2>1, <2>2
<1>9. g[0] = NoToken /\ g[n] = iter[D]
  <2> HIDE DEF Step
  <2>1. 1..0 = {} /\ {} \in SUBSET (1..n) /\ 0 \in 0..n /\ n \in 0..n
    BY <1>2
  <2>2. iter[{}] = NoToken
    BY <1>7, <2>1
  <2>3. g[0] = iter[1..0] /\ g[n] = iter[1..n]
    BY <2>1
  <2>4. QED BY <1>2, <2>1, <2>2, <2>3, Zenon
<1> HIDE DEF g
<1>10. PassSteps(args, name, known, g)
  BY <1>1, <1>8, <1>9 DEF PassSteps
<1>11. 0..n \subseteq {k \in 0..n : g[k] \in A}
  <2> DEFINE T == {k \in 0..n : g[k] \in A}
  <2> HIDE DEF Step, A
  <2>1. 0 \in T
    BY <1>2, <1>3, <1>9
  <2>2. \A k \in 1..n : k - 1 \in T => k \in T
    BY <1>2, <1>4, <1>8
  <2> HIDE DEF T
  <2>3. 0..n \subseteq T
    BY <1>2, <2>1, <2>2, StepsInduction
  <2>4. QED BY <2>3 DEF T
<1>12. TakePass(args, name, known) \in A
  BY <1>1, <1>2, <1>9, <1>11
<1>13. QED BY <1>10, <1>12

\* A pass over one token more goes one step further.
LEMMA TakePassAppend ==
  ASSUME NEW S, NEW args \in Seq(S), NEW t \in S, NEW name, NEW known, Mark("missing", name) \in S
  PROVE  TakePass(Append(args, t), name, known) = TakeToken(name, known, TakePass(args, name, known), t)
<1> DEFINE n == Len(args)
<1>1. PICK more : more = Append(args, t)
  OBVIOUS
<1>0. more \in Seq(S) /\ Len(more) = n + 1 /\ more[n + 1] = t /\ \A k \in 1..n : more[k] = args[k]
  BY <1>1, AppendProperties
<1>2. PICK g : PassSteps(args, name, known, g)
  BY TakePassRead
<1>3. PICK h : PassSteps(more, name, known, h)
  BY <1>0, TakePassRead
<1> DEFINE T == {k \in 0..n : h[k] = g[k]}
<1>4. n \in Nat
  OBVIOUS
<1>5. 0..n \subseteq T
  <2>1. 0 \in T
    BY <1>2, <1>3, <1>4 DEF PassSteps
  <2>2. \A k \in 1..n : k - 1 \in T => k \in T
    BY <1>0, <1>2, <1>3, <1>4 DEF PassSteps
  <2> HIDE DEF T
  <2>3. QED BY <1>4, <2>1, <2>2, StepsInduction
<1>6. h[n] = g[n] /\ h[n + 1] = TakeToken(name, known, h[n], t)
  BY <1>0, <1>3, <1>4, <1>5 DEF PassSteps
<1>7. QED BY <1>0, <1>1, <1>2, <1>3, <1>6 DEF PassSteps

LEMMA TakePassEmpty ==
  ASSUME NEW name, NEW known
  PROVE  TakePass(<<>>, name, known) = NoToken
<1>1. PICK S : S = {Mark("missing", name)}
  OBVIOUS
<1>2. <<>> \in Seq(S) /\ Len(<<>>) = 0 /\ Mark("missing", name) \in S
  BY <1>1
<1>3. PICK g : PassSteps(<<>>, name, known, g)
  BY <1>2, TakePassRead
<1>4. QED BY <1>2, <1>3 DEF PassSteps


-----------------------------------------------------------------------------
(* The passes of a command, one after the other.                            *)

\* The marks the passes for some flags may leave.
Marks(names) == {Mark(kind, name) : kind \in {"missing", "invalid"}, name \in names}

LEMMA TakenType ==
  ASSUME NEW S, NEW args \in Seq(S), NEW names, NEW name \in names, NEW known, Marks(names) \subseteq S
  PROVE  /\ CheckNumber(TakeString(args, name, known), args, name).kept \in Seq(S)
         /\ CheckNumber(TakeString(args, name, known), args, name).value \in Values(S)
<1>1. Mark("missing", name) \in S /\ Mark("invalid", name) \in S
  BY DEF Marks
<1>2. PICK pass \in PassOf(S) : pass = TakePass(args, name, known)
  BY <1>1, TakePassRead
<1>3. PICK V : V = Values(S) /\ NoText \in V
  BY DEF Values
<1>4. pass.kept \in Seq(S) /\ pass.value \in V
  BY <1>2, <1>3 DEF PassOf
<1>5. \A s \in Seq(S), x \in S : Append(s, x) \in Seq(S)
  BY AppendProperties
<1>6. PICK taken : taken = TakeString(args, name, known)
  OBVIOUS
<1>7. taken.kept \in Seq(S) /\ taken.value \in V
  <2>1. taken.kept = IF pass.wants THEN Append(pass.kept, Mark("missing", name)) ELSE pass.kept
    BY <1>2, <1>6 DEF TakeString
  <2>2. taken.value = pass.value
    BY <1>2, <1>6 DEF TakeString
  <2>3. QED BY <1>1, <1>4, <1>5, <2>1, <2>2
<1>8. PICK checked : checked = CheckNumber(taken, args, name)
  OBVIOUS
<1>9. \/ checked = taken
      \/ checked.kept \in {Append(taken.kept, Mark("missing", name)), Append(taken.kept, Mark("invalid", name))} /\ checked.value = NoText
  BY <1>8 DEF CheckNumber
<1>10. checked.kept \in Seq(S) /\ checked.value \in V
  BY <1>1, <1>3, <1>5, <1>7, <1>9
<1>11. QED BY <1>3, <1>6, <1>8, <1>10

FlagSteps(c, given, p) ==
  /\ p[0] = TakeSwitches(c, given)
  /\ \A j \in 1..Len(c.values) : p[j] = TakeFlag(c, p[j - 1], c.values[j])
  /\ Passes(c, given) = p[Len(c.values)]

\* What the passes have taken so far.
PartialTables(names, V) == UNION {[some -> V] : some \in SUBSET names}
ReadSoFar(c, S, switches) == [switches : {switches}, values : PartialTables(ToSet(c.values), Values(S)), rest : Seq(S)]

LEMMA TakeFlagType ==
  ASSUME NEW c, NEW S, Marks(ToSet(c.values)) \subseteq S, NEW switches, NEW p \in ReadSoFar(c, S, switches),
         NEW name \in ToSet(c.values)
  PROVE  TakeFlag(c, p, name) \in ReadSoFar(c, S, switches)
<1>1. p.rest \in Seq(S) /\ p.switches = switches /\ p = [switches |-> p.switches, values |-> p.values, rest |-> p.rest]
  BY DEF ReadSoFar
<1>2. PICK some \in SUBSET ToSet(c.values) : p.values \in [some -> Values(S)]
  BY DEF ReadSoFar, PartialTables
<1>3. PICK taken : taken = CheckNumber(TakeString(p.rest, name, c.known), p.rest, name)
  OBVIOUS
<1>4. taken.kept \in Seq(S) /\ taken.value \in Values(S)
  <2> HIDE DEF Marks
  <2>1. PICK rest \in Seq(S) : rest = p.rest
    BY <1>1
  <2>2. PICK names : names = ToSet(c.values)
    OBVIOUS
  <2>3. QED BY <1>3, <2>1, <2>2, TakenType
<1>5. PICK more : more = [n \in DOMAIN p.values \cup {name} |-> IF n = name THEN taken.value ELSE p.values[n]]
  OBVIOUS
<1>6. more \in [some \cup {name} -> Values(S)]
  <2>1. DOMAIN p.values = some /\ \A n \in some : p.values[n] \in Values(S)
    BY <1>2
  <2>2. QED BY <1>4, <1>5, <2>1
<1>7. more \in PartialTables(ToSet(c.values), Values(S))
  <2>1. some \cup {name} \in SUBSET ToSet(c.values)
    OBVIOUS
  <2>2. QED BY <1>6, <2>1 DEF PartialTables
<1>8. TakeFlag(c, p, name) = [p EXCEPT !.rest = taken.kept, !.values = more]
  BY <1>3, <1>5 DEF TakeFlag
<1>9. TakeFlag(c, p, name) = [switches |-> switches, values |-> more, rest |-> taken.kept]
  BY <1>1, <1>8
<1>10. QED BY <1>4, <1>7, <1>9 DEF ReadSoFar

LEMMA WithoutType ==
  ASSUME NEW S, NEW args \in Seq(S), NEW switches
  PROVE  Without(args, switches) \in Seq(S)
<1>1. PICK g : WithoutSteps(args, switches, g)
  BY WithoutRead
<1> DEFINE n == Len(args)
           T == {k \in 0..n : g[k] \in Seq(S)}
<1>2. n \in Nat
  OBVIOUS
<1>3. \A s \in Seq(S), x \in S : Append(s, x) \in Seq(S)
  BY AppendProperties
<1>4. 0 \in T
  <2>1. g[0] = <<>> /\ <<>> \in Seq(S) /\ 0 \in 0..n
    BY <1>1, <1>2 DEF WithoutSteps
  <2>2. QED BY <2>1
<1>5. ASSUME NEW k \in 1..n, k - 1 \in T PROVE k \in T
  <2>1. args[k] \in S /\ g[k - 1] \in Seq(S) /\ k \in 0..n
    BY <1>2, <1>5
  <2>2. g[k] = IF FlagIn(args[k], switches) THEN g[k - 1] ELSE Append(g[k - 1], args[k])
    BY <1>1 DEF WithoutSteps
  <2>3. g[k] \in Seq(S)
    BY <1>3, <2>1, <2>2
  <2>4. QED BY <2>1, <2>3
<1>6. 0..n \subseteq T
  <2> HIDE DEF T
  <2> QED BY <1>2, <1>4, <1>5, StepsInduction
<1>7. QED BY <1>1, <1>2, <1>6 DEF WithoutSteps

LEMMA PassesSteps ==
  ASSUME NEW c, NEW S, NEW given \in Seq(S), Marks(ToSet(c.values)) \subseteq S, c.values \in Seq(ToSet(c.values))
  PROVE  \E g : FlagSteps(c, given, g)
<1> DEFINE n == Len(c.values)
           D == DOMAIN c.values
           A == ReadSoFar(c, S, TakeSwitches(c, given).switches)
           Step(p, name) == TakeFlag(c, p, name)
           F == [x \in (1..n) \X A |-> Step(x[2], c.values[x[1]])]
           Iter(it) == it = [s \in SUBSET D |-> IF s = {} THEN TakeSwitches(c, given) ELSE Step(it[s \ {Max(s)}], c.values[Max(s)])]
           iter == CHOOSE it : Iter(it)
<1>1. Passes(c, given) = iter[D]
  BY DEF Passes, FoldLeft, MapThenFoldSet
<1>2. D = 1..n /\ n \in Nat /\ \A x \in 1..n : c.values[x] \in ToSet(c.values)
  OBVIOUS
<1>3. TakeSwitches(c, given) \in A
  <2>1. PICK h : WithoutSteps(given, c.switches, h)
    BY WithoutRead
  <2>2. Without(given, c.switches) \in Seq(S)
    BY WithoutType
  <2>3. [v \in {} |-> NoText] \in PartialTables(ToSet(c.values), Values(S))
    <3>1. [v \in {} |-> NoText] \in [{} -> Values(S)] /\ {} \in SUBSET ToSet(c.values)
      OBVIOUS
    <3>2. QED BY <3>1 DEF PartialTables
  <2>4. QED BY <2>2, <2>3 DEF TakeSwitches, ReadSoFar
<1>4. \A p \in A, name \in ToSet(c.values) : Step(p, name) \in A
  BY TakeFlagType
<1>5. \A x \in 1..n, a \in A : F[<<x, a>>] = Step(a, c.values[x]) /\ F[<<x, a>>] \in A
  <2> HIDE DEF Step, A
  <2> QED BY <1>2, <1>4
<1>6. Iter(iter)
  <2> HIDE DEF F, A, n
  <2>1. PICK h \in [SUBSET (1..n) -> A] : \A s \in SUBSET (1..n) :
           IF s = {} THEN h[s] = TakeSwitches(c, given) ELSE Max(s) \in 1..n /\ h[s] = F[<<Max(s), h[s \ {Max(s)}]>>]
    <3> HIDE DEF Step
    <3>1. Steppable(n, A, TakeSwitches(c, given), F)
      BY <1>2, <1>3, <1>5 DEF Steppable
    <3>2. Stepped(n, A, TakeSwitches(c, given), F)
      BY <3>1, FoldSteps
    <3>3. QED BY <3>2 DEF Stepped
  <2> HIDE DEF Step
  <2>2. \A s \in SUBSET (1..n) : s # {} => h[s] = Step(h[s \ {Max(s)}], c.values[Max(s)])
    BY <1>5, <2>1
  <2>3. Iter(h)
    BY <1>2, <2>1, <2>2
  <2> HIDE DEF Iter
  <2>4. QED BY <2>3
<1>7. \A s \in SUBSET (1..n) : iter[s] = IF s = {} THEN TakeSwitches(c, given) ELSE Step(iter[s \ {Max(s)}], c.values[Max(s)])
  <2> HIDE DEF iter, Step
  <2> QED BY <1>2, <1>6
<1> HIDE DEF iter, Iter, F
<1> DEFINE g == [k \in 0..n |-> iter[1..k]]
<1>8. ASSUME NEW k \in 1..n PROVE g[k] = Step(g[k - 1], c.values[k])
  <2> HIDE DEF Step
  <2>1. Max(1..k) = k /\ (1..k) \ {k} = 1..(k - 1) /\ 1..k \in SUBSET (1..n) /\ 1..k # {}
    BY <1>2, FirstElements
  <2>2. iter[1..k] = Step(iter[(1..k) \ {Max(1..k)}], c.values[Max(1..k)])
    BY <1>7, <2>1
  <2>3. k \in 0..n /\ k - 1 \in 0..n
    BY <1>2
  <2>4. g[k] = iter[1..k] /\ g[k - 1] = iter[1..(k - 1)]
    BY <2>3
  <2>5. QED BY <2>1, <2>2, <2>4, Zenon
<1>9. g[0] = TakeSwitches(c, given) /\ g[n] = iter[D]
  <2> HIDE DEF Step
  <2>1. 1..0 = {} /\ {} \in SUBSET (1..n) /\ 0 \in 0..n /\ n \in 0..n
    BY <1>2
  <2>2. iter[{}] = TakeSwitches(c, given)
    BY <1>7, <2>1
  <2>3. g[0] = iter[1..0] /\ g[n] = iter[1..n]
    BY <2>1
  <2>4. QED BY <1>2, <2>1, <2>2, <2>3, Zenon
<1> HIDE DEF g
<1>10. FlagSteps(c, given, g)
  BY <1>1, <1>8, <1>9 DEF FlagSteps
<1>11. QED BY <1>10

-----------------------------------------------------------------------------
(* Reading from left to right, token by token.                              *)

NothingRead(c) ==
  [ok |-> TRUE, flag |-> NoText, switches |-> {}, values |-> [v \in ToSet(c.values) |-> NoText], rest |-> <<>>]

WordSteps(c, given, r) ==
  /\ r[0] = NothingRead(c)
  /\ \A k \in 1..Len(given) : r[k] = ReadToken(c, r[k - 1], given[k])
  /\ LeftToRight(c, given) = r[Len(given)]

ReadingOf(c, S) ==
  [ok : BOOLEAN, flag : {NoText} \cup ToSet(c.values), switches : SUBSET c.switches,
   values : [ToSet(c.values) -> Values(S)], rest : Seq(S)]

LEMMA ReadTokenType ==
  ASSUME NEW c, c.switches \cap ToSet(c.values) = {}, NEW S, NEW r \in ReadingOf(c, S), NEW t \in S
  PROVE  ReadToken(c, r, t) \in ReadingOf(c, S)
<1>1. Text(t) \in Values(S) /\ t.value \in Values(S)
  BY DEF Values
<1>2. PICK V : V = Values(S)
  OBVIOUS
<1>3. PICK names : names = ToSet(c.values)
  OBVIOUS
<1>0. \A ok \in BOOLEAN, flag \in {NoText} \cup names, switches \in SUBSET c.switches, values \in [names -> V], rest \in Seq(S) :
        [ok |-> ok, flag |-> flag, switches |-> switches, values |-> values, rest |-> rest] \in ReadingOf(c, S)
  <2>1. ReadingOf(c, S) = [ok : BOOLEAN, flag : {NoText} \cup names, switches : SUBSET c.switches, values : [names -> V], rest : Seq(S)]
    BY <1>2, <1>3 DEF ReadingOf
  <2>2. QED BY <2>1
<1>4. PICK text \in V : text = Text(t)
  BY <1>1, <1>2
<1>5. Append(r.rest, t) \in Seq(S)
  BY AppendProperties DEF ReadingOf
<1>6. \A v \in V, n \in names : [r.values EXCEPT ![n] = v] \in [names -> V]
  BY <1>2, <1>3 DEF ReadingOf
<1>7. /\ r = [ok |-> r.ok, flag |-> r.flag, switches |-> r.switches, values |-> r.values, rest |-> r.rest]
      /\ r.ok \in BOOLEAN /\ r.flag \in {NoText} \cup names /\ r.switches \in SUBSET c.switches /\ r.rest \in Seq(S)
      /\ r.values \in [names -> V]
  BY <1>2, <1>3 DEF ReadingOf
<1>8. CASE r.flag # NoText
  <2>1. \/ ReadToken(c, r, t) = [r EXCEPT !.ok = FALSE, !.flag = NoText]
        \/ ReadToken(c, r, t) = [r EXCEPT !.values = [r.values EXCEPT ![r.flag] = text], !.flag = NoText]
    BY <1>4, <1>8 DEF ReadToken, ReadValue
  <2>2. CASE ReadToken(c, r, t) = [r EXCEPT !.ok = FALSE, !.flag = NoText]
    <3>1. ReadToken(c, r, t) = [ok |-> FALSE, flag |-> NoText, switches |-> r.switches, values |-> r.values, rest |-> r.rest]
      BY <1>7, <2>2
    <3>2. FALSE \in BOOLEAN /\ NoText \in {NoText} \cup names
      OBVIOUS
    <3>3. [ok |-> FALSE, flag |-> NoText, switches |-> r.switches, values |-> r.values, rest |-> r.rest] \in ReadingOf(c, S)
      BY <1>0, <1>7, <3>2
    <3>4. QED BY <3>1, <3>3
  <2>3. CASE ReadToken(c, r, t) = [r EXCEPT !.values = [r.values EXCEPT ![r.flag] = text], !.flag = NoText]
    <3>1. PICK table \in [names -> V] : table = [r.values EXCEPT ![r.flag] = text]
      BY <1>6, <1>7, <1>8
    <3>2. ReadToken(c, r, t) = [ok |-> r.ok, flag |-> NoText, switches |-> r.switches, values |-> table, rest |-> r.rest]
      BY <1>7, <2>3, <3>1
    <3>3. NoText \in {NoText} \cup names
      OBVIOUS
    <3>4. [ok |-> r.ok, flag |-> NoText, switches |-> r.switches, values |-> table, rest |-> r.rest] \in ReadingOf(c, S)
      BY <1>0, <1>7, <3>1, <3>3
    <3>5. QED BY <3>2, <3>4
  <2>4. QED BY <2>1, <2>2, <2>3
<1>9. CASE r.flag = NoText
  <2>1. \/ \E more : more \in SUBSET c.switches /\ ReadToken(c, r, t) = [r EXCEPT !.switches = more]
        \/ \E name \in names : ReadToken(c, r, t) = [r EXCEPT !.flag = name]
        \/ \E name \in names : ReadToken(c, r, t) = [r EXCEPT !.values = [r.values EXCEPT ![name] = t.value]]
        \/ ReadToken(c, r, t) = [r EXCEPT !.ok = FALSE]
        \/ ReadToken(c, r, t) = [r EXCEPT !.rest = Append(r.rest, t)]
    <3>1. ReadToken(c, r, t) = ReadWord(c, r, t)
      BY <1>9 DEF ReadToken
    <3>2. CASE t.kind = "flag" /\ t.flag \in c.switches
      <4>1. ReadWord(c, r, t) = [r EXCEPT !.switches = r.switches \cup {t.flag}]
        BY <3>2 DEF ReadWord
      <4>2. r.switches \cup {t.flag} \in SUBSET c.switches
        BY <1>7, <3>2
      <4>3. QED BY <3>1, <4>1, <4>2
    <3>3. CASE t.kind = "flag" /\ t.flag \notin c.switches /\ t.flag \in names
      BY <1>3, <3>1, <3>3 DEF ReadWord
    <3>4. CASE t.kind = "assign" /\ t.flag \in names
      BY <1>3, <3>1, <3>4 DEF ReadWord
    <3>5. CASE ~(t.kind = "flag" /\ t.flag \in c.switches) /\ ~(t.kind = "flag" /\ t.flag \in names) /\ ~(t.kind = "assign" /\ t.flag \in names)
      BY <1>3, <3>1, <3>5 DEF ReadWord
    <3>6. QED BY <3>2, <3>3, <3>4, <3>5
  <2>2. t.value \in V
    BY <1>1, <1>2
  <2>3. \E ok \in BOOLEAN, flag \in {NoText} \cup names, switches \in SUBSET c.switches, values \in [names -> V], rest \in Seq(S) :
          ReadToken(c, r, t) = [ok |-> ok, flag |-> flag, switches |-> switches, values |-> values, rest |-> rest]
    <3>1. CASE \E more : more \in SUBSET c.switches /\ ReadToken(c, r, t) = [r EXCEPT !.switches = more]
      BY <1>7, <3>1
    <3>2. CASE \E name \in names : ReadToken(c, r, t) = [r EXCEPT !.flag = name]
      BY <1>7, <3>2
    <3>3. CASE \E name \in names : ReadToken(c, r, t) = [r EXCEPT !.values = [r.values EXCEPT ![name] = t.value]]
      <4>1. PICK name \in names : ReadToken(c, r, t) = [r EXCEPT !.values = [r.values EXCEPT ![name] = t.value]]
        BY <3>3
      <4>2. PICK table \in [names -> V] : table = [r.values EXCEPT ![name] = t.value]
        BY <1>6, <2>2
      <4>3. ReadToken(c, r, t) = [ok |-> r.ok, flag |-> r.flag, switches |-> r.switches, values |-> table, rest |-> r.rest]
        BY <1>7, <4>1, <4>2
      <4>4. QED BY <1>7, <4>2, <4>3
    <3>4. CASE ReadToken(c, r, t) = [r EXCEPT !.ok = FALSE]
      BY <1>7, <3>4
    <3>5. CASE ReadToken(c, r, t) = [r EXCEPT !.rest = Append(r.rest, t)]
      BY <1>5, <1>7, <3>5
    <3>6. QED BY <2>1, <3>1, <3>2, <3>3, <3>4, <3>5
  <2>4. PICK ok \in BOOLEAN, flag \in {NoText} \cup names, switches \in SUBSET c.switches, values \in [names -> V], rest \in Seq(S) :
          ReadToken(c, r, t) = [ok |-> ok, flag |-> flag, switches |-> switches, values |-> values, rest |-> rest]
    BY <2>3
  <2>5. [ok |-> ok, flag |-> flag, switches |-> switches, values |-> values, rest |-> rest] \in ReadingOf(c, S)
    BY <1>0
  <2>6. QED BY <2>4, <2>5
<1>10. QED BY <1>8, <1>9

LEMMA LeftToRightSteps ==
  ASSUME NEW c, c.switches \cap ToSet(c.values) = {}, NEW S, NEW given \in Seq(S)
  PROVE  \E g : WordSteps(c, given, g)
<1> DEFINE n == Len(given)
           D == DOMAIN given
           A == ReadingOf(c, S)
           Step(r, t) == ReadToken(c, r, t)
           F == [x \in (1..n) \X A |-> Step(x[2], given[x[1]])]
           Iter(it) == it = [s \in SUBSET D |-> IF s = {} THEN NothingRead(c) ELSE Step(it[s \ {Max(s)}], given[Max(s)])]
           iter == CHOOSE it : Iter(it)
<1>1. LeftToRight(c, given) = iter[D]
  BY DEF LeftToRight, NothingRead, FoldLeft, MapThenFoldSet
<1>2. D = 1..n /\ n \in Nat /\ \A x \in 1..n : given[x] \in S
  OBVIOUS
<1>3. NothingRead(c) \in A
  BY DEF NothingRead, ReadingOf, Values
<1>4. \A r \in A, t \in S : Step(r, t) \in A
  BY ReadTokenType
<1>5. \A x \in 1..n, a \in A : F[<<x, a>>] = Step(a, given[x]) /\ F[<<x, a>>] \in A
  <2> HIDE DEF Step, A
  <2> QED BY <1>2, <1>4
<1>6. Iter(iter)
  <2> HIDE DEF F, A, n
  <2>1. PICK h \in [SUBSET (1..n) -> A] : \A s \in SUBSET (1..n) :
           IF s = {} THEN h[s] = NothingRead(c) ELSE Max(s) \in 1..n /\ h[s] = F[<<Max(s), h[s \ {Max(s)}]>>]
    <3> HIDE DEF Step
    <3>1. Steppable(n, A, NothingRead(c), F)
      BY <1>2, <1>3, <1>5 DEF Steppable
    <3>2. Stepped(n, A, NothingRead(c), F)
      BY <3>1, FoldSteps
    <3>3. QED BY <3>2 DEF Stepped
  <2> HIDE DEF Step
  <2>2. \A s \in SUBSET (1..n) : s # {} => h[s] = Step(h[s \ {Max(s)}], given[Max(s)])
    BY <1>5, <2>1
  <2>3. Iter(h)
    BY <1>2, <2>1, <2>2
  <2> HIDE DEF Iter
  <2>4. QED BY <2>3
<1>7. \A s \in SUBSET (1..n) : iter[s] = IF s = {} THEN NothingRead(c) ELSE Step(iter[s \ {Max(s)}], given[Max(s)])
  <2> HIDE DEF iter, Step
  <2> QED BY <1>2, <1>6
<1> HIDE DEF iter, Iter, F
<1> DEFINE g == [k \in 0..n |-> iter[1..k]]
<1>8. ASSUME NEW k \in 1..n PROVE g[k] = Step(g[k - 1], given[k])
  <2> HIDE DEF Step
  <2>1. Max(1..k) = k /\ (1..k) \ {k} = 1..(k - 1) /\ 1..k \in SUBSET (1..n) /\ 1..k # {}
    BY <1>2, FirstElements
  <2>2. iter[1..k] = Step(iter[(1..k) \ {Max(1..k)}], given[Max(1..k)])
    BY <1>7, <2>1
  <2>3. k \in 0..n /\ k - 1 \in 0..n
    BY <1>2
  <2>4. g[k] = iter[1..k] /\ g[k - 1] = iter[1..(k - 1)]
    BY <2>3
  <2>5. QED BY <2>1, <2>2, <2>4, Zenon
<1>9. g[0] = NothingRead(c) /\ g[n] = iter[D]
  <2> HIDE DEF Step
  <2>1. 1..0 = {} /\ {} \in SUBSET (1..n) /\ 0 \in 0..n /\ n \in 0..n
    BY <1>2
  <2>2. iter[{}] = NothingRead(c)
    BY <1>7, <2>1
  <2>3. g[0] = iter[1..0] /\ g[n] = iter[1..n]
    BY <2>1
  <2>4. QED BY <1>2, <2>1, <2>2, <2>3, Zenon
<1> HIDE DEF g
<1>10. WordSteps(c, given, g)
  BY <1>1, <1>8, <1>9 DEF WordSteps
<1>11. QED BY <1>10

-----------------------------------------------------------------------------
(* What a command line that makes sense says, without the order it is read in. *)

\* No switch wants a value, and no flag is taken twice.
Proper(c) ==
  /\ c.values \in Seq(ToSet(c.values))
  /\ c.switches \cap ToSet(c.values) = {} /\ NoText \notin ToSet(c.values)
  /\ \A i, j \in 1..Len(c.values) : c.values[i] = c.values[j] => i = j

\* Every flag is followed by its value, or has it.
Complete(c, given) ==
  \A k \in 1..Len(given) :
    /\ FlagIn(given[k], ToSet(c.values)) =>
         /\ k < Len(given) /\ given[k + 1].kind \notin {"flag", "assign"}
         /\ Good(given[k].flag, given[k + 1].value)
    /\ given[k].kind = "assign" /\ given[k].flag \in ToSet(c.values) =>
         given[k].value # "empty" /\ Good(given[k].flag, given[k].value)

\* What the switches and the flags among names leave of the first k tokens.
Taken(c, given, names, k) ==
  FlagIn(given[k], c.switches) \/ IsKnown(given[k], names) \/ (k > 1 /\ FlagIn(given[k - 1], names))

LeftSteps(c, given, names, g) ==
  /\ g[0] = <<>>
  /\ \A k \in 1..Len(given) : g[k] = IF Taken(c, given, names, k) THEN g[k - 1] ELSE Append(g[k - 1], given[k])

\* What the flag name has been given by the first k tokens.
ValueSteps(given, name, v) ==
  /\ v[0] = NoText
  /\ \A k \in 1..Len(given) :
       v[k] = IF k > 1 /\ FlagIn(given[k - 1], {name}) THEN Text(given[k])
              ELSE IF given[k].kind = "assign" /\ given[k].flag = name THEN given[k].value
              ELSE v[k - 1]

\* There is one way to read each of them.
LEMMA LeftUnique ==
  ASSUME NEW S, NEW given \in Seq(S), NEW c, NEW names, NEW g, NEW h,
         LeftSteps(c, given, names, g), LeftSteps(c, given, names, h)
  PROVE  g[Len(given)] = h[Len(given)]
<1> DEFINE n == Len(given)
           T == {k \in 0..n : g[k] = h[k]}
<1>1. n \in Nat
  OBVIOUS
<1>2. 0 \in T
  BY <1>1 DEF LeftSteps
<1>3. \A k \in 1..n : k - 1 \in T => k \in T
  BY <1>1 DEF LeftSteps
<1>4. 0..n \subseteq T
  <2> HIDE DEF T
  <2> QED BY <1>1, <1>2, <1>3, StepsInduction
<1>5. QED BY <1>1, <1>4

LEMMA ValueUnique ==
  ASSUME NEW S, NEW given \in Seq(S), NEW name, NEW v, NEW w, ValueSteps(given, name, v), ValueSteps(given, name, w)
  PROVE  v[Len(given)] = w[Len(given)]
<1> DEFINE n == Len(given)
           T == {k \in 0..n : v[k] = w[k]}
<1>1. n \in Nat
  OBVIOUS
<1>2. 0 \in T
  <2>1. v[0] = NoText /\ w[0] = NoText
    BY Zenon DEF ValueSteps
  <2>2. 0 \in 0..n
    BY <1>1
  <2>3. QED BY <2>1, <2>2
<1>3. ASSUME NEW k \in 1..n, k - 1 \in T PROVE k \in T
  <2>1. v[k - 1] = w[k - 1] /\ k \in 0..n
    BY <1>1, <1>3
  <2>2. PICK given_k : given_k = given[k]
    OBVIOUS
  <2>3. PICK text : text = Text(given[k])
    OBVIOUS
  <2>4. v[k] = w[k]
    <3>1. v[k] = IF k > 1 /\ FlagIn(given[k - 1], {name}) THEN text ELSE IF given_k.kind = "assign" /\ given_k.flag = name THEN given_k.value
                 ELSE v[k - 1]
      BY <2>2, <2>3 DEF ValueSteps
    <3>2. w[k] = IF k > 1 /\ FlagIn(given[k - 1], {name}) THEN text ELSE IF given_k.kind = "assign" /\ given_k.flag = name THEN given_k.value
                 ELSE w[k - 1]
      BY <2>2, <2>3 DEF ValueSteps
    <3>3. QED BY <2>1, <3>1, <3>2
  <2>5. QED BY <2>1, <2>4
<1>4. 0..n \subseteq T
  <2> HIDE DEF T
  <2> QED BY <1>1, <1>2, <1>3, StepsInduction
<1>5. QED BY <1>1, <1>4

LEMMA LeftType ==
  ASSUME NEW S, NEW given \in Seq(S), NEW c, NEW names, NEW g, LeftSteps(c, given, names, g)
  PROVE  \A k \in 0..Len(given) : g[k] \in Seq(S)
<1> DEFINE n == Len(given)
           T == {k \in 0..n : g[k] \in Seq(S)}
<1>1. n \in Nat
  OBVIOUS
<1>2. 0 \in T
  <2>1. g[0] = <<>> /\ <<>> \in Seq(S) /\ 0 \in 0..n
    BY <1>1 DEF LeftSteps
  <2>2. QED BY <2>1
<1>3. ASSUME NEW k \in 1..n, k - 1 \in T PROVE k \in T
  <2>1. given[k] \in S /\ g[k - 1] \in Seq(S) /\ k \in 0..n
    BY <1>1, <1>3
  <2>2. g[k] = g[k - 1] \/ g[k] = Append(g[k - 1], given[k])
    BY DEF LeftSteps
  <2>3. Append(g[k - 1], given[k]) \in Seq(S)
    BY <2>1, AppendProperties
  <2>4. QED BY <2>1, <2>2, <2>3
<1>4. 0..n \subseteq T
  <2> HIDE DEF T
  <2> QED BY <1>1, <1>2, <1>3, StepsInduction
<1>5. QED BY <1>1, <1>4

\* A reading that met no flag where a value was due.
InOrder(r) == r.ok

\* A token read from left to right that leaves the reading in order.
TokenRead(c, names, r, t, q) ==
  /\ r.flag # NoText =>
       /\ t.kind \notin {"flag", "assign"} /\ Good(r.flag, t.value)
       /\ q.flag = NoText /\ q.switches = r.switches /\ q.rest = r.rest
       /\ q.values = [r.values EXCEPT ![r.flag] = Text(t)]
  /\ r.flag = NoText =>
       /\ q.flag = IF FlagIn(t, names) THEN t.flag ELSE NoText
       /\ q.switches = IF FlagIn(t, c.switches) THEN r.switches \cup {t.flag} ELSE r.switches
       /\ q.rest = IF FlagIn(t, c.switches) \/ IsKnown(t, names) THEN r.rest ELSE Append(r.rest, t)
       /\ t.kind = "assign" /\ t.flag \in names =>
            t.value # "empty" /\ Good(t.flag, t.value) /\ q.values = [r.values EXCEPT ![t.flag] = t.value]
       /\ ~(t.kind = "assign" /\ t.flag \in names) => q.values = r.values

LEMMA ReadInOrder ==
  ASSUME NEW c, Proper(c), NEW S, NEW r \in ReadingOf(c, S), NEW t \in S, NEW q, q = ReadToken(c, r, t), InOrder(q)
  PROVE  InOrder(r) /\ TokenRead(c, ToSet(c.values), r, t, q)
<1>1. PICK names : names = ToSet(c.values) /\ c.switches \cap names = {}
  BY DEF Proper
<1>2. /\ r = [ok |-> r.ok, flag |-> r.flag, switches |-> r.switches, values |-> r.values, rest |-> r.rest]
      /\ r.ok \in BOOLEAN
  BY DEF ReadingOf
<1>3. CASE r.flag # NoText
  <2>1. q = ReadValue(r, t)
    BY <1>3 DEF ReadToken
  <2>2. CASE t.kind \in {"flag", "assign"} \/ ~Good(r.flag, t.value)
    <3>1. q = [r EXCEPT !.ok = FALSE, !.flag = NoText]
      BY <2>1, <2>2 DEF ReadValue
    <3>2. q.ok = FALSE
      BY <1>2, <3>1
    <3>3. QED BY <3>2 DEF InOrder
  <2>3. CASE ~(t.kind \in {"flag", "assign"} \/ ~Good(r.flag, t.value))
    <3>1. q = [r EXCEPT !.values = [r.values EXCEPT ![r.flag] = Text(t)], !.flag = NoText]
      BY <2>1, <2>3 DEF ReadValue
    <3>2. q.ok = r.ok /\ q.flag = NoText /\ q.switches = r.switches /\ q.rest = r.rest /\ q.values = [r.values EXCEPT ![r.flag] = Text(t)]
      BY <1>2, <3>1
    <3>3. QED BY <1>3, <2>3, <3>2 DEF InOrder, TokenRead
  <2>4. QED BY <2>2, <2>3
<1>4. CASE r.flag = NoText
  <2>1. q = ReadWord(c, r, t)
    BY <1>4 DEF ReadToken
  <2>2. CASE FlagIn(t, c.switches)
    <3>1. q = [r EXCEPT !.switches = r.switches \cup {t.flag}]
      BY <1>1, <2>1, <2>2 DEF ReadWord, FlagIn
    <3>2. q.ok = r.ok /\ q.flag = NoText /\ q.switches = r.switches \cup {t.flag} /\ q.rest = r.rest /\ q.values = r.values
      BY <1>2, <1>4, <3>1
    <3>3. QED BY <1>1, <1>4, <2>2, <3>2 DEF FlagIn, InOrder, TokenRead
  <2>3. CASE FlagIn(t, names)
    <3>1. q = [r EXCEPT !.flag = t.flag]
      BY <1>1, <2>1, <2>3 DEF ReadWord, FlagIn
    <3>2. q.ok = r.ok /\ q.flag = t.flag /\ q.switches = r.switches /\ q.rest = r.rest /\ q.values = r.values
      BY <1>2, <1>4, <3>1
    <3>3. QED BY <1>1, <1>4, <2>3, <3>2 DEF FlagIn, IsKnown, InOrder, TokenRead
  <2>4. CASE t.kind = "assign" /\ t.flag \in names
    <3>1. q = IF t.value # "empty" /\ Good(t.flag, t.value) THEN [r EXCEPT !.values = [r.values EXCEPT ![t.flag] = t.value]]
              ELSE [r EXCEPT !.ok = FALSE]
      BY <1>1, <2>1, <2>4 DEF ReadWord
    <3>2. CASE ~(t.value # "empty" /\ Good(t.flag, t.value))
      <4>1. q = [r EXCEPT !.ok = FALSE]
        BY <3>1, <3>2
      <4>2. q.ok = FALSE
        BY <1>2, <4>1
      <4>3. QED BY <4>2 DEF InOrder
    <3>3. CASE t.value # "empty" /\ Good(t.flag, t.value)
      <4>1. q = [r EXCEPT !.values = [r.values EXCEPT ![t.flag] = t.value]]
        BY <3>1, <3>3
      <4>2. q.ok = r.ok /\ q.flag = NoText /\ q.switches = r.switches /\ q.rest = r.rest /\ q.values = [r.values EXCEPT ![t.flag] = t.value]
        BY <1>2, <1>4, <4>1
      <4>3. QED BY <1>1, <1>4, <2>4, <3>3, <4>2 DEF FlagIn, IsKnown, InOrder, TokenRead
    <3>4. QED BY <3>2, <3>3
  <2>5. CASE ~FlagIn(t, c.switches) /\ ~FlagIn(t, names) /\ ~(t.kind = "assign" /\ t.flag \in names)
    <3>1. q = [r EXCEPT !.rest = Append(r.rest, t)]
      BY <1>1, <2>1, <2>5 DEF ReadWord, FlagIn
    <3>2. q.ok = r.ok /\ q.flag = NoText /\ q.switches = r.switches /\ q.rest = Append(r.rest, t) /\ q.values = r.values
      BY <1>2, <1>4, <3>1
    <3>3. QED BY <1>1, <1>4, <2>5, <3>2 DEF FlagIn, IsKnown, InOrder, TokenRead
  <2>6. QED BY <2>2, <2>3, <2>4, <2>5
<1>5. QED BY <1>3, <1>4

\* Read from left to right, a line that is in order to its end is complete.
LEMMA WrittenRead ==
  ASSUME NEW c, Proper(c), NEW S, NEW given \in Seq(S), NEW w, w = LeftToRight(c, given), InOrder(w), w.flag = NoText
  PROVE  /\ Complete(c, given)
         /\ w.switches = {given[i].flag : i \in {k \in 1..Len(given) : FlagIn(given[k], c.switches)}}
         /\ \E g : LeftSteps(c, given, ToSet(c.values), g) /\ g[Len(given)] = w.rest
         /\ \A name \in ToSet(c.values) : \E v : ValueSteps(given, name, v) /\ v[Len(given)] = w.values[name]
<1>0. PICK n : n = Len(given) /\ n \in Nat /\ \A k \in 1..n : given[k] \in S
  OBVIOUS
<1>1. PICK names : names = ToSet(c.values) /\ c.switches \cap names = {} /\ NoText \notin names
  BY DEF Proper
<1>2. PICK r : WordSteps(c, given, r)
  BY <1>1, LeftToRightSteps
<1>3. /\ r[0] = NothingRead(c) /\ r[n] = w
      /\ \A k \in 1..n : r[k] = ReadToken(c, r[k - 1], given[k])
  BY <1>0, <1>2 DEF WordSteps
<1>4. \A k \in 0..n : r[k] \in ReadingOf(c, S)
  <2> DEFINE T == {k \in 0..n : r[k] \in ReadingOf(c, S)}
  <2>1. NothingRead(c) \in ReadingOf(c, S)
    BY DEF NothingRead, ReadingOf, Values
  <2>2. 0 \in T
    BY <1>0, <1>3, <2>1
  <2>3. \A k \in 1..n : k - 1 \in T => k \in T
    <3> SUFFICES ASSUME NEW k \in 1..n, k - 1 \in T PROVE k \in T
      OBVIOUS
    <3>1. r[k - 1] \in ReadingOf(c, S) /\ given[k] \in S /\ k \in 0..n
      BY <1>0
    <3>2. ReadToken(c, r[k - 1], given[k]) \in ReadingOf(c, S)
      BY <1>1, <3>1, ReadTokenType
    <3>3. QED BY <1>3, <3>1, <3>2
  <2> HIDE DEF T
  <2>4. 0..n \subseteq T
    BY <1>0, <2>2, <2>3, StepsInduction
  <2>5. QED BY <2>4 DEF T
<1>5. \A k \in 0..n : InOrder(r[k])
  <2> DEFINE T == {k \in 0..n : InOrder(r[n - k])}
  <2>1. 0 \in T
    BY <1>0, <1>3
  <2>2. ASSUME NEW k \in 1..n, k - 1 \in T PROVE k \in T
    <3>1. n - k \in 0..n /\ n - k + 1 \in 1..n /\ (n - k + 1) - 1 = n - k /\ n - (k - 1) = n - k + 1
      BY <1>0
    <3>2. InOrder(r[n - k + 1])
      BY <2>2, <3>1
    <3>3. r[n - k + 1] = ReadToken(c, r[n - k], given[n - k + 1])
      BY <1>3, <3>1
    <3>4. InOrder(r[n - k])
      BY <1>0, <1>4, <3>1, <3>2, <3>3, ReadInOrder
    <3>5. QED BY <1>0, <3>4
  <2> HIDE DEF T
  <2>3. 0..n \subseteq T
    BY <1>0, <2>1, <2>2, StepsInduction
  <2>4. ASSUME NEW k \in 0..n PROVE InOrder(r[k])
    <3>1. n - k \in 0..n /\ n - (n - k) = k
      BY <1>0
    <3>2. n - k \in T
      BY <2>3, <3>1
    <3>3. QED BY <3>1, <3>2 DEF T
  <2>5. QED BY <2>4
\* What one token does, and the flag that waits for a value after it.
<1>6. ASSUME NEW k \in 1..n
      PROVE  TokenRead(c, names, r[k - 1], given[k], r[k]) /\ r[k - 1].values \in [names -> Values(S)]
  <2>1. k - 1 \in 0..n /\ k \in 0..n
    BY <1>0
  <2>2. PICK p, t, q : p = r[k - 1] /\ t = given[k] /\ q = r[k]
    OBVIOUS
  <2>3. p \in ReadingOf(c, S) /\ t \in S /\ q = ReadToken(c, p, t) /\ InOrder(q)
    BY <1>0, <1>3, <1>4, <1>5, <2>1, <2>2
  <2>4. p.values \in [names -> Values(S)]
    BY <1>1, <2>3 DEF ReadingOf
  <2>5. TokenRead(c, names, p, t, q)
    BY <1>1, <2>3, ReadInOrder
  <2>6. QED BY <2>2, <2>4, <2>5
<1>7. \A k \in 1..n : r[k].flag = IF FlagIn(given[k], names) THEN given[k].flag ELSE NoText
  <2> SUFFICES ASSUME NEW k \in 1..n PROVE r[k].flag = IF FlagIn(given[k], names) THEN given[k].flag ELSE NoText
    OBVIOUS
  <2>1. PICK t, p, q : t = given[k] /\ p = r[k - 1] /\ q = r[k] /\ TokenRead(c, names, p, t, q)
    BY <1>6
  <2>2. CASE p.flag # NoText
    BY <2>1, <2>2 DEF FlagIn, TokenRead
  <2>3. CASE p.flag = NoText
    BY <2>1, <2>3 DEF TokenRead
  <2>4. QED BY <2>2, <2>3
\* Whether the flag before is one of the names.
<1>8. ASSUME NEW k \in 1..n
      PROVE  /\ k > 1 /\ FlagIn(given[k - 1], names) => r[k - 1].flag = given[k - 1].flag /\ r[k - 1].flag # NoText
             /\ ~(k > 1 /\ FlagIn(given[k - 1], names)) => r[k - 1].flag = NoText
  <2>1. CASE k = 1
    <3>1. r[0].flag = NoText
      BY <1>3 DEF NothingRead
    <3>2. QED BY <2>1, <3>1
  <2>2. CASE k > 1
    <3>1. k - 1 \in 1..n
      BY <1>0, <2>2
    <3>2. r[k - 1].flag = IF FlagIn(given[k - 1], names) THEN given[k - 1].flag ELSE NoText
      BY <1>7, <3>1
    <3>3. QED BY <1>1, <2>2, <3>2 DEF FlagIn
  <2>3. QED BY <1>0, <2>1, <2>2
<1>9. Complete(c, given)
  <2> SUFFICES ASSUME NEW k \in 1..n
               PROVE  /\ FlagIn(given[k], names) =>
                           /\ k < n /\ given[k + 1].kind \notin {"flag", "assign"}
                           /\ Good(given[k].flag, given[k + 1].value)
                      /\ given[k].kind = "assign" /\ given[k].flag \in names =>
                           given[k].value # "empty" /\ Good(given[k].flag, given[k].value)
    BY <1>0, <1>1 DEF Complete
  <2>1. ASSUME FlagIn(given[k], names)
        PROVE  k < n /\ given[k + 1].kind \notin {"flag", "assign"} /\ Good(given[k].flag, given[k + 1].value)
    <3>1. r[k].flag = given[k].flag /\ r[k].flag # NoText
      BY <1>1, <1>7, <2>1 DEF FlagIn
    <3>2. k < n
      <4>1. k # n
        BY <1>3, <3>1
      <4>2. QED BY <1>0, <4>1
    <3>3. k + 1 \in 1..n /\ (k + 1) - 1 = k
      BY <1>0, <3>2
    <3>4. PICK t, p, q : t = given[k + 1] /\ p = r[k] /\ q = r[k + 1] /\ TokenRead(c, names, p, t, q)
      BY <1>6, <3>3
    <3>5. t.kind \notin {"flag", "assign"} /\ Good(p.flag, t.value)
      BY <3>1, <3>3, <3>4 DEF TokenRead
    <3>6. QED BY <3>1, <3>2, <3>4, <3>5
  <2>2. ASSUME given[k].kind = "assign", given[k].flag \in names
        PROVE  given[k].value # "empty" /\ Good(given[k].flag, given[k].value)
    <3>1. PICK t, p, q : t = given[k] /\ p = r[k - 1] /\ q = r[k] /\ TokenRead(c, names, p, t, q)
      BY <1>6
    <3>2. p.flag = NoText
      BY <2>2, <3>1 DEF TokenRead
    <3>3. QED BY <2>2, <3>1, <3>2 DEF TokenRead
  <2>3. QED BY <2>1, <2>2
<1>10. w.switches = {given[i].flag : i \in {k \in 1..n : FlagIn(given[k], c.switches)}}
  <2> DEFINE Seen(k) == {given[i].flag : i \in {j \in 1..k : FlagIn(given[j], c.switches)}}
             T == {k \in 0..n : r[k].switches = Seen(k)}
  <2>1. 0 \in T
    <3>1. r[0].switches = {}
      BY <1>3 DEF NothingRead
    <3>2. Seen(0) = {} /\ 0 \in 0..n
      BY <1>0
    <3>3. QED BY <3>1, <3>2
  <2>2. ASSUME NEW k \in 1..n, k - 1 \in T PROVE k \in T
    <3>1. PICK t, p, q : t = given[k] /\ p = r[k - 1] /\ q = r[k] /\ TokenRead(c, names, p, t, q)
      BY <1>6
    <3>2. q.switches = IF FlagIn(t, c.switches) THEN p.switches \cup {t.flag} ELSE p.switches
      <4>1. CASE p.flag # NoText
        BY <3>1, <4>1 DEF FlagIn, TokenRead
      <4>2. CASE p.flag = NoText
        BY <3>1, <4>2 DEF TokenRead
      <4>3. QED BY <4>1, <4>2
    <3>3. p.switches = Seen(k - 1)
      BY <2>2, <3>1
    <3>4. Seen(k) = IF FlagIn(t, c.switches) THEN Seen(k - 1) \cup {t.flag} ELSE Seen(k - 1)
      <4>1. \A j : j \in 1..k <=> j \in 1..(k - 1) \/ j = k
        BY <1>0
      <4>2. QED BY <3>1, <4>1
    <3> HIDE DEF Seen
    <3>5. k \in 0..n
      BY <1>0
    <3>6. QED BY <3>1, <3>2, <3>3, <3>4, <3>5
  <2>3. 0..n \subseteq T
    <3> HIDE DEF T
    <3> QED BY <1>0, <2>1, <2>2, StepsInduction
  <2>4. n \in 0..n
    BY <1>0
  <2>5. QED BY <1>3, <2>3, <2>4
<1>11. \E g : LeftSteps(c, given, names, g) /\ g[n] = w.rest
  <2> DEFINE g == [k \in 0..n |-> r[k].rest]
  <2>1. g[0] = <<>>
    <3>1. r[0].rest = <<>> /\ 0 \in 0..n
      BY <1>0, <1>3 DEF NothingRead
    <3>2. QED BY <3>1
  <2>2. ASSUME NEW k \in 1..n
        PROVE  g[k] = IF Taken(c, given, names, k) THEN g[k - 1] ELSE Append(g[k - 1], given[k])
    <3>1. PICK t, p, q : t = given[k] /\ p = r[k - 1] /\ q = r[k] /\ TokenRead(c, names, p, t, q)
      BY <1>6
    <3>2. g[k] = q.rest /\ g[k - 1] = p.rest
      BY <1>0, <3>1
    <3> HIDE DEF g
    <3>3. CASE p.flag # NoText
      <4>1. Taken(c, given, names, k) /\ q.rest = p.rest
        BY <1>8, <3>1, <3>3 DEF Taken, TokenRead
      <4>2. QED BY <3>2, <4>1
    <3>4. CASE p.flag = NoText
      <4>1. Taken(c, given, names, k) <=> FlagIn(t, c.switches) \/ IsKnown(t, names)
        BY <1>8, <3>1, <3>4 DEF Taken
      <4>2. q.rest = IF FlagIn(t, c.switches) \/ IsKnown(t, names) THEN p.rest ELSE Append(p.rest, t)
        BY <3>1, <3>4 DEF TokenRead
      <4>3. QED BY <3>1, <3>2, <4>1, <4>2
    <3>5. QED BY <3>3, <3>4
  <2>3. n \in 0..n
    BY <1>0
  <2>4. g[n] = w.rest
    BY <1>3, <2>3
  <2> HIDE DEF g
  <2>5. LeftSteps(c, given, names, g)
    BY <1>0, <2>1, <2>2 DEF LeftSteps
  <2>6. QED BY <2>4, <2>5
<1>12. ASSUME NEW name \in names PROVE \E v : ValueSteps(given, name, v) /\ v[n] = w.values[name]
  <2> DEFINE v == [k \in 0..n |-> r[k].values[name]]
  <2>1. v[0] = NoText
    <3>1. r[0].values[name] = NoText /\ 0 \in 0..n
      BY <1>0, <1>1, <1>3, <1>12 DEF NothingRead
    <3>2. QED BY <3>1
  <2>2. ASSUME NEW k \in 1..n
        PROVE  v[k] = IF k > 1 /\ FlagIn(given[k - 1], {name}) THEN Text(given[k])
                      ELSE IF given[k].kind = "assign" /\ given[k].flag = name THEN given[k].value ELSE v[k - 1]
    <3>1. PICK t, p, q : t = given[k] /\ p = r[k - 1] /\ q = r[k] /\ TokenRead(c, names, p, t, q)
      BY <1>6
    <3>2. v[k] = q.values[name] /\ v[k - 1] = p.values[name]
      BY <1>0, <3>1
    <3> HIDE DEF v
    <3>3. PICK text : text = Text(t)
      OBVIOUS
    <3>4. p.values \in [names -> Values(S)]
      BY <1>6, <3>1
    <3>5. CASE p.flag # NoText
      <4>1. k > 1 /\ FlagIn(given[k - 1], names) /\ p.flag = given[k - 1].flag
        BY <1>8, <3>1, <3>5
      <4>2. q.values = [p.values EXCEPT ![p.flag] = text] /\ t.kind # "assign"
        BY <3>1, <3>3, <3>5 DEF TokenRead
      <4>3. FlagIn(given[k - 1], {name}) <=> p.flag = name
        BY <4>1 DEF FlagIn
      <4>4. q.values[name] = IF p.flag = name THEN text ELSE p.values[name]
        BY <1>12, <3>4, <4>2
      <4>5. QED BY <3>1, <3>2, <3>3, <4>1, <4>2, <4>3, <4>4
    <3>6. CASE p.flag = NoText
      <4>1. ~(k > 1 /\ FlagIn(given[k - 1], {name}))
        BY <1>8, <1>12, <3>1, <3>6 DEF FlagIn
      <4>2. q.values[name] = IF t.kind = "assign" /\ t.flag = name THEN t.value ELSE p.values[name]
        <5>1. CASE t.kind = "assign" /\ t.flag \in names
          <6>1. q.values = [p.values EXCEPT ![t.flag] = t.value]
            BY <3>1, <3>6, <5>1 DEF TokenRead
          <6>2. QED BY <1>12, <3>4, <5>1, <6>1
        <5>2. CASE ~(t.kind = "assign" /\ t.flag \in names)
          <6>1. q.values = p.values
            BY <3>1, <3>6, <5>2 DEF TokenRead
          <6>2. QED BY <1>12, <5>2, <6>1
        <5>3. QED BY <5>1, <5>2
      <4>3. QED BY <3>1, <3>2, <4>1, <4>2
    <3>7. QED BY <3>5, <3>6
  <2>3. n \in 0..n
    BY <1>0
  <2>4. v[n] = w.values[name]
    BY <1>3, <2>3
  <2> HIDE DEF v
  <2>5. ValueSteps(given, name, v)
    BY <1>0, <2>1, <2>2 DEF ValueSteps
  <2>6. QED BY <2>4, <2>5
<1>13. QED BY <1>0, <1>1, <1>9, <1>10, <1>11, <1>12

\* One token, after the first flags took theirs, and what the pass for name makes of it.
Wants(pass) == pass.wants

TokenTaken(c, given, names, name, k, pass, next) ==
  /\ Wants(next) <=> FlagIn(given[k], {name})
  /\ next.kept = IF Taken(c, given, names \cup {name}, k) THEN pass.kept ELSE Append(pass.kept, given[k])
  /\ next.value = IF k > 1 /\ FlagIn(given[k - 1], {name}) THEN Text(given[k])
                  ELSE IF given[k].kind = "assign" /\ given[k].flag = name THEN given[k].value
                  ELSE pass.value

LEMMA TokenIsTaken ==
  ASSUME NEW c, Proper(c), NEW S, NEW given \in Seq(S), Complete(c, given),
         NEW names \in SUBSET ToSet(c.values), NEW name \in ToSet(c.values), name \notin names,
         NEW k \in 1..Len(given), NEW V, NEW pass \in PassOf(V), Wants(pass) <=> k > 1 /\ FlagIn(given[k - 1], {name}),
         NEW next, next = IF Taken(c, given, names, k) THEN pass ELSE TakeToken(name, c.known, pass, given[k])
  PROVE  TokenTaken(c, given, names, name, k, pass, next)
<1>1. PICK t : t = given[k]
  OBVIOUS
<1>2. PICK text : text = Text(given[k])
  OBVIOUS
<1>5. /\ pass = [kept |-> pass.kept, wants |-> pass.wants, value |-> pass.value]
      /\ pass.wants \in BOOLEAN
  BY DEF PassOf
<1>6. k > 1 /\ FlagIn(given[k - 1], ToSet(c.values)) => t.kind \notin {"flag", "assign"}
  <2> SUFFICES ASSUME k > 1, FlagIn(given[k - 1], ToSet(c.values)) PROVE t.kind \notin {"flag", "assign"}
    OBVIOUS
  <2>1. k - 1 \in 1..Len(given) /\ (k - 1) + 1 = k
    OBVIOUS
  <2>2. QED BY <1>1, <2>1 DEF Complete
<1>7. CASE k > 1 /\ FlagIn(given[k - 1], {name})
  <2>1. FlagIn(given[k - 1], ToSet(c.values)) /\ ~FlagIn(given[k - 1], names) /\ FlagIn(given[k - 1], names \cup {name})
    BY <1>7 DEF FlagIn
  <2>2. t.kind \notin {"flag", "assign"}
    BY <1>6, <1>7, <2>1
  <2>3. ~Taken(c, given, names, k) /\ Taken(c, given, names \cup {name}, k)
    BY <1>1, <1>7, <2>1, <2>2 DEF Taken, FlagIn, IsKnown
  <2>4. next = [pass EXCEPT !.wants = FALSE, !.value = text]
    <3>1. next = TakeToken(name, c.known, pass, t)
      BY <1>1, <2>3
    <3>2. ~IsKnown(t, c.known)
      BY <2>2 DEF IsKnown
    <3>3. pass.wants
      BY <1>7 DEF Wants
    <3>4. text = Text(t)
      BY <1>1, <1>2
    <3>5. QED BY <3>1, <3>2, <3>3, <3>4 DEF TakeToken
  <2>5. next.wants = FALSE /\ next.kept = pass.kept /\ next.value = text
    BY <1>5, <2>4
  <2>6. ~FlagIn(given[k], {name})
    BY <1>1, <2>2 DEF FlagIn
  <2>7. ~Wants(next)
    BY <2>5 DEF Wants
  <2>8. QED BY <1>2, <1>7, <2>3, <2>5, <2>6, <2>7 DEF TokenTaken
<1>8. CASE ~(k > 1 /\ FlagIn(given[k - 1], {name}))
  <2>1. ~Wants(pass)
    BY <1>8
  <2>2. CASE Taken(c, given, names, k)
    <3>1. next = pass
      BY <2>2
    <3>2. ~FlagIn(t, {name}) /\ ~(t.kind = "assign" /\ t.flag = name)
      <4>1. CASE FlagIn(t, c.switches)
        BY <4>1 DEF FlagIn, Proper
      <4>2. CASE IsKnown(t, names)
        BY <4>2 DEF FlagIn, IsKnown
      <4>3. CASE k > 1 /\ FlagIn(given[k - 1], names)
        <5>1. FlagIn(given[k - 1], ToSet(c.values))
          BY <4>3 DEF FlagIn
        <5>2. QED BY <1>6, <4>3, <5>1 DEF FlagIn
      <4>4. QED BY <1>1, <2>2, <4>1, <4>2, <4>3 DEF Taken
    <3>3. Taken(c, given, names \cup {name}, k)
      BY <2>2 DEF Taken, FlagIn, IsKnown
    <3>4. QED BY <1>1, <1>8, <2>1, <3>1, <3>2, <3>3 DEF TokenTaken
  <2>3. CASE ~Taken(c, given, names, k)
    <3>1. next = TakeToken(name, c.known, pass, t)
      BY <1>1, <2>3
    <3>2. ~pass.wants
      BY <2>1 DEF Wants
    <3>3. CASE t.kind = "flag" /\ t.flag = name
      <4>1. next = [pass EXCEPT !.wants = TRUE]
        BY <3>1, <3>2, <3>3 DEF TakeToken
      <4>2. next.wants = TRUE /\ next.kept = pass.kept /\ next.value = pass.value
        BY <1>5, <4>1
      <4>3. Wants(next)
        BY <4>2 DEF Wants
      <4>4. FlagIn(given[k], {name}) /\ Taken(c, given, names \cup {name}, k)
        BY <1>1, <3>3 DEF FlagIn, Taken, IsKnown
      <4>5. ~(given[k].kind = "assign" /\ given[k].flag = name)
        BY <1>1, <3>3
      <4>6. QED BY <1>8, <4>2, <4>3, <4>4, <4>5 DEF TokenTaken
    <3>4. CASE t.kind = "assign" /\ t.flag = name
      <4>1. t.value # "empty"
        BY <1>1, <3>4 DEF Complete
      <4>2. next = [pass EXCEPT !.value = t.value]
        BY <3>1, <3>2, <3>4, <4>1 DEF TakeToken
      <4>3. next.wants = pass.wants /\ next.kept = pass.kept /\ next.value = t.value
        BY <1>5, <4>2
      <4>4. ~Wants(next)
        BY <3>2, <4>3 DEF Wants
      <4>5. ~FlagIn(given[k], {name}) /\ Taken(c, given, names \cup {name}, k)
        BY <1>1, <3>4 DEF FlagIn, Taken, IsKnown
      <4>6. QED BY <1>1, <1>8, <3>4, <4>3, <4>4, <4>5 DEF TokenTaken
    <3>5. CASE ~(t.kind = "flag" /\ t.flag = name) /\ ~(t.kind = "assign" /\ t.flag = name)
      <4>1. next = [pass EXCEPT !.kept = Append(pass.kept, t)]
        BY <3>1, <3>2, <3>5 DEF TakeToken
      <4>2. next.wants = pass.wants /\ next.kept = Append(pass.kept, t) /\ next.value = pass.value
        BY <1>5, <4>1
      <4>3. ~Wants(next)
        BY <3>2, <4>2 DEF Wants
      <4>4. ~FlagIn(given[k], {name})
        BY <1>1, <3>5 DEF FlagIn
      <4>5. ~Taken(c, given, names \cup {name}, k)
        BY <1>1, <1>8, <2>3, <3>5 DEF FlagIn, Taken, IsKnown
      <4>6. QED BY <1>1, <1>8, <3>5, <4>2, <4>3, <4>4, <4>5 DEF TokenTaken
    <3>6. QED BY <3>3, <3>4, <3>5
  <2>4. QED BY <2>2, <2>3
<1>9. QED BY <1>7, <1>8

\* A token that gives a number flag its number.
LEMMA NumberToken ==
  ASSUME NEW t, IsToken(t), t.kind \notin {"flag", "assign"}, t.value = "number"
  PROVE  Text(t) = "number"
<1>1. t # Flag(t.flag) /\ t # Assign(t.flag, t.value)
  BY DEF Flag, Assign
<1>2. t \in {Word, Empty, Number, Dashes}
  BY <1>1 DEF IsToken
<1>3. Word.value # "number" /\ Empty.value # "number" /\ Dashes.value # "number"
  BY Zenon DEF Word, Empty, Dashes, NoText
<1>4. t = Number
  BY <1>2, <1>3
<1>5. QED BY <1>4 DEF Number, Text

\* The pass for name over what the flags among names left: what it leaves and what it gives.
BeforeFlag(c, S, given, names, name, g) ==
  /\ Proper(c) /\ given \in Seq(S) /\ (\A t \in S : IsToken(t)) /\ Complete(c, given)
  /\ names \in SUBSET ToSet(c.values) /\ name \in ToSet(c.values) /\ name \notin names
  /\ LeftSteps(c, given, names, g)

AfterFlag(c, given, names, name, g) ==
  LET taken == CheckNumber(TakeString(g[Len(given)], name, c.known), g[Len(given)], name) IN
  /\ \E h : LeftSteps(c, given, names \cup {name}, h) /\ h[Len(given)] = taken.kept
  /\ \E v : ValueSteps(given, name, v) /\ v[Len(given)] = taken.value

LEMMA FlagTaken ==
  ASSUME NEW c, NEW S, NEW given, NEW names, NEW name, NEW g, BeforeFlag(c, S, given, names, name, g)
  PROVE  AfterFlag(c, given, names, name, g)
<1>a. /\ Proper(c) /\ given \in Seq(S) /\ (\A t \in S : IsToken(t)) /\ Complete(c, given)
      /\ names \in SUBSET ToSet(c.values) /\ name \in ToSet(c.values) /\ name \notin names
      /\ LeftSteps(c, given, names, g)
  BY DEF BeforeFlag
<1> USE <1>a
<1>b. PICK taken : taken = CheckNumber(TakeString(g[Len(given)], name, c.known), g[Len(given)], name)
  OBVIOUS
<1>1. PICK n : n = Len(given) /\ n \in Nat /\ \A k \in 1..n : given[k] \in S
  OBVIOUS
<1>2. PICK S2 : S2 = S \cup Marks(ToSet(c.values))
  OBVIOUS
<1>3. given \in Seq(S2) /\ Mark("missing", name) \in S2
  <2>1. Mark("missing", name) \in Marks(ToSet(c.values))
    BY DEF Marks
  <2>2. QED BY <1>2, <2>1
<1>4. \A k \in 0..n : g[k] \in Seq(S2)
  BY <1>1, <1>3, LeftType
<1>5. /\ g[0] = <<>>
      /\ \A k \in 1..n : g[k] = IF Taken(c, given, names, k) THEN g[k - 1] ELSE Append(g[k - 1], given[k])
  BY <1>1 DEF LeftSteps
<1>6. PICK P : P = [k \in 0..n |-> TakePass(g[k], name, c.known)]
  OBVIOUS
<1>7. P[0] = NoToken
  <2>1. 0 \in 0..n
    BY <1>1
  <2>2. P[0] = TakePass(g[0], name, c.known)
    BY <1>6, <2>1
  <2>3. QED BY <1>5, <2>2, TakePassEmpty
<1>8. \A k \in 0..n : P[k] \in PassOf(S2)
  <2> SUFFICES ASSUME NEW k \in 0..n PROVE P[k] \in PassOf(S2)
    OBVIOUS
  <2>1. PICK words \in Seq(S2) : words = g[k]
    BY <1>4
  <2>2. TakePass(words, name, c.known) \in PassOf(S2)
    BY <1>3, TakePassRead
  <2>3. QED BY <1>6, <2>1, <2>2
<1>9. \A k \in 1..n : P[k] = IF Taken(c, given, names, k) THEN P[k - 1] ELSE TakeToken(name, c.known, P[k - 1], given[k])
  <2> SUFFICES ASSUME NEW k \in 1..n
               PROVE  P[k] = IF Taken(c, given, names, k) THEN P[k - 1] ELSE TakeToken(name, c.known, P[k - 1], given[k])
    OBVIOUS
  <2>1. k - 1 \in 0..n /\ k \in 0..n
    BY <1>1
  <2>2. PICK words \in Seq(S2) : words = g[k - 1]
    BY <1>4, <2>1
  <2>3. PICK t \in S2 : t = given[k]
    BY <1>1, <1>2
  <2>4. P[k - 1] = TakePass(words, name, c.known) /\ P[k] = TakePass(g[k], name, c.known)
    BY <1>6, <2>1, <2>2
  <2>5. TakePass(Append(words, t), name, c.known) = TakeToken(name, c.known, TakePass(words, name, c.known), t)
    BY <1>3, TakePassAppend
  <2>6. CASE Taken(c, given, names, k)
    <3>1. g[k] = words
      BY <1>5, <2>2, <2>6
    <3>2. QED BY <2>4, <2>6, <3>1
  <2>7. CASE ~Taken(c, given, names, k)
    <3>1. g[k] = Append(words, t)
      BY <1>5, <2>2, <2>3, <2>7
    <3>2. QED BY <2>3, <2>4, <2>5, <2>7, <3>1
  <2>8. QED BY <2>6, <2>7
<1>10. ASSUME NEW k \in 1..n, Wants(P[k - 1]) <=> k > 1 /\ FlagIn(given[k - 1], {name})
       PROVE  TokenTaken(c, given, names, name, k, P[k - 1], P[k])
  <2>1. PICK pass \in PassOf(S2) : pass = P[k - 1]
    <3>1. k - 1 \in 0..n
      BY <1>1
    <3>2. QED BY <1>8, <3>1
  <2>2. PICK next : next = P[k]
    OBVIOUS
  <2>3. Wants(pass) <=> k > 1 /\ FlagIn(given[k - 1], {name})
    BY <1>10, <2>1, Zenon
  <2>4. next = IF Taken(c, given, names, k) THEN pass ELSE TakeToken(name, c.known, pass, given[k])
    BY <1>9, <2>1, <2>2
  <2>5. TokenTaken(c, given, names, name, k, pass, next)
    BY <1>1, <2>3, <2>4, TokenIsTaken
  <2>6. QED BY <2>1, <2>2, <2>5
<1>11. \A k \in 1..n : TokenTaken(c, given, names, name, k, P[k - 1], P[k])
  <2> DEFINE T == {k \in 0..n : Wants(P[k]) <=> k > 0 /\ FlagIn(given[k], {name})}
  <2>1. 0 \in T
    <3>1. ~Wants(P[0])
      BY <1>7 DEF Wants, NoToken
    <3>2. 0 \in 0..n /\ ~(0 > 0)
      BY <1>1
    <3>3. QED BY <3>1, <3>2
  <2>2. ASSUME NEW k \in 1..n, k - 1 \in T
        PROVE  k \in T /\ TokenTaken(c, given, names, name, k, P[k - 1], P[k])
    <3>1. Wants(P[k - 1]) <=> k > 1 /\ FlagIn(given[k - 1], {name})
      <4>1. k - 1 > 0 <=> k > 1
        BY <1>1
      <4>2. QED BY <2>2, <4>1
    <3>2. TokenTaken(c, given, names, name, k, P[k - 1], P[k])
      BY <1>10, <3>1
    <3>3. Wants(P[k]) <=> FlagIn(given[k], {name})
      BY <3>2 DEF TokenTaken
    <3>4. k \in 0..n /\ k > 0
      BY <1>1
    <3>5. QED BY <3>2, <3>3, <3>4
  <2> HIDE DEF T
  <2>3. 0..n \subseteq T
    BY <1>1, <2>1, <2>2, StepsInduction
  <2>4. QED
    <3> SUFFICES ASSUME NEW k \in 1..n PROVE TokenTaken(c, given, names, name, k, P[k - 1], P[k])
      OBVIOUS
    <3>1. k - 1 \in 0..n
      BY <1>1
    <3>2. QED BY <2>2, <2>3, <3>1
<1>12. ~Wants(P[n])
  <2>1. CASE n = 0
    BY <1>7, <2>1 DEF Wants, NoToken
  <2>2. CASE n # 0
    <3>1. n \in 1..n
      BY <1>1, <2>2
    <3>2. Wants(P[n]) <=> FlagIn(given[n], {name})
      BY <1>11, <3>1 DEF TokenTaken
    <3>3. ~FlagIn(given[n], ToSet(c.values))
      BY <1>1, <3>1 DEF Complete
    <3>4. QED BY <3>2, <3>3 DEF FlagIn
  <2>3. QED BY <2>1, <2>2
<1>13. PICK v : v = [k \in 0..n |-> P[k].value]
  OBVIOUS
<1>14. PICK h : h = [k \in 0..n |-> P[k].kept]
  OBVIOUS
<1>15. \A k \in 1..n : h[k] = P[k].kept /\ h[k - 1] = P[k - 1].kept /\ v[k] = P[k].value /\ v[k - 1] = P[k - 1].value
  <2>1. \A k \in 1..n : k \in 0..n /\ k - 1 \in 0..n
    BY <1>1
  <2>2. QED BY <1>13, <1>14, <2>1
<1>16. h[0] = <<>> /\ v[0] = NoText /\ h[n] = P[n].kept /\ v[n] = P[n].value
  <2>1. 0 \in 0..n /\ n \in 0..n
    BY <1>1
  <2>2. P[0].kept = <<>> /\ P[0].value = NoText
    BY <1>7 DEF NoToken
  <2>3. QED BY <1>13, <1>14, <2>1, <2>2
<1>17. LeftSteps(c, given, names \cup {name}, h)
  <2>1. \A k \in 1..n : h[k] = IF Taken(c, given, names \cup {name}, k) THEN h[k - 1] ELSE Append(h[k - 1], given[k])
    <3> SUFFICES ASSUME NEW k \in 1..n
                 PROVE  h[k] = IF Taken(c, given, names \cup {name}, k) THEN h[k - 1] ELSE Append(h[k - 1], given[k])
      OBVIOUS
    <3>1. P[k].kept = IF Taken(c, given, names \cup {name}, k) THEN P[k - 1].kept ELSE Append(P[k - 1].kept, given[k])
      <4>1. TokenTaken(c, given, names, name, k, P[k - 1], P[k])
        BY <1>11
      <4>2. QED BY <4>1, Zenon DEF TokenTaken
    <3>2. QED BY <1>15, <3>1
  <2>2. QED BY <1>1, <1>16, <2>1 DEF LeftSteps
<1>18. ValueSteps(given, name, v)
  <2>1. ASSUME NEW k \in 1..n
        PROVE  v[k] = IF k > 1 /\ FlagIn(given[k - 1], {name}) THEN Text(given[k])
                      ELSE IF given[k].kind = "assign" /\ given[k].flag = name THEN given[k].value ELSE v[k - 1]
    <3>1. TokenTaken(c, given, names, name, k, P[k - 1], P[k])
      BY <1>11
    <3>2. PICK pass, next : pass = P[k - 1] /\ next = P[k]
      OBVIOUS
    <3>3. PICK text : text = Text(given[k])
      OBVIOUS
    <3>4. next.value = IF k > 1 /\ FlagIn(given[k - 1], {name}) THEN text
                       ELSE IF given[k].kind = "assign" /\ given[k].flag = name THEN given[k].value ELSE pass.value
      BY <3>1, <3>2, <3>3, Zenon DEF TokenTaken
    <3>5. v[k] = next.value /\ v[k - 1] = pass.value
      BY <1>15, <3>2
    <3>6. QED BY <3>3, <3>4, <3>5
  <2>2. QED BY <1>1, <1>16, <2>1 DEF ValueSteps
<1>19. PICK string : string = TakeString(g[n], name, c.known)
  OBVIOUS
<1>20. string = [kept |-> P[n].kept, value |-> P[n].value]
  <2>1. PICK pass : pass = TakePass(g[n], name, c.known)
    OBVIOUS
  <2>2. pass = P[n]
    <3>1. n \in 0..n
      BY <1>1
    <3>2. QED BY <1>6, <2>1, <3>1
  <2>3. ~pass.wants
    BY <1>12, <2>2 DEF Wants
  <2>4. QED BY <1>19, <2>1, <2>2, <2>3 DEF TakeString
<1>21. ASSUME name \in NumberFlags, NEW t \in ToSet(g[n]), t.flag = name, t.kind \in {"flag", "assign"}
       PROVE  string.value = "number"
  <2> DEFINE Occurs(k) == \E i \in 1..k : IsKnown(given[i], {name})
             T == {k \in 0..n : Occurs(k) => (k > 0 /\ FlagIn(given[k], {name})) \/ v[k] = "number"}
  <2>1. 0 \in T
    BY <1>1
  <2>2. ASSUME NEW k \in 1..n, k - 1 \in T PROVE k \in T
    <3> SUFFICES ASSUME Occurs(k), ~FlagIn(given[k], {name}) PROVE v[k] = "number"
      <4>1. k \in 0..n /\ k > 0
        BY <1>1
      <4> HIDE DEF Occurs
      <4>2. QED BY <4>1
    <3>1. PICK t2 \in S : t2 = given[k] /\ IsToken(t2)
      BY <1>1
    <3>2. CASE k > 1 /\ FlagIn(given[k - 1], {name})
      <4>1. v[k] = Text(t2)
        BY <1>1, <1>18, <3>1, <3>2 DEF ValueSteps
      <4>2. t2.kind \notin {"flag", "assign"} /\ Good(given[k - 1].flag, t2.value)
        <5>1. k - 1 \in 1..n /\ (k - 1) + 1 = k /\ FlagIn(given[k - 1], ToSet(c.values))
          BY <1>1, <3>2 DEF FlagIn
        <5>2. QED BY <1>1, <3>1, <5>1 DEF Complete
      <4>3. t2.value = "number"
        BY <1>21, <3>2, <4>2 DEF Good, FlagIn
      <4>4. Text(t2) = "number"
        BY <3>1, <4>2, <4>3, NumberToken
      <4>5. QED BY <4>1, <4>4
    <3>3. CASE ~(k > 1 /\ FlagIn(given[k - 1], {name})) /\ t2.kind = "assign" /\ t2.flag = name
      <4>1. v[k] = t2.value
        BY <1>1, <1>18, <3>1, <3>3 DEF ValueSteps
      <4>2. t2.value = "number"
        BY <1>1, <1>21, <3>1, <3>3 DEF Complete, Good
      <4>3. QED BY <4>1, <4>2
    <3>4. CASE ~(k > 1 /\ FlagIn(given[k - 1], {name})) /\ ~(t2.kind = "assign" /\ t2.flag = name)
      <4>1. v[k] = v[k - 1]
        BY <1>1, <1>18, <3>1, <3>4 DEF ValueSteps
      <4>2. ~IsKnown(given[k], {name})
        BY <3>1, <3>4 DEF IsKnown, FlagIn
      <4>3. Occurs(k - 1)
        <5>1. PICK i \in 1..k : IsKnown(given[i], {name})
          OBVIOUS
        <5>2. i \in 1..(k - 1)
          BY <1>1, <4>2, <5>1
        <5>3. QED BY <5>1, <5>2
      <4>4. ~(k - 1 > 0 /\ FlagIn(given[k - 1], {name}))
        BY <1>1, <3>4
      <4>5. QED BY <2>2, <4>1, <4>3, <4>4
    <3>5. QED BY <3>2, <3>3, <3>4
  <2>3. 0..n \subseteq T
    <3> HIDE DEF T
    <3> QED BY <1>1, <2>1, <2>2, StepsInduction
  <2>4. Occurs(n)
    <3>1. t \in ToSet(given)
      <4>1. given \in Seq(ToSet(given))
        BY <1>1 DEF ToSet
      <4>2. \A k \in 0..n : g[k] \in Seq(ToSet(given))
        BY <1>1, <4>1, LeftType
      <4>3. g[n] \in Seq(ToSet(given))
        BY <1>1, <4>2
      <4>4. PICK words \in Seq(ToSet(given)) : words = g[n]
        BY <4>3
      <4>5. \E i \in 1..Len(words) : t = words[i]
        BY <1>21, <4>4 DEF ToSet
      <4>6. QED BY <4>4, <4>5
    <3>2. PICK i \in 1..n : given[i] = t
      BY <1>1, <3>1 DEF ToSet
    <3>3. QED BY <1>21, <3>2 DEF IsKnown
  <2>5. ~(n > 0 /\ FlagIn(given[n], {name}))
    <3> SUFFICES ASSUME n > 0, FlagIn(given[n], {name}) PROVE FALSE
      OBVIOUS
    <3>1. n \in 1..n /\ FlagIn(given[n], ToSet(c.values))
      BY <1>1 DEF FlagIn
    <3>2. QED BY <1>1, <3>1 DEF Complete
  <2>6. n \in T
    <3> HIDE DEF T
    <3>1. n \in 0..n
      BY <1>1
    <3>2. QED BY <2>3, <3>1
  <2> HIDE DEF Occurs
  <2>7. v[n] = "number"
    BY <2>4, <2>5, <2>6
  <2>8. QED BY <1>16, <1>20, <2>7
<1>22. taken = string
  <2>1. taken = CheckNumber(string, g[n], name)
    BY <1>b, <1>1, <1>19
  <2>2. ~(name \in NumberFlags /\ (\E t \in ToSet(g[n]) : t.flag = name /\ t.kind \in {"flag", "assign"}) /\ string.value # "number")
    BY <1>21
  <2>3. QED BY <2>1, <2>2 DEF CheckNumber
<1>23. taken.kept = h[n] /\ taken.value = v[n]
  BY <1>16, <1>20, <1>22
<1>24. QED BY <1>b, <1>1, <1>17, <1>18, <1>23 DEF AfterFlag

\* All the passes: what is left and given does not depend on the order of the flags.
LEMMA PassesTaken ==
  ASSUME NEW c, Proper(c), NEW S, NEW given \in Seq(S), \A t \in S : IsToken(t), Complete(c, given),
         NEW parsed, parsed = Passes(c, given)
  PROVE  /\ parsed.switches = {t.flag : t \in {u \in ToSet(given) : u.kind = "flag" /\ u.flag \in c.switches}}
         /\ \E g : LeftSteps(c, given, ToSet(c.values), g) /\ g[Len(given)] = parsed.rest
         /\ DOMAIN parsed.values = ToSet(c.values)
         /\ \A name \in ToSet(c.values) : \E v : ValueSteps(given, name, v) /\ v[Len(given)] = parsed.values[name]
<1>1. PICK n : n = Len(given) /\ n \in Nat /\ \A k \in 1..n : given[k] \in S
  OBVIOUS
<1>2. PICK S2 : S2 = S \cup Marks(ToSet(c.values))
  OBVIOUS
<1>3. PICK m : m = Len(c.values) /\ m \in Nat /\ \A j \in 1..m : c.values[j] \in ToSet(c.values)
  BY DEF Proper
<1>4. given \in Seq(S2) /\ Marks(ToSet(c.values)) \subseteq S2 /\ c.values \in Seq(ToSet(c.values))
  BY <1>2 DEF Proper
<1>5. PICK p : FlagSteps(c, given, p)
  BY <1>4, PassesSteps
<1>6. p[0] = TakeSwitches(c, given) /\ p[m] = parsed /\ \A j \in 1..m : p[j] = TakeFlag(c, p[j - 1], c.values[j])
  BY <1>3, <1>5 DEF FlagSteps
<1>7. PICK switches : switches = {t.flag : t \in {u \in ToSet(given) : u.kind = "flag" /\ u.flag \in c.switches}}
  OBVIOUS
<1> DEFINE First(j) == {c.values[i] : i \in 1..j}
           Read(j) ==
             /\ p[j].switches = switches
             /\ p[j] = [switches |-> p[j].switches, values |-> p[j].values, rest |-> p[j].rest]
             /\ \E g : LeftSteps(c, given, First(j), g) /\ g[n] = p[j].rest
             /\ DOMAIN p[j].values = First(j)
             /\ \A name \in First(j) : \E v : ValueSteps(given, name, v) /\ v[n] = p[j].values[name]
           T == {j \in 0..m : Read(j)}
<1>8. 0 \in T
  <2>1. PICK start : start = TakeSwitches(c, given)
    OBVIOUS
  <2>2. First(0) = {} /\ 0 \in 0..m
    BY <1>3
  <2>3. /\ start = [switches |-> start.switches, values |-> start.values, rest |-> start.rest]
        /\ start.switches = switches /\ DOMAIN start.values = {} /\ start.rest = Without(given, c.switches)
    BY <1>7, <2>1 DEF TakeSwitches
  <2>4. PICK g : WithoutSteps(given, c.switches, g)
    BY WithoutRead
  <2>5. LeftSteps(c, given, {}, g) /\ g[n] = start.rest
    <3>1. \A k \in 1..n : Taken(c, given, {}, k) <=> FlagIn(given[k], c.switches)
      BY DEF Taken, FlagIn, IsKnown
    <3>2. QED BY <1>1, <2>3, <2>4, <3>1 DEF WithoutSteps, LeftSteps
  <2>6. p[0] = start
    BY <1>6, <2>1
  <2> HIDE DEF First
  <2>7. Read(0)
    BY <2>2, <2>3, <2>5, <2>6
  <2>8. QED BY <2>2, <2>7
<1>9. ASSUME NEW j \in 1..m, j - 1 \in T PROVE j \in T
  <2>1. PICK name \in ToSet(c.values) : name = c.values[j]
    BY <1>3
  <2>2. PICK names \in SUBSET ToSet(c.values) : names = First(j - 1)
    <3>1. \A i \in 1..(j - 1) : i \in 1..m
      BY <1>3
    <3>2. First(j - 1) \subseteq ToSet(c.values)
      BY <1>3, <3>1
    <3>3. QED BY <3>2
  <2>3. name \notin names
    <3>1. ASSUME NEW i \in 1..(j - 1) PROVE c.values[i] # name
      <4>1. i \in 1..m /\ i # j
        BY <1>3
      <4>2. QED BY <1>3, <2>1, <4>1 DEF Proper
    <3>2. QED BY <2>2, <3>1
  <2>4. First(j) = names \cup {name}
    <3>1. \A i : i \in 1..j <=> i \in 1..(j - 1) \/ i = j
      BY <1>3
    <3>2. QED BY <2>1, <2>2, <3>1
  <2>5. PICK q, r : q = p[j - 1] /\ r = p[j]
    OBVIOUS
  <2>6. Read(j - 1)
    BY <1>9
  <2> HIDE DEF First
  <2>7. /\ q.switches = switches
        /\ q = [switches |-> q.switches, values |-> q.values, rest |-> q.rest]
        /\ DOMAIN q.values = names
        /\ \A other \in names : \E v : ValueSteps(given, other, v) /\ v[n] = q.values[other]
    BY <2>2, <2>5, <2>6
  <2>8. PICK g : LeftSteps(c, given, names, g) /\ g[n] = q.rest
    BY <2>2, <2>5, <2>6
  <2>9. PICK taken : taken = CheckNumber(TakeString(q.rest, name, c.known), q.rest, name)
    OBVIOUS
  <2>10. AfterFlag(c, given, names, name, g)
    <3>1. BeforeFlag(c, S, given, names, name, g)
      BY <2>3, <2>8 DEF BeforeFlag
    <3>2. QED BY <3>1, FlagTaken
  <2>11. /\ \E h : LeftSteps(c, given, names \cup {name}, h) /\ h[Len(given)] = taken.kept
         /\ \E v : ValueSteps(given, name, v) /\ v[Len(given)] = taken.value
    BY <1>1, <2>8, <2>9, <2>10 DEF AfterFlag
  <2>12. PICK more : more = [x \in DOMAIN q.values \cup {name} |-> IF x = name THEN taken.value ELSE q.values[x]]
    OBVIOUS
  <2>13. r = [q EXCEPT !.rest = taken.kept, !.values = more]
    BY <1>6, <2>1, <2>5, <2>9, <2>12 DEF TakeFlag
  <2>14. r = [switches |-> switches, values |-> more, rest |-> taken.kept]
    BY <2>7, <2>13
  <2>15. r.switches = switches /\ r.values = more /\ r.rest = taken.kept /\ r = [switches |-> r.switches, values |-> r.values, rest |-> r.rest]
    BY <2>14
  <2>16. DOMAIN r.values = names \cup {name}
    BY <2>7, <2>12, <2>15
  <2>17. ASSUME NEW other \in names \cup {name} PROVE \E v : ValueSteps(given, other, v) /\ v[n] = r.values[other]
    <3>1. CASE other = name
      <4>1. r.values[other] = taken.value
        BY <2>12, <2>15, <3>1
      <4>2. QED BY <1>1, <2>11, <3>1, <4>1
    <3>2. CASE other # name
      <4>1. other \in names /\ r.values[other] = q.values[other]
        BY <2>7, <2>12, <2>15, <2>17, <3>2
      <4>2. QED BY <2>7, <4>1
    <3>3. QED BY <3>1, <3>2
  <2>18. Read(j)
    BY <1>1, <2>4, <2>5, <2>11, <2>15, <2>16, <2>17
  <2>19. j \in 0..m
    BY <1>3
  <2>20. QED BY <2>18, <2>19
<1>10. Read(m)
  <2> HIDE DEF Read
  <2>1. 0..m \subseteq T
    <3> HIDE DEF T
    <3> QED BY <1>3, <1>8, <1>9, StepsInduction
  <2>2. m \in 0..m
    BY <1>3
  <2>3. QED BY <2>1, <2>2
<1>11. First(m) = ToSet(c.values)
  BY <1>3, <1>4 DEF ToSet
<1> HIDE DEF First
<1>12. QED BY <1>1, <1>6, <1>7, <1>10, <1>11

\* A line that makes sense is read the same by the passes.
LEMMA PassesAgree ==
  ASSUME NEW c, Proper(c), NEW S, NEW given \in Seq(S), \A t \in S : IsToken(t),
         NEW w, w = LeftToRight(c, given), InOrder(w), w.flag = NoText, NEW parsed, parsed = Passes(c, given)
  PROVE  /\ parsed.switches = w.switches /\ parsed.rest = w.rest
         /\ \A name \in DOMAIN parsed.values : parsed.values[name] = w.values[name]
<1>1. /\ Complete(c, given)
      /\ w.switches = {given[i].flag : i \in {k \in 1..Len(given) : FlagIn(given[k], c.switches)}}
      /\ \E g : LeftSteps(c, given, ToSet(c.values), g) /\ g[Len(given)] = w.rest
      /\ \A name \in ToSet(c.values) : \E v : ValueSteps(given, name, v) /\ v[Len(given)] = w.values[name]
  BY WrittenRead
<1>2. /\ parsed.switches = {t.flag : t \in {u \in ToSet(given) : u.kind = "flag" /\ u.flag \in c.switches}}
      /\ \E g : LeftSteps(c, given, ToSet(c.values), g) /\ g[Len(given)] = parsed.rest
      /\ DOMAIN parsed.values = ToSet(c.values)
      /\ \A name \in ToSet(c.values) : \E v : ValueSteps(given, name, v) /\ v[Len(given)] = parsed.values[name]
  BY <1>1, PassesTaken
<1>3. parsed.switches = w.switches
  <2>1. ToSet(given) = {given[i] : i \in 1..Len(given)}
    BY DEF ToSet
  <2>2. QED BY <1>1, <1>2, <2>1 DEF FlagIn
<1>4. parsed.rest = w.rest
  <2>1. PICK g : LeftSteps(c, given, ToSet(c.values), g) /\ g[Len(given)] = w.rest
    BY <1>1
  <2>2. PICK h : LeftSteps(c, given, ToSet(c.values), h) /\ h[Len(given)] = parsed.rest
    BY <1>2
  <2>3. QED BY <2>1, <2>2, LeftUnique
<1>5. ASSUME NEW name \in DOMAIN parsed.values PROVE parsed.values[name] = w.values[name]
  <2>1. PICK v : ValueSteps(given, name, v) /\ v[Len(given)] = w.values[name]
    BY <1>1, <1>2
  <2>2. PICK u : ValueSteps(given, name, u) /\ u[Len(given)] = parsed.values[name]
    BY <1>2
  <2>3. QED BY <2>1, <2>2, ValueUnique
<1>6. QED BY <1>3, <1>4, <1>5

-----------------------------------------------------------------------------
(* The flags of the commands.                                               *)

SwitchNames == Json \cup Confirm \cup
  {"--force", "--plan", "--all-versions", "--installed", "--available", "--ndjson", "--open", "--print"}
ValueNames == ToSet(RecordFlags) \cup
  {"--input", "--timeout-ms", "--output-limit-bytes", "--agent-name", "--goal", "--file", "--platforms", "--accounts", "--out",
   "--base-url", "--version", "--package-prefix", "--skills", "--challenge", "--addr", "--allow-origin"}

\* The flags of a command that take a value, each once.
Flags(values) ==
  values \in Seq(ValueNames) /\ \A i, j \in 1..Len(values) : values[i] = values[j] => i = j

LEMMA FlagNames == SwitchNames \cap ValueNames = {} /\ NoText \notin ValueNames
<1>1. ToSet(RecordFlags) =
        {"--pack-id", "--scenario-id", "--skill", "--status", "--type", "--currency", "--from", "--to", "--limit"}
  BY DEF ToSet, RecordFlags
<1>2. SwitchNames \cap ValueNames = {}
  BY <1>1 DEF SwitchNames, ValueNames, Json, Confirm
<1>3. NoText \notin ValueNames
  BY <1>1, Zenon DEF ValueNames, NoText
<1>4. QED BY <1>2, <1>3

LEMMA TakesProper ==
  ASSUME NEW switches \in SUBSET SwitchNames, NEW values, Flags(values), NEW c,
         c.switches = switches, c.values = values
  PROVE  Proper(c)
<1>1. ToSet(values) \subseteq ValueNames
  BY DEF Flags, ToSet
<1>2. values \in Seq(ToSet(values))
  BY DEF Flags, ToSet
<1>3. QED BY <1>1, <1>2, FlagNames DEF Flags, Proper

LEMMA SomeFlags ==
  /\ Flags(<<>>) /\ Flags(RecordFlags) /\ Flags(<<"--out">> \o RecordFlags)
  /\ Flags(<<"--input", "--timeout-ms", "--output-limit-bytes", "--scenario-id", "--agent-name", "--goal">>)
  /\ Flags(<<"--file", "--platforms", "--accounts">>)
  /\ Flags(<<"--out", "--base-url", "--version", "--package-prefix", "--skills", "--platforms", "--accounts">>)
  /\ Flags(<<"--limit">>) /\ Flags(<<"--to">>) /\ Flags(<<"--pack-id">>) /\ Flags(<<"--scenario-id", "--pack-id">>)
  /\ Flags(<<"--challenge">>) /\ Flags(<<"--addr", "--allow-origin">>)
<1>1. ToSet(RecordFlags) =
        {"--pack-id", "--scenario-id", "--skill", "--status", "--type", "--currency", "--from", "--to", "--limit"}
  BY DEF ToSet, RecordFlags
<1>2. Flags(<<>>)
  BY DEF Flags
<1>3. Flags(RecordFlags)
  BY <1>1 DEF Flags, ValueNames, RecordFlags
<1>4. Flags(<<"--out">> \o RecordFlags)
  <2>1. RecordFlags \in Seq(ValueNames) /\ Len(RecordFlags) = 9
    BY <1>3 DEF Flags, RecordFlags
  <2>2. "--out" \notin ToSet(RecordFlags) /\ "--out" \in ValueNames
    BY <1>1 DEF ValueNames
  <2>3. PICK s : s = RecordFlags
    OBVIOUS
  <2>4. \A i \in 1..Len(s) : s[i] # "--out"
    BY <2>2, <2>3 DEF ToSet
  <2>5. PICK all : all = <<"--out">> \o s
    OBVIOUS
  <2>6. all \in Seq(ValueNames) /\ Len(all) = 10 /\ \A i \in 1..10 : all[i] = IF i = 1 THEN "--out" ELSE s[i - 1]
    <3>1. <<"--out">> \in Seq(ValueNames) /\ Len(<<"--out">>) = 1 /\ <<"--out">>[1] = "--out"
      BY <2>2
    <3>2. PICK one : one = <<"--out">>
      OBVIOUS
    <3>3. one \in Seq(ValueNames) /\ s \in Seq(ValueNames) /\ Len(one) = 1 /\ Len(s) = 9 /\ one[1] = "--out" /\ all = one \o s
      BY <2>1, <2>3, <2>5, <3>1, <3>2
    <3>4. PICK a, b : a = Len(one) /\ b = Len(s)
      OBVIOUS
    <3>5. /\ all \in Seq(ValueNames) /\ Len(all) = a + b
          /\ \A i \in 1..a + b : all[i] = IF i <= a THEN one[i] ELSE s[i - a]
      BY <3>3, <3>4, ConcatProperties
    <3>6. a = 1 /\ b = 9 /\ one[1] = "--out"
      BY <3>3, <3>4
    <3>7. \A i \in 1..10 : all[i] = IF i <= 1 THEN one[i] ELSE s[i - 1]
      BY <3>5, <3>6
    <3>8. \A i \in 1..10 : i <= 1 => i = 1
      OBVIOUS
    <3>9. QED BY <3>5, <3>6, <3>7, <3>8
  <2>8. \A i, j \in 1..9 : s[i] = s[j] => i = j
    BY <1>3, <2>1, <2>3 DEF Flags
  <2>9. ASSUME NEW i \in 1..10, NEW j \in 1..10, all[i] = all[j] PROVE i = j
    <3>1. Len(s) = 9 /\ \A k \in 1..9 : s[k] # "--out"
      BY <2>1, <2>3, <2>4
    <3>2. CASE i = 1
      <4>1. all[j] = "--out"
        BY <2>6, <2>9, <3>2
      <4>2. QED BY <2>6, <3>1, <3>2, <4>1
    <3>3. CASE j = 1
      <4>1. all[i] = "--out"
        BY <2>6, <2>9, <3>3
      <4>2. QED BY <2>6, <3>1, <3>3, <4>1
    <3>4. CASE i # 1 /\ j # 1
      <4>1. i - 1 \in 1..9 /\ j - 1 \in 1..9
        BY <3>4
      <4>2. all[i] = s[i - 1]
        BY <2>6, <3>4
      <4>3. all[j] = s[j - 1]
        BY <2>6, <3>4
      <4>4. i - 1 = j - 1
        BY <2>8, <2>9, <4>1, <4>2, <4>3
      <4>5. QED BY <4>4
    <3>5. QED BY <3>2, <3>3, <3>4
  <2>10. QED BY <2>3, <2>5, <2>6, <2>9 DEF Flags
<1>5. Flags(<<"--input", "--timeout-ms", "--output-limit-bytes", "--scenario-id", "--agent-name", "--goal">>)
  BY <1>1 DEF Flags, ValueNames
<1>6. /\ Flags(<<"--file", "--platforms", "--accounts">>)
      /\ Flags(<<"--out", "--base-url", "--version", "--package-prefix", "--skills", "--platforms", "--accounts">>)
  BY <1>1 DEF Flags, ValueNames
<1>7. /\ Flags(<<"--limit">>) /\ Flags(<<"--to">>) /\ Flags(<<"--pack-id">>) /\ Flags(<<"--scenario-id", "--pack-id">>)
      /\ Flags(<<"--challenge">>) /\ Flags(<<"--addr", "--allow-origin">>)
  BY <1>1 DEF Flags, ValueNames
<1>8. QED BY <1>2, <1>3, <1>4, <1>5, <1>6, <1>7

AllProper(table) == \A e \in DOMAIN table : Proper(table[e])

LEMMA TablesProper ==
  /\ AllProper(ConfigCommands) /\ AllProper(FindCommand) /\ AllProper(InstallCommand) /\ AllProper(RemoveCommands)
  /\ AllProper(VersionCommands) /\ AllProper(RunCommand) /\ AllProper(InspectCommands) /\ AllProper(RegistryCommands)
  /\ AllProper(PackCommands) /\ AllProper(RecordCommands) /\ AllProper(ProofCommands) /\ AllProper(AuthCommands)
  /\ AllProper(DeviceCommands) /\ AllProper(AgentCommands)
<1>1. \A switches \in SUBSET SwitchNames : \A values, least, most : Flags(values) => Proper(Takes(switches, values, least, most))
  <2> SUFFICES ASSUME NEW switches \in SUBSET SwitchNames, NEW values, NEW least, NEW most, Flags(values)
               PROVE  Proper(Takes(switches, values, least, most))
    OBVIOUS
  <2>1. PICK c : c = Takes(switches, values, least, most)
    OBVIOUS
  <2>2. c.switches = switches /\ c.values = values
    BY <2>1 DEF Takes
  <2>3. QED BY <2>1, <2>2, TakesProper
<1>2. /\ Json \subseteq SwitchNames /\ Json \cup Confirm \subseteq SwitchNames /\ Json \cup Confirm \cup {"--plan"} \subseteq SwitchNames
      /\ Json \cup {"--force"} \subseteq SwitchNames /\ Json \cup {"--ndjson"} \subseteq SwitchNames
      /\ Json \cup {"--open"} \subseteq SwitchNames /\ Json \cup {"--print"} \subseteq SwitchNames
      /\ Json \cup Confirm \cup {"--plan", "--all-versions"} \subseteq SwitchNames
      /\ Json \cup {"--installed", "--available"} \subseteq SwitchNames
  BY DEF SwitchNames
<1>3. AllProper(ConfigCommands) /\ AllProper(FindCommand) /\ AllProper(InstallCommand) /\ AllProper(RemoveCommands)
  BY <1>1, <1>2, SomeFlags DEF AllProper, ConfigCommands, FindCommand, InstallCommand, RemoveCommands
<1>4. AllProper(VersionCommands) /\ AllProper(RunCommand) /\ AllProper(InspectCommands) /\ AllProper(RegistryCommands)
  BY <1>1, <1>2, SomeFlags DEF AllProper, VersionCommands, RunCommand, InspectCommands, RegistryCommands
<1>5. AllProper(PackCommands) /\ AllProper(ProofCommands) /\ AllProper(AuthCommands)
  BY <1>1, <1>2, SomeFlags DEF AllProper, PackCommands, ProofCommands, AuthCommands
<1>6. AllProper(DeviceCommands) /\ AllProper(AgentCommands)
  BY <1>1, <1>2, SomeFlags DEF AllProper, DeviceCommands, AgentCommands
<1>7. AllProper(RecordCommands)
  <2>1. PICK some, fewer : some = Takes(Json, RecordFlags, 0, 0) /\ fewer = [some EXCEPT !.known = Json \cup {"--status", "--from", "--to", "--limit"}]
    OBVIOUS
  <2>2. fewer.switches = Json /\ fewer.values = RecordFlags
    BY <2>1 DEF Takes
  <2>3. Proper(fewer)
    BY <1>2, <2>2, SomeFlags, TakesProper
  <2>4. RecordCommands["commerce_receipts"] = fewer
    BY <2>1 DEF RecordCommands
  <2>5. /\ Proper(RecordCommands["commerce_scenario_ledger"])
        /\ Proper(RecordCommands["commerce_install_records"]) /\ Proper(RecordCommands["commerce_billing_records"])
    BY <1>1, <1>2, SomeFlags DEF RecordCommands
  <2>6. QED BY <2>3, <2>4, <2>5, CommandDomains DEF AllProper
<1>8. QED BY <1>3, <1>4, <1>5, <1>6, <1>7

\* Every entry of a joined table is an entry of one of the tables.
LEMMA JoinedFrom ==
  ASSUME NEW T, NEW e \in DOMAIN Joined(T)
  PROVE  \E t \in T : e \in DOMAIN t /\ Joined(T)[e] = t[e]
<1> DEFINE c == CHOOSE u \in T : e \in DOMAIN u
<1>1. e \in UNION {DOMAIN u : u \in T} /\ Joined(T)[e] = c[e]
  BY DEF Joined
<1>2. \E u \in T : e \in DOMAIN u
  BY <1>1
<1>3. c \in T /\ e \in DOMAIN c
  BY <1>2
<1>4. QED BY <1>1, <1>3

LEMMA CommandsProper == ASSUME NEW command \in CommandNames PROVE Proper(Commands[command])
<1> DEFINE T == {ConfigCommands, FindCommand, InstallCommand, RemoveCommands, VersionCommands, RunCommand, InspectCommands,
                 RegistryCommands, PackCommands, RecordCommands, ProofCommands, AuthCommands, DeviceCommands, AgentCommands}
<1>1. \A t \in T : AllProper(t)
  BY TablesProper
<1>2. Commands = Joined(T)
  BY DEF Commands
<1> HIDE DEF T
<1>3. PICK t \in T : command \in DOMAIN t /\ Commands[command] = t[command]
  BY <1>2, JoinedFrom DEF CommandNames
<1>4. QED BY <1>1, <1>3 DEF AllProper

-----------------------------------------------------------------------------
(* The command line in hand, read both ways.                                *)

\* What comes before the dashes is a part of the line.
LEMMA BeforeDashesType ==
  ASSUME NEW command, NEW S, NEW args \in Seq(S)
  PROVE  BeforeDashes(command, args) \in Seq(S)
<1>1. CASE ~(command = "run" /\ Dashes \in ToSet(args))
  BY <1>1 DEF BeforeDashes
<1>2. CASE command = "run" /\ Dashes \in ToSet(args)
  <2> DEFINE At == {i \in 1..Len(args) : args[i] = Dashes}
             k == SelectInSeq(args, LAMBDA t : t = Dashes)
  <2>1. k = IF At # {} THEN Min(At) ELSE 0
    BY DEF SelectInSeq
  <2>2. At # {}
    BY <1>2 DEF ToSet
  <2>3. At \subseteq Nat /\ At \subseteq 1..Len(args)
    OBVIOUS
  <2>4. \E i \in At : \A j \in At : i <= j
    BY <2>2, <2>3, SmallestIn
  <2>5. k \in 1..Len(args)
    BY <2>1, <2>2, <2>3, <2>4 DEF Min
  <2>6. BeforeDashes(command, args) = SubSeq(args, 1, k - 1)
    BY <1>2, Zenon DEF BeforeDashes
  <2> HIDE DEF k
  <2>7. \A i \in 1..(k - 1) : args[i] \in S
    BY <2>5
  <2>8. QED BY <2>5, <2>6, <2>7, SubSeqProperties
<1>3. QED BY <1>1, <1>2

\* The line in hand is one of a command, made of its tokens.
LineInv ==
  /\ stage = "reading" /\ front = "cli" => request.about \in CommandNames
  /\ "cmd" \in DOMAIN request =>
       \E command \in CommandNames : request.cmd \in [command : {command}, args : Seq(Tokens(command)), typed : BOOLEAN]

LEMMA LineInvStart == Init => LineInv
BY DEF Init, LineInv, NoRequest

LEMMA LineStep == LineInv /\ [Next]_vars => LineInv'
<1> SUFFICES ASSUME LineInv, [Next]_vars PROVE LineInv'
  OBVIOUS
<1>1. ASSUME NEW subject, About(subject), front' = "cli" => subject \in CommandNames PROVE LineInv'
  <2>1. request' = [from |-> front', about |-> subject]
    BY <1>1 DEF About
  <2>2. QED BY <1>1, <2>1 DEF LineInv
<1>2. ASSUME stage' # "reading", "cmd" \notin DOMAIN request' PROVE LineInv'
  BY <1>2 DEF LineInv
<1>3. ASSUME stage' # "reading", UNCHANGED request PROVE LineInv'
  BY <1>3 DEF LineInv
<1>4. ASSUME NEW given, Settle(given) PROVE stage' # "reading"
  BY <1>4 DEF Settle
<1>5. CASE \E command \in CommandNames : Main(command)
  BY <1>1, <1>5 DEF Main
<1>6. CASE \E tool \in ToolNames \cup {"no_such_tool"} : CallTool(tool)
  BY <1>1, <1>6 DEF CallTool
<1>7. CASE \E path \in ReadPaths \cup MutationPaths \cup {"/elsewhere"} : Path(path)
  BY <1>1, <1>7 DEF Path
<1>8. CASE Command
  <2>1. PICK about : about = request.about /\ about \in CommandNames
    BY <1>8 DEF Command, LineInv
  <2>2. PICK n \in 0..MaxArgs, terminal \in BOOLEAN : \E args \in [1..n -> Tokens(about)] :
          /\ request' = [from |-> "cli", cmd |-> [command |-> about, args |-> args, typed |-> FALSE],
                         method |-> CommandMethod(about, Parse(about, args))]
          /\ Settle(CommandVerdict(about, Parse(about, args), terminal))
    BY <1>8, <2>1 DEF Command
  <2>3. PICK args \in [1..n -> Tokens(about)] :
          /\ request' = [from |-> "cli", cmd |-> [command |-> about, args |-> args, typed |-> FALSE],
                         method |-> CommandMethod(about, Parse(about, args))]
          /\ Settle(CommandVerdict(about, Parse(about, args), terminal))
    BY <2>2
  <2>4. args \in Seq(Tokens(about))
    BY <2>2, <2>3, FrontEndsAssumption
  <2>5. request'.cmd \in [command : {about}, args : Seq(Tokens(about)), typed : BOOLEAN]
    BY <2>3, <2>4
  <2>6. stage' # "reading"
    BY <1>4, <2>3
  <2>7. QED BY <2>1, <2>5, <2>6 DEF LineInv
<1>9. CASE AnyMessage \/ ToolMessage
  <2>1. PICK e, framed, call : Message(e, framed, call)
    BY <1>9 DEF AnyMessage, ToolMessage
  <2>2. stage' # "reading"
    BY <1>4, <2>1 DEF Message
  <2>3. "cmd" \notin DOMAIN request'
    BY <2>1 DEF Message
  <2>4. QED BY <1>2, <2>2, <2>3
<1>10. CASE HttpRequest
  <2>1. PICK req : request' = [from |-> "http", req |-> req, method |-> HttpMethod(req)] /\ Settle(HttpVerdict(req))
    BY <1>10 DEF HttpRequest
  <2>2. "cmd" \notin DOMAIN request'
    BY <2>1
  <2>3. QED BY <1>2, <1>4, <2>1, <2>2
<1>11. CASE \E line \in {"y", "yes", "n", ""} : Prompt(line)
  <2>1. PICK line : Prompt(line)
    BY <1>11
  <2>2. CASE UNCHANGED request
    BY <1>3, <2>1, <2>2 DEF Prompt
  <2>3. CASE request' = [request EXCEPT !.cmd.typed = TRUE]
    <3>1. DOMAIN request' = DOMAIN request
      BY <2>3
    <3>2. ASSUME "cmd" \in DOMAIN request PROVE request'.cmd = [request.cmd EXCEPT !.typed = TRUE]
      BY <2>3, <3>2
    <3>3. stage' # "reading"
      BY <2>1 DEF Prompt
    <3>4. QED BY <3>1, <3>2, <3>3 DEF LineInv
  <2>4. QED BY <2>1, <2>2, <2>3 DEF Prompt
<1>12. CASE \E host \in {"localhost", "127.0.0.1", "", "example.org"}, allowed \in {"none", "http_origin", "*"} : Listen(host, allowed)
  <2>1. stage' = "idle" /\ request' = NoRequest
    BY <1>12 DEF Listen
  <2>2. QED BY <1>2, <2>1 DEF NoRequest
<1>13. CASE StartMcp \/ SessionEnds \/ Shutdown
  <2>1. stage' = "idle" /\ UNCHANGED request
    BY <1>13 DEF StartMcp, SessionEnds, Shutdown
  <2>2. QED BY <1>3, <2>1
<1>14. CASE ServiceChanges \/ ServiceReturns \/ RunRefuses \/ RunReturns \/ OcrRunReturns \/ InstallReturns \/ InstallGoesOn
  <2>1. stage' # "reading" /\ UNCHANGED request
    BY <1>14 DEF ServiceChanges, ServiceReturns, RunRefuses, RunReturns, OcrRunReturns, InstallReturns, InstallGoesOn
  <2>2. QED BY <1>3, <2>1
<1>15. CASE RunStarts \/ OcrRunStarts \/ InstallStarts
  <2>1. /\ stage' # "reading"
        /\ \E method : request' = [from |-> request.from, method |-> method, consent |-> Consent]
    BY <1>15 DEF RunStarts, OcrRunStarts, InstallStarts
  <2>2. "cmd" \notin DOMAIN request'
    BY <2>1
  <2>3. QED BY <1>2, <2>1, <2>2
<1>16. CASE Running \/ OcrRunning \/ OtherProcesses
  <2>1. stage' # "reading" /\ UNCHANGED request
    BY <1>16 DEF Running, OcrRunning, OtherProcesses, frontVars
  <2>2. QED BY <1>3, <2>1
<1>17. CASE Done
  <2>1. stage' = "idle" /\ request' = NoRequest
    BY <1>17 DEF Done
  <2>2. QED BY <1>2, <2>1 DEF NoRequest
<1>18. CASE UNCHANGED vars
  <2>1. UNCHANGED <<front, stage, request>>
    BY <1>18 DEF vars, frontVars
  <2>2. QED BY <2>1 DEF LineInv
<1>19. QED
  BY <1>5, <1>6, <1>7, <1>8, <1>9, <1>10, <1>11, <1>12, <1>13, <1>14, <1>15, <1>16, <1>17, <1>18, Zenon DEF Next

\* The passes over the arguments of a command, one for its switches and one for each of its
\* flags that takes a value, read a line that makes sense from left to right as it is
\* written, however many tokens it has: what one pass leaves never changes what a later
\* one takes.
THEOREM LineIsRead == Spec => []ReadsAsWritten
<1>1. LineInv => ReadsAsWritten
  <2> SUFFICES ASSUME LineInv, "cmd" \in DOMAIN request,
                      NEW written, written = Reading(request.cmd.command, request.cmd.args), InOrder(written), written.flag = NoText,
                      NEW parsed, parsed = Parse(request.cmd.command, request.cmd.args)
               PROVE  /\ parsed.switches = written.switches /\ parsed.rest = written.rest
                      /\ \A name \in DOMAIN parsed.values : parsed.values[name] = written.values[name]
    BY Zenon DEF ReadsAsWritten, InOrder
  <2>1. PICK command, args : command = request.cmd.command /\ args = request.cmd.args
    OBVIOUS
  <2>2. command \in CommandNames /\ args \in Seq(Tokens(command))
    BY <2>1 DEF LineInv
  <2>3. PICK c, given : c = Commands[command] /\ given = BeforeDashes(command, args)
    OBVIOUS
  <2>4. given \in Seq(Tokens(command)) /\ \A t \in Tokens(command) : IsToken(t)
    BY <2>2, <2>3, BeforeDashesType, FrontEndsAssumption
  <2>5. Proper(c)
    BY <2>2, <2>3, CommandsProper
  <2>6. written = LeftToRight(c, given) /\ parsed = Passes(c, given)
    BY <2>1, <2>3 DEF Reading, Parse
  <2>7. QED BY <2>4, <2>5, <2>6, PassesAgree
<1>2. Spec => []LineInv
  BY LineInvStart, LineStep, PTL DEF Spec
<1>3. QED BY <1>1, <1>2, PTL
=============================================================================
