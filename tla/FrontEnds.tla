------------------------------- MODULE FrontEnds -------------------------------
(***************************************************************************)
(* One agtx process: Main (internal/cli/cli.go) runs a command, the MCP    *)
(* server (internal/mcp/server.go) or the commerce HTTP server             *)
(* (internal/core/commerce_http.go).  Each of them takes a request, gives  *)
(* it a verdict (Commands, ToolCalls, CommerceRoutes), calls the Service   *)
(* and answers.  The Service is reduced to whether the call changed        *)
(* managed state, to the child process of a run (SkillRun), to the         *)
(* package of an install (PackageInstall) and to the files of the built-in *)
(* OCR (OcrAssets).                                                        *)
(*                                                                         *)
(* The HTTP server handles its requests at the same time; what that does   *)
(* to installs is CommerceServer's subject, here they come one at a time.  *)
(***************************************************************************)
EXTENDS ToolCalls, Commands, CommerceRoutes, SkillRun, PackageInstall, OcrAssets

CONSTANTS
  CallsOf(_),        \* the calls of a tool a client may send
  Tokens(_),         \* what a user may type after a command
  MaxArgs,           \* bound on how many of them
  RequestsOf(_)      \* the requests for a path a web page may send

ASSUME FrontEndsAssumption ==
  /\ MaxArgs \in Nat
  /\ \A command \in CommandNames : \A t \in Tokens(command) : IsToken(t)
  /\ \A tool \in ToolNames \cup {"no_such_tool"} : \A call \in CallsOf(tool) : IsCall(call)
  /\ \A path \in ReadPaths \cup MutationPaths \cup {"/elsewhere"} : \A req \in RequestsOf(path) : IsRequest(req)

VARIABLES
  front,      \* "none", "cli", "mcp" or "http"
  stage,      \* where the request in hand is
  origin,     \* the web origin the HTTP server lets in, or "none"
  request,    \* the request in hand
  verdict,    \* what the front end made of it
  changed,    \* the request has changed managed state
  reply       \* MCP: the answer written, with its id and framing

frontVars == <<front, origin, stage, request, verdict, changed, reply>>
workVars == <<runVars, pkgVars, ocrVars>>
vars == <<frontVars, workVars>>

NoRequest == [from |-> "nobody", about |-> "nothing"]
NoReply == [kind |-> "none", id |-> "none", framed |-> FALSE]

Stages == {"idle", "reading", "prompting", "serving", "running", "reading_text", "installing", "answered"}

TypeOK ==
  /\ front \in {"none", "cli", "mcp", "http"}
  /\ origin \in {"none", "http_origin"}
  /\ stage \in Stages
  /\ request.from \in {"nobody", "cli", "mcp", "http"}
  /\ changed \in BOOLEAN
  /\ reply.kind \in {"none", "result", "tool", "-32700", "-32600", "-32601"}
  /\ RunTypeOK
  /\ PackageTypeOK
  /\ OcrTypeOK

Init ==
  /\ front = "none" /\ stage = "idle"
  /\ origin = "none"
  /\ request = NoRequest /\ verdict = "none"
  /\ changed = FALSE
  /\ reply = NoReply
  /\ RunInit
  /\ PackageInit
  /\ OcrInit

\* A request is about one command, tool or path; what it says of it is read next.
About(subject) ==
  /\ stage = "idle"
  /\ stage' = "reading"
  /\ request' = [from |-> front', about |-> subject]
  /\ UNCHANGED <<origin, verdict, changed, reply, workVars>>

\* Every way a request goes on: a refusal is an answer, "call" goes to the Service.
Settle(given) ==
  /\ verdict' = given
  /\ stage' = CASE given = "call" -> "serving" [] given = "prompt" -> "prompting" [] OTHER -> "answered"
  /\ UNCHANGED <<changed, workVars>>

-----------------------------------------------------------------------------
(* The command line.                                                        *)

Main(command) == front = "none" /\ front' = "cli" /\ About(command)

Command ==
  /\ front = "cli" /\ stage = "reading"
  /\ \E n \in 0..MaxArgs, terminal \in BOOLEAN : \E args \in [1..n -> Tokens(request.about)] :
       /\ request' = [from |-> "cli", cmd |-> [command |-> request.about, args |-> args, typed |-> FALSE],
                      method |-> CommandMethod(request.about, Parse(request.about, args))]
       /\ Settle(CommandVerdict(request.about, Parse(request.about, args), terminal))
  /\ UNCHANGED <<front, origin, reply>>

\* confirmMutation at a terminal: one line is read, nothing but y or yes goes on.
Prompt(line) ==
  /\ stage = "prompting"
  /\ IF line \in {"y", "yes"}
     THEN stage' = "serving" /\ verdict' = "call" /\ request' = [request EXCEPT !.cmd.typed = TRUE]
     ELSE stage' = "answered" /\ verdict' = "cancelled" /\ UNCHANGED request
  /\ UNCHANGED <<front, origin, changed, reply, workVars>>

\* "commerce serve" listens when it accepts its address and origin.
Listen(host, allowed) ==
  /\ front = "cli" /\ stage = "serving" /\ request.method = "Other"
  /\ request.cmd.command = "commerce_serve"
  /\ ServeAccepts(host, allowed)
  /\ front' = "http" /\ origin' = allowed
  /\ stage' = "idle" /\ request' = NoRequest /\ verdict' = "none"
  /\ UNCHANGED <<changed, reply, workVars>>

\* "mcp" looks at no argument.
StartMcp ==
  /\ front = "none" /\ stage = "idle"
  /\ front' = "mcp"
  /\ UNCHANGED <<origin, stage, request, verdict, changed, reply, workVars>>

-----------------------------------------------------------------------------
(* The MCP server.                                                          *)

\* loop: the input ends, or readMessage finds no message it can follow on from: a line
\* or body over the limit, a header or length it cannot read, a body cut short.
SessionEnds ==
  /\ front = "mcp" /\ stage = "idle"
  /\ front' = "none"
  /\ UNCHANGED <<origin, stage, request, verdict, changed, reply, workVars>>

\* A line that starts a JSON value is a message, anything else a block of headers.
Envelopes ==
  [json : {"object", "invalid", "batch", "extra_field"}, version : BOOLEAN,
   id : {"absent", "null", "value", "bad"}, params : {"object", "bad"},
   method : {"", "initialize", "notifications/initialized", "tools/list", "tools/call", "other"}]

ToolCall(id) == [json |-> "object", version |-> TRUE, id |-> id, params |-> "object", method |-> "tools/call"]

\* validateRequest.
ValidEnvelope(e) == e.version /\ e.id # "bad" /\ e.params # "bad"

\* handleLine: the kind of answer, "none" for silence, "tool" for callTool's.
HandleLine(e) ==
  CASE e.json = "invalid" -> "-32700"
    [] e.json \in {"batch", "extra_field"} -> "-32600"
    [] e.json = "object" /\ ~ValidEnvelope(e) -> "-32600"
    [] e.json = "object" /\ ValidEnvelope(e) /\ e.id = "absent" -> "none"
    [] e.json = "object" /\ ValidEnvelope(e) /\ e.id # "absent" ->
         (CASE e.method = "" -> "-32600"
            [] e.method \in {"initialize", "tools/list"} -> "result"
            [] e.method = "notifications/initialized" -> "none"
            [] e.method = "tools/call" -> "tool"
            [] e.method = "other" -> "-32601")

\* The id an answer carries: null when the message was not read that far.
AnswerId(e) == IF e.json # "object" \/ e.id = "absent" THEN "null" ELSE e.id

PlainCall == [tool |-> "get_status", args |-> NoProperties, ocr |-> NoProperties]

\* loop reads one message and handles it to its end before the next.
Message(e, framed, call) ==
  /\ request' = [from |-> "mcp", envelope |-> e, call |-> call, method |-> Method(call)]
  /\ reply' = [kind |-> HandleLine(e), id |-> AnswerId(e), framed |-> framed]
  /\ Settle(IF HandleLine(e) = "tool" THEN Verdict(call) ELSE "protocol")
  /\ UNCHANGED <<front, origin>>

AnyMessage ==
  /\ front = "mcp" /\ stage = "idle"
  /\ \E e \in Envelopes, framed \in BOOLEAN : Message(e, framed, PlainCall)

CallTool(tool) == front = "mcp" /\ UNCHANGED front /\ About(tool)

\* callTool: the arguments of a call that wants an answer, or of one that does not.
ToolMessage ==
  /\ front = "mcp" /\ stage = "reading"
  /\ \E call \in CallsOf(request.about) :
       \/ Message(ToolCall("value"), FALSE, call)
       \/ Arg(call, "yes") = "yes" /\ Message(ToolCall("absent"), FALSE, call)

-----------------------------------------------------------------------------
(* The commerce HTTP server.                                                *)

HttpVerdict(req) ==
  CASE Route(origin, req) = 200 -> "call"
    [] Route(origin, req) = 428 -> "confirmation_required"
    [] OTHER -> "error_status"

HttpMethod(req) ==
  CASE req.path = "/v1/commerce/install-pack" -> "InstallCapabilityPack"
    [] req.path = "/v1/commerce/install-scenario" -> "InstallCapabilityScenario"
    [] req.path = "/v1/commerce/proof/submit" -> "SubmitCommerceProof"
    [] OTHER -> "Other"

Path(path) == front = "http" /\ UNCHANGED front /\ About(path)

HttpRequest ==
  /\ front = "http" /\ stage = "reading"
  /\ \E req \in RequestsOf(request.about) :
       /\ request' = [from |-> "http", req |-> req, method |-> HttpMethod(req)]
       /\ Settle(HttpVerdict(req))
  /\ UNCHANGED <<front, origin, reply>>

\* The context is done: server.Close.
Shutdown ==
  /\ front = "http" /\ stage = "idle"
  /\ front' = "none" /\ origin' = "none"
  /\ UNCHANGED <<stage, request, verdict, changed, reply, workVars>>

-----------------------------------------------------------------------------
(* Whether the sender of the request in hand confirmed it.                  *)

\* What the sender itself wrote, before any of it is parsed.  Of a command that has no
\* plans, "--plan" asks for nothing: it is a word like any other.
ConfirmedCommand(cmd) ==
  LET given == ToSet(BeforeDashes(cmd.command, cmd.args)) IN
  /\ \E name \in Confirm : Flag(name) \in given
  /\ "--plan" \in Commands[cmd.command].switches => Flag("--plan") \notin given

ConfirmedCall(m) ==
  /\ m.envelope.id # "absent"
  /\ Arg(m.call, "yes") = "yes" /\ Arg(m.call, "plan") # "yes"

Agreed ==
  \/ "cmd" \in DOMAIN request /\ (ConfirmedCommand(request.cmd) \/ request.cmd.typed)
  \/ "call" \in DOMAIN request /\ ConfirmedCall(request)
  \/ "req" \in DOMAIN request /\ request.req.yes = "yes" /\ request.req.token = "right"
  \/ "consent" \in DOMAIN request /\ request.consent = "given"

Consent ==
  CASE stage \in {"idle", "reading"} -> "none"
    [] stage \notin {"idle", "reading"} /\ Agreed -> "given"
    [] OTHER -> "withheld"

-----------------------------------------------------------------------------
(* The Service.                                                             *)

\* The methods that change installed skills, packs, receipts or devices.
Managing == {"InstallSkills", "UpgradeSkills", "RollbackSkill", "UninstallSkill", "InstallCapabilityPack",
             "InstallCapabilityScenario", "SubmitCommerceProof", "ProRevokeDevice"}

Installing == {"InstallSkills", "UpgradeSkills", "InstallCapabilityPack", "InstallCapabilityScenario"}

ServiceChanges ==
  /\ stage = "serving"
  /\ request.method \in Managing
  /\ ~changed
  /\ changed' = TRUE
  /\ UNCHANGED <<front, origin, stage, request, verdict, reply, workVars>>

\* The Service is done, with a result or an error.
ServiceReturns ==
  /\ stage = "serving"
  /\ request.method # "RunSkill"
  /\ stage' = "answered"
  /\ UNCHANGED <<front, origin, request, verdict, changed, reply, workVars>>

\* RunSkillWithOptions refuses (not installed, no bundle) or starts the program.  The
\* arguments have been read: what is kept of the request is that it is a run, and whether
\* it was confirmed.
RunRefuses ==
  /\ stage = "serving"
  /\ request.method = "RunSkill"
  /\ stage' = "answered"
  /\ UNCHANGED <<front, origin, request, verdict, changed, reply, workVars>>

RunStarts ==
  /\ stage = "serving"
  /\ request.method = "RunSkill"
  /\ \E ms \in AskedMS \cup {0}, default \in ConfiguredMS, limit \in 1..(MaxWrites - 1) : Launch(ms, default, limit)
  /\ stage' = "running"
  /\ request' = [from |-> request.from, method |-> "RunSkill", consent |-> Consent]
  /\ UNCHANGED <<front, origin, verdict, changed, reply, pkgVars, ocrVars>>

Running == stage = "running" /\ RunStep /\ UNCHANGED <<frontVars, pkgVars, ocrVars>>

RunReturns ==
  /\ stage = "running"
  /\ Collect
  /\ stage' = "answered"
  /\ UNCHANGED <<front, origin, request, verdict, changed, reply, pkgVars, ocrVars>>

\* runBuiltinManifest for the OCR skill, which runs in this process.
OcrRunStarts ==
  /\ stage = "serving"
  /\ request.method = "RunSkill"
  /\ stage' = "reading_text"
  /\ request' = [from |-> request.from, method |-> "RunSkill", consent |-> Consent]
  /\ UNCHANGED <<front, origin, verdict, changed, reply, workVars>>

OcrRunning == stage = "reading_text" /\ OcrStep /\ UNCHANGED <<frontVars, runVars, pkgVars>>

OtherProcesses == stage = "reading_text" /\ (OtherAsset \/ OtherRuntime) /\ UNCHANGED <<frontVars, runVars, pkgVars>>

OcrRunReturns ==
  /\ stage = "reading_text"
  /\ OcrReturns
  /\ stage' = "answered"
  /\ UNCHANGED <<front, origin, request, verdict, changed, reply, runVars, pkgVars>>

\* Skills come one after the other, here the first of a request.  What is kept of the
\* request is whether it was confirmed.
InstallStarts ==
  /\ stage = "serving"
  /\ request.method \in Installing
  /\ ~changed
  /\ \E skill \in Skills : Begin(skill)
  /\ stage' = "installing"
  /\ request' = [from |-> request.from, method |-> request.method, consent |-> Consent]
  /\ UNCHANGED <<front, origin, verdict, changed, reply, runVars, ocrVars>>

\* A package that is in place is a change, whatever follows.
InstallGoesOn ==
  /\ stage = "installing"
  /\ PackageStep
  /\ changed' = (changed \/ pkg'.stage = "installed")
  /\ UNCHANGED <<front, origin, stage, request, verdict, reply, runVars, ocrVars>>

InstallReturns ==
  /\ stage = "installing"
  /\ Report
  /\ stage' = "answered"
  /\ UNCHANGED <<front, origin, request, verdict, changed, reply, runVars, ocrVars>>

\* The answer is out: a command's process ends, a server takes the next request.
Done ==
  /\ stage = "answered"
  /\ stage' = "idle" /\ request' = NoRequest /\ verdict' = "none" /\ changed' = FALSE /\ reply' = NoReply
  /\ front' = IF front = "cli" THEN "none" ELSE front
  /\ UNCHANGED <<origin, workVars>>

-----------------------------------------------------------------------------

Next ==
  \/ \E command \in CommandNames : Main(command)
  \/ \E tool \in ToolNames \cup {"no_such_tool"} : CallTool(tool)
  \/ \E path \in ReadPaths \cup MutationPaths \cup {"/elsewhere"} : Path(path)
  \/ Command \/ AnyMessage \/ ToolMessage \/ HttpRequest
  \/ \E line \in {"y", "yes", "n", ""} : Prompt(line)
  \/ \E host \in {"localhost", "127.0.0.1", "", "example.org"}, allowed \in {"none", "http_origin", "*"} : Listen(host, allowed)
  \/ StartMcp
  \/ SessionEnds
  \/ Shutdown
  \/ ServiceChanges \/ ServiceReturns \/ RunRefuses
  \/ RunStarts
  \/ Running \/ RunReturns
  \/ OcrRunStarts \/ OcrRunning \/ OtherProcesses \/ OcrRunReturns
  \/ InstallStarts \/ InstallGoesOn \/ InstallReturns
  \/ Done

\* The Service's own calls return (locks and HTTP calls have time-outs, the rest is
\* work on local files), and a front end goes on with what it has in hand.
Fairness ==
  /\ RunFairness
  /\ WF_vars(RunRefuses \/ RunStarts \/ OcrRunStarts)
  /\ WF_vars(OcrRunning) /\ WF_vars(OcrRunReturns)
  /\ WF_vars(InstallGoesOn) /\ WF_vars(InstallReturns)
  /\ WF_vars(ServiceReturns) /\ WF_vars(RunReturns) /\ WF_vars(Done)

Spec == Init /\ [][Next]_vars /\ Fairness

-----------------------------------------------------------------------------
(* Properties.                                                              *)

Answer ==
  CASE stage # "answered" -> "none"
    [] stage = "answered" /\ verdict = "call" -> "done"
    [] OTHER -> "refused"

Gate == INSTANCE ConsentGate WITH consent <- Consent, changed <- changed, answer <- Answer

\* Whatever the front end, managed state changes only for a request its sender
\* confirmed, before the answer, and never for one that is refused.
ImplementsConsentGate == Gate!Spec

Tool == "call" \in DOMAIN request /\ reply.kind = "tool" /\ verdict # "unknown_tool"

\* The arguments a case of callTool looks at, without those that say nothing.
Given(call) == [n \in {m \in Looked(call) \cap DOMAIN call.args : call.args[m] \notin {"null", "empty", "none"}} |-> call.args[n]]

\* What no schema can say: words that are not blank, times in order, one input, options
\* that go together.
Sensible(call) ==
  /\ \A n \in DOMAIN call.args : call.args[n] # "blank"
  /\ call.tool \in RecordTools \cup {"get_capability_scenario_ledger"} => TimesInOrder(call)
  /\ call.tool = "run_skill" => RunInput(call)

\* tools() and callTool agree: arguments that a tool's schema allows are never refused as
\* invalid, and arguments that are served are the schema's, as far as they are looked at.
SchemasTellCalls ==
  Tool =>
    LET call == request.call IN
    /\ SchemaAccepts(Schemas[call.tool], call.args) /\ Sensible(call) => verdict # "invalid_argument"
    /\ verdict # "invalid_argument" => SchemaAccepts(Schemas[call.tool], Given(call))

Resent ==
  CASE request.from = "cli" ->
         CommandVerdict(request.cmd.command, Parse(request.cmd.command, <<Flag("--yes")>> \o request.cmd.args), FALSE)
    [] request.from = "mcp" -> Verdict([request.call EXCEPT !.args = [n \in DOMAIN @ \cup {"yes"} |-> IF n = "yes" THEN "yes" ELSE @[n]]])
    [] request.from = "http" -> HttpVerdict([request.req EXCEPT !.yes = "yes"])

\* A request told that it must be confirmed needs nothing but the confirmation: sent
\* again with it, it reaches the Service.
ConfirmationIsLast == verdict = "confirmation_required" => Resent = "call"

\* A command line that makes sense read from left to right is read that way by the passes.
ReadsAsWritten ==
  "cmd" \in DOMAIN request =>
    LET written == Reading(request.cmd.command, request.cmd.args)
        parsed == Parse(request.cmd.command, request.cmd.args)
    IN  written.ok /\ written.flag = NoText =>
          /\ parsed.switches = written.switches /\ parsed.rest = written.rest
          /\ \A name \in DOMAIN parsed.values : parsed.values[name] = written.values[name]

\* A run nothing ends: a process its program left behind keeps the output open, or the
\* program itself does while no time-out fitted a duration.
Unbounded == pipe = "left" \/ (pipe = "child" /\ ~HasDeadline)

\* Every request is answered, a run at the latest after its time-out.
EveryRequestAnswered ==
  stage \in {"serving", "running", "reading_text", "installing"} ~> (stage \in {"answered", "idle"} \/ Unbounded)

\* A run that succeeds has returned every byte the program wrote; one that is refused
\* for its output was over the limit.
ReportTellsOutput ==
  run.stage = "ended" =>
    /\ run.result = "ok" => child = "exited" /\ run.code = 0 /\ ~expired /\ buffer.kept = sent
    /\ run.result = "output_limit_exceeded" => sent > run.limit
    /\ buffer.kept <= run.limit

Fits(ms) == ms * Scale < Half

\* A run has the deadline it asked for if that fits a duration, and however large the
\* time-out it asked for it has one if the configured time-out fits; in no case is it
\* later than what was asked for, or without that configured.
RunIsBounded ==
  run.stage # "none" =>
    /\ run.asked > 0 /\ Fits(run.asked) => run.timeout = run.asked * Scale
    /\ Fits(run.configured) => HasDeadline
    /\ run.timeout <= (IF run.asked > 0 THEN run.asked ELSE run.configured) * Scale
=============================================================================
