-------------------------------- MODULE SkillRun --------------------------------
(***************************************************************************)
(* The execution of a skill's program: the option defaults of              *)
(* RunSkillWithOptions (internal/core/service.go), runExecutable and       *)
(* limitedBuffer (runner.go), with the child process, the processes it     *)
(* may leave behind, its output pipe and the timer of the context.         *)
(*                                                                         *)
(* A duration is the caller's milliseconds times Scale, taken modulo the   *)
(* range of a signed word, -Half..Half-1: time.Duration(ms) *              *)
(* time.Millisecond, with 2^63 for Half, scaled down.  Neither a caller's  *)
(* time-out nor the configured one is compared with that range.            *)
(***************************************************************************)
EXTENDS Integers

CONSTANTS
  Half,           \* a duration is in -Half..Half-1: 2^63 in the code
  Scale,          \* units of a duration in a millisecond
  ConfiguredMS,   \* the values run_timeout_ms may have in the configuration
  AskedMS,        \* the timeouts a caller may ask for, 0 for none
  MaxWrites       \* bound on the bytes written, one past the largest limit

ASSUME SkillRunAssumption ==
  /\ Half \in Nat \ {0} /\ Scale \in Nat \ {0} /\ MaxWrites \in Nat
  /\ AskedMS \subseteq Nat
  /\ ConfiguredMS \subseteq Nat \ {0}

VARIABLES
  run,       \* the run: its stage, options and result
  child,     \* the process: "none", "running", "exited" or "killed"
  pipe,      \* who can still write: "nobody", "child", "left" (a process the child left)
  sent,      \* bytes written to the pipe
  buffer,    \* limitedBuffer: the bytes kept and whether some were dropped
  expired    \* the context's deadline has passed

runVars == <<run, child, pipe, sent, buffer, expired>>

Results == {"none", "ok", "timeout", "output_limit_exceeded", "run_failed"}

NoRun == [stage |-> "none", asked |-> 0, configured |-> 0, timeout |-> 0, limit |-> 0, code |-> 0, result |-> "none"]

RunTypeOK ==
  /\ run.stage \in {"none", "running", "waited", "ended"}
  /\ run.asked \in AskedMS \cup {0} /\ run.configured \in ConfiguredMS \cup {0} /\ run.timeout \in Int
  /\ run.limit \in 0..MaxWrites
  /\ run.code \in {0, 1} /\ run.result \in Results
  /\ child \in {"none", "running", "exited", "killed"}
  /\ pipe \in {"nobody", "child", "left"}
  /\ sent \in 0..MaxWrites
  /\ buffer.kept \in 0..MaxWrites /\ buffer.truncated \in BOOLEAN
  /\ expired \in BOOLEAN

NoOutput == [kept |-> 0, truncated |-> FALSE]

RunInit ==
  /\ run = NoRun
  /\ child = "none" /\ pipe = "nobody"
  /\ sent = 0
  /\ buffer = NoOutput
  /\ expired = FALSE

Signed(n) == ((n + Half) % (2 * Half)) - Half
Duration(ms) == Signed(ms * Scale)

\* Mutant: the default is only used when no time-out was given.
Timeout0(ms, default) == IF ms = 0 THEN Duration(default) ELSE Duration(ms)

\* A duration that is not positive, an overflow included, means the default, which may
\* overflow in its turn.
Timeout(ms, default) == IF Duration(ms) <= 0 THEN Duration(default) ELSE Duration(ms)

Launch(ms, default, limit) ==
  /\ run.stage = "none"
  /\ run' = [NoRun EXCEPT !.stage = "running", !.asked = ms, !.configured = default,
                          !.timeout = Timeout(ms, default), !.limit = limit]
  /\ child' = "running" /\ pipe' = "child"
  /\ UNCHANGED <<sent, buffer, expired>>

\* limitedBuffer.Write.
Kept(n) ==
  IF buffer.kept + n > run.limit
  THEN [kept |-> run.limit, truncated |-> TRUE]
  ELSE [buffer EXCEPT !.kept = @ + n]

\* Whoever holds the pipe writes n bytes; the copying goroutine takes them.
Write(n) ==
  /\ pipe # "nobody"
  /\ sent + n <= MaxWrites
  /\ sent' = sent + n
  /\ buffer' = Kept(n)
  /\ UNCHANGED <<run, child, pipe, expired>>

\* The child exits; it may leave a process that holds the pipe.
ChildExits(code, holder) ==
  /\ child = "running"
  /\ child' = "exited"
  /\ run' = [run EXCEPT !.code = code]
  /\ pipe' = holder
  /\ UNCHANGED <<sent, buffer, expired>>

\* The context is one with a time-out only if that is positive.
HasDeadline == run.timeout > 0

\* Mutant: the program is started without the context.
Deadline0(holder) ==
  /\ run.stage \in {"running", "waited"}
  /\ HasDeadline /\ ~expired
  /\ expired' = TRUE
  /\ UNCHANGED <<run, child, pipe, sent, buffer>>

\* The deadline passes: CommandContext kills the child, not what the child started.
Deadline(holder) ==
  /\ run.stage \in {"running", "waited"}
  /\ HasDeadline /\ ~expired
  /\ expired' = TRUE
  /\ IF child = "running"
     THEN child' = "killed" /\ pipe' = holder
     ELSE UNCHANGED <<child, pipe>>
  /\ UNCHANGED <<run, sent, buffer>>

LeftCloses ==
  /\ pipe = "left"
  /\ pipe' = "nobody"
  /\ UNCHANGED <<run, child, sent, buffer, expired>>

\* cmd.Run returns once the child has been waited for and the pipe is at its end.
Wait ==
  /\ run.stage = "running"
  /\ child \in {"exited", "killed"}
  /\ pipe = "nobody"
  /\ run' = [run EXCEPT !.stage = "waited"]
  /\ UNCHANGED <<child, pipe, sent, buffer, expired>>

\* Mutant: a program that exited with 0 is a success, whatever was dropped.
Result0 ==
  CASE expired -> "timeout"
    [] child = "exited" /\ run.code = 0 -> "ok"
    [] OTHER -> "run_failed"

\* The deadline is looked at first, even if the child had finished before it.
Result ==
  CASE expired -> "timeout"
    [] ~expired /\ buffer.truncated -> "output_limit_exceeded"
    [] ~expired /\ ~buffer.truncated /\ run.code # 0 -> "run_failed"
    [] OTHER -> "ok"

Finish ==
  /\ run.stage = "waited"
  /\ run' = [run EXCEPT !.stage = "ended", !.result = Result]
  /\ UNCHANGED <<child, pipe, sent, buffer, expired>>

\* The caller has the result.
Collect ==
  /\ run.stage = "ended"
  /\ run' = NoRun
  /\ child' = "none" /\ pipe' = "nobody"
  /\ sent' = 0 /\ buffer' = NoOutput /\ expired' = FALSE

RunStep ==
  \/ \E n \in 1..MaxWrites : Write(n)
  \/ \E code \in {0, 1}, holder \in {"nobody", "left"} : ChildExits(code, holder)
  \/ \E holder \in {"nobody", "left"} : Deadline(holder)
  \/ LeftCloses \/ Wait \/ Finish

\* The timer fires and the caller goes on; nothing makes a program end.
RunFairness ==
  /\ WF_runVars(\E holder \in {"nobody", "left"} : Deadline(holder))
  /\ WF_runVars(Wait) /\ WF_runVars(Finish)
=============================================================================
