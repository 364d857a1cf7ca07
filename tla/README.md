# agtx in TLA+

agtx is a local package manager and runner for agent skills, written in Go. It
installs skills from registries, runs them for a command line, an MCP client or
an HTTP dashboard, and keeps signed local records of what was installed and what
is billed. Everything it knows lives in files under one home directory, which
several agtx processes share. Nothing is transactional: correctness rests on the
order in which files are written, on one lock file, and on checks made when the
files are read again. That is what this project models.

Paths below are relative to `src/`; every definition that stands for code is
listed with its lines in `PROJECT.json` under `map`.

## 1. Inventory

| Component | Source | State | Operations |
|---|---|---|---|
| Mutation lock | `internal/core/service.go` (`withMutationLock`, `staleLock`) | `agtx.lock`, its owner and age | create exclusively, wait, judge stale, remove, run the callback, release |
| Commerce ledgers | `ledger_integrity.go`, `packs.go` (`appendJSONLine`), `commerce_receipt.go`, `atomic.go` | per ledger a `.jsonl` file, a head, two anchors; one HMAC key | verify, sign, append, write head and anchors |
| Skill store | `service.go` | a directory per version, the `current` pointer, temporary directories | install, upgrade, rollback, uninstall, run, list |
| Packs, usage and billing | `packs.go`, `usage.go`, `scenarios.go`, billing half of `service.go` and `builtin_ocr.go` | install records, billing records, usage events at the server | plan, install a pack, run with metering, report, bill |
| Pro session | `auth.go` | `auth.json`, `s.Auth` of every process, tokens at the server | login start, callback, refresh, status, logout |
| Proofs and receipts | `commerce_proof.go`, `commerce_receipt.go` | proof key, trusted server key, receipt ledger | prove, submit, verify, trust on first use, append |
| Configuration | `config.go`, `paths.go` | `config.json`, `s.Config` | load, set, unset, save |
| Registry | `registry_store.go`, `registry.go`, `registry_status.go` | overlay and cached registry files | refresh, merge, validate |
| Download and extraction | `service.go`, `limits.go`, `http_client.go` | a temporary directory, byte and file budgets | download, verify, extract |
| Skill execution | `service.go`, `runner.go` | a child process, two bounded buffers | run, time out, truncate |
| Commerce HTTP server | `commerce_http.go`, `commerce_dashboard.go` | none of its own; one `Service` shared by handlers | route, authorize mutations, answer |
| MCP server | `internal/mcp/server.go` | the session (initialised or not) | frame a message, dispatch, answer |
| Command line | `internal/cli`, `cmd/agtx` | none | parse, call, print |
| Agent targets | `internal/agent/targets.go` | none | print snippets |
| Semantic goals | `semantic_goal.go` | source and destination trees, a manifest | scan, plan, copy, write the manifest |
| Doctor, Pro recovery, callback scheme | `doctor.go`, `pro_recovery.go`, `pro_scheme*.go` | none of their own | report, suggest, register a URL scheme |
| Built-in skills | `builtin_*.go`, `office_attribution.go` | files they are given | convert, scan, search, fetch |
| Release demo | `release_demo.go` | an output directory | write examples |

**How the parts interact.** Every front end (command line, MCP, HTTP) calls
methods of one `Service`. Install, upgrade, rollback, uninstall, the billing of a
run, and the submission of a proof run inside `withMutationLock`. Inside it an
install first checks the ledgers, then works on the skill store, then appends to
the install ledger and, for a pack, to the billing ledger. A run, a plain proof,
an integrity report, the doctor, lists, everything about the Pro session and
everything about the configuration take no lock.

**What is hard.**

- *Interleaving*: the lock is removed by path; readers of ledgers and of the
  store run beside writers; a token refresh has a network request between the
  load and the save of a whole file.
- *Partial failure and crashes*: one append writes four files, one install many;
  a process may die between any two, and nothing is rolled back. The `.jsonl`
  files are not synced although the files that vouch for them are.
- *Stale state*: a long-lived process writes back the copy of `auth.json` or
  `config.json` it loaded at its start.
- *Time*: a lock is stolen by age, the holder never refreshes it, and a holder
  that outlives the age still releases by path.
- *Limits*: readers refuse a ledger past 4 MiB, writers do not look.
- *Remote effects*: refresh tokens are used once, usage is reported before the
  local bill is written, a receipt may be lost after the server issued it.
- *Arguments*: the command line takes its flags in passes, one flag after the other
  over the whole line; the MCP server describes its tools in one place and reads
  their arguments in another.
- *Width*: time-outs are multiplied into 64-bit durations, sizes in archives are
  unsigned where budgets are signed.

**What makes each part correct.**

- Lock: no two callbacks overlap unless a lock file was lost under its owner;
  every caller returns; a crash blocks nobody for ever.
- Ledgers: records are only appended, in one chain; the evidence never runs ahead
  of the records; a failure, once visible, is final and refuses further records;
  the verdict of an unlocked reader is right.
- Store: the pointer names a complete version; only an uninstall takes one away.
- Billing: what is billed was earned, what succeeded is billed.
- Session: the stored token can be redeemed; a session is only installed by the
  login the user started.
- Receipts: one trusted signer, in the order of what was proved.
- Semantic goals: what passes for a copy is one, a report is true, an interrupted
  replica can be completed.
- Configuration and registry: what a command was told is stored stays stored, and a
  refresh that succeeded is what later processes offer.
- Front ends: managed state changes only for a request its sender confirmed; a tool
  accepts what its schema allows and no more; a command line means what it says or is
  refused; every request is answered.
- Execution: a run has a deadline as long as the time-outs fit a duration, and reports a
  program's output whole or not at all.
- Installation: an installed package is whole and within the limits, whatever the
  archive holds.
- OCR: models reported as downloaded are there, with the bytes they are pinned to, and a
  recognition finds them.

The hazards, each at its line and with the properties that cover it, are listed
in `PROJECT.json` under `hazards`. Some the code does not prevent: an outdated copy of
`auth.json` or `config.json` written back, a logout undone by a refresh under way, a
receipt lost between trust file and ledger, a lagging head that is continued, a declared
size past 2^63, a value that is itself a flag. The properties set these aside by name
(`stale`, `confStale`, `failures`, ...), and the hazards say so in a note.

## 2. Modules

| Module | Models | Kind |
|---|---|---|
| `MutationLock` | the lock file protocol | state machine, safety and liveness |
| `LedgerFormat` | the verdict on the files of a ledger | operators |
| `SealedLog` | what a ledger promises | abstract specification |
| `Ledger` | append, head, anchors, errors and crashes | state machine, refines `SealedLog` |
| `LedgerReaders` | `Ledger` with a reader that takes no lock | extends `Ledger` |
| `LedgerPowerLoss` | `Ledger` on a machine that loses power | extends `Ledger` |
| `LockedLedger` | several processes appending under the lock | composes `MutationLock` and `LedgerFormat`, refines `Ledger` |
| `SkillStore` | version directories, pointer, commands, a run beside them | state machine |
| `Commerce` | pack installs, runs, records and bills of several processes | state machine over `SealedLog`'s promise |
| `ProAuth` | `auth.json`, its copies, the token endpoint | state machine |
| `Receipts` | proofs, submissions, trust on first use | state machine |
| `SemanticGoal` | replication runs over a source and a destination tree | state machine, safety and liveness |
| `CommerceServer` | a client that repeats its installs over HTTP | extends `Commerce` |
| `Manifests` | the rules for manifests and URLs, the merge of registries, `registry status` | operators |
| `Settings` | `config.json`, its copies, the registry cache and overlays | extends `ProAuth` and `Manifests` |
| `ConsentGate` | what every front end promises | abstract specification |
| `ToolSchemas`, `ToolCalls` | what the MCP server says of its tools, what it makes of a call | operators |
| `Tables` | tables put together from smaller ones | operators |
| `Commands` | flag passes, what a command refuses, a reading from left to right | operators |
| `CommerceRoutes` | routing, authorization and decoding of HTTP requests | operators |
| `SkillRun` | the child process of a run, its pipe, its timer, the output limit | state machine |
| `PackageInstall` | download, checksum, extraction, budgets, rename | state machine |
| `OcrAssets` | the OCR skill: actions, downloads, files looked for | state machine |
| `FrontEnds` | one process: request, verdict, call, answer | composes the six modules above, refines `ConsentGate` |
| `*Proofs` | theorems about the module they are named after | TLAPS |
| `MC*` | instances for TLC | |

The layers are assumed upwards: `MutationLock` establishes exclusion;
`LockedLedger` shows that under it several processes behave like the one writer
of `Ledger`; `Ledger` implements `SealedLog`, records plus a "sealed" flag; and
`Commerce` and `Receipts` use just that: a lock that excludes, and ledgers that
take a record, or are sealed for good. `SkillStore` likewise takes the commands
as excluding each other, and `Commerce` sees a skill as the version its pointer
names. Above the methods of the `Service`, `FrontEnds` reduces a call to whether it
changed managed state, except for the three that have a life of their own: the child
process of a run, the package of an install, the files of the OCR skill.

### MutationLock

`pc[p]` follows `p` through the loop of `withMutationLock`: `open` is the
`OpenFile` with `O_CREATE|O_EXCL`, `stat` the call of `staleLock`, `reclaim` the
`os.Remove` after it, `sleep` the 50 ms pause, `critical` the callback. The lock
file is `creator` (who made it; `gone` when that process died) and `stale` (its
modification time is older than `stale_lock_ms`). Stat and remove are two steps,
as in the code, and both removals (`Reclaim`, `Finish`) take whatever file is
there. Time appears as three events: a caller's deadline passes, an abandoned
file ages, and, if `MayOverrun`, a file ages while its owner still works.
`compromised` is a history variable: a lock file was lost, or could be, while its
owner was at work.

### LedgerFormat, Ledger, SealedLog

A record is its position, the hash it names as its predecessor and its own hash;
hashes are numbers no two records share, which is what the HMAC gives. Unsigned
records of older releases have `NoHash`. Head and anchors are marks: a position
and a hash. `Status` is `finalizeLedgerIntegritySummary` with the cases in its
order; `Refused` is the weaker check signing makes, `Appendable` the stronger
check an install makes. One append is `Sign` (verify, take the last hash),
`AppendLine`, `WriteHead`, `WriteAnchor(1)`, `WriteAnchor(2)`; a batch repeats
this, as the billing of several meters does. `Interrupt` is an error return or a
crash at any of these steps; for the append it includes a short write, which
leaves a torn line, or a whole record without its newline so that the next record
lands on the same line.

`SealedLog` has two variables, the sequence of hashes and whether the log is
sealed. `Ledger` implements it with `sealed` mapped to "the next signature would
be refused", an append in progress aside.

### LedgerReaders, LedgerPowerLoss, LockedLedger

The reader reads records, key and head, and each anchor in separate steps while
appends and interruptions go on, and reports what `Status` says of the mixture.
`wasSound` and `wasBusy` remember what the files were like meanwhile.

`LedgerPowerLoss` adds `synced`, the records the operating system has written
back. `writeFileAtomic` syncs file and directory, so key, head and anchors
survive; the `.jsonl` file is cut anywhere after `synced`.

`LockedLedger` runs the append of `Ledger` once per process, entered by
`MutationLock`'s `Open` and left by its `Finish` or `Crash`. The refinement
mapping to `Ledger` picks the one process that is writing, and the claim is
weakened to "unless `compromised`".

### SkillStore

`dirs[e]` is what is under a directory entry: whole, hollow (manifest but missing
files), stripped (files but no manifest) or absent. A version has two entries: its
own and the temporary directory of its install, which lists just below it because
`installedVersions` lists whatever has a manifest and sorts by `compareVersion`.
`StartInstall`, `Unpack`, `Rename`, `Point` are `installSkill` and
`materializeSkill`; `StartUninstall`, `RemoveAll`, `Removed`, `Settle` are
`UninstallSkill`; `Rollback` is one step because its only write is one atomic
file. `Interrupt` leaves behind what the code leaves: a temporary directory, a
half removed version, a removed pointer. The reader takes the three steps of
`run`: pointer, manifest, executable.

### Commerce

A call of a process goes through the stages of an install (`skills`, `record`,
`bill`) or of a run (`running`, `report`, `lock`, `sign`). `Take` is the lock and
`ensureCommerceLedgersAppendable`. The decision between `installed` and
`already_installed` is taken from whether any pointer moved, as in
`installRecordForPack`. A usage report may be accepted by the server and
still look failed here. `earned` is history: calls with something to bill.

### ProAuth

An `AuthState` is the token pair and the pending login. The token pair is the
login it goes back to and the number of refreshes since; the server keeps the
pairs it still accepts (`live`) and accepts a code and a refresh token once.
`mem[p]` is `s.Auth`. `ProLoginStart` and `ProCallback` start from `mem`,
`currentAuth` and `authForHTTPRequest` from the file; the latter does not update
`mem`. `behind` records which copies are older than the file, `stale` that such a
copy was written back. Logins, refreshes and lost answers are bounded.

### Receipts

A proof is the key it was signed with and the number of receipts it counted; a
receipt is the proof it is for and the server key. A plain proof takes no lock, so
two of them can look for a missing proof key and make one each. A
submission holds the lock across `Post`. The server may answer with the receipt
of another proof, change its key, or answer into the void.

### SemanticGoal

`RunGoal` takes no lock. `Start` is everything up to the scan, which fixes what
a run knows of each photo (`seen`). The photos are then taken one by one: `Stat`
is the switch of `executeSemanticPlan`; `Create`, `Write` and `Stamp` are
`copySemanticFile`, which creates exclusively but sets the time, and removes
what broke off, by path; `FillTemp` and `Rename` are
`copySemanticFileReplacing`. A copy has content, a time and the run that made it.
The bytes are those of the photo when they are copied, the time is that of the
scan. `Fail` is an error the code reports, `Die` the end of the process at any
step, `EditPhoto` the owner of the photos. Size and time of versions are
parameters, so that two versions may look alike. `crossed` is history: a step
hit, by path, a destination other than the one its run had examined or created.
Temporary files left by a dead run are left out: their names are not those of
photos and nothing looks at them.

### CommerceServer

`Post` is a confirmed `POST /v1/commerce/install-pack` of one client, sent again as
often as the bound on calls allows, also while an earlier one is still at work: the
server stops writing after 30 s, a client that hangs up cancels the context
(`Interrupt`). `Meanwhile` is everything else of `Commerce`. `disturbed` remembers that
the registry, or a command without a call behind it, changed a skill since the first
request, after which an install legitimately bills again.

### Settings, Manifests

`config` is the file, `conf[p]` the `s.Config` of a process, loaded at its start and
written back as a whole by `SetConfig`, `UnsetConfig`, `InitConfig` and by the login
that stores a registry (`owes[p]`, between the two saves of `ProCallback`). `Accepts`
has one rule per type of key; `Stored` is the normalisation. A hand edit may leave any
file. `LoadRegistry` merges built-in skills, overlays in the order of their names and
the cache; `RefreshRegistry` writes the cache and leaves `s.Registry` of the others as
it was. History: `meant` is what was last stored with success, `published` what the
last refresh accepted, `confBehind` and `confStale` do for `config.json` what `behind`
and `stale` do for `auth.json`. The actions of `ProAuth` are composed in, since both
files are written by the login.

`Manifests` reduces a word to "ok", "none" or "odd" and a URL to its parts; the rules
are those of `validateSkillManifest` and the validators under it, in one operator per
idea.

### FrontEnds

A request goes through `stage`: `reading` (MCP and HTTP), `prompting` (the terminal's
question), `serving` (a `Service` method), `running`, `reading_text` (the OCR skill),
`installing`, `answered`. Its verdict is computed by one of three modules:

- `Commands`: a token is a word, a number, a flag, an assignment or one of the marks a
  pass leaves (`__missing_--to`). `Passes` folds `takeBoolFlag`, `takeStringFlag` and
  `takeIntFlag` over the tokens in the order in which each command calls them;
  `CommandVerdict` is the rest of the command. `Reading` is the reference: the
  tokens read once from left to right.
- `ToolCalls` and `ToolSchemas`: JSON values are reduced to the shapes the schemas and
  the getters tell apart. `Schemas` is `tools()`, `Cases` the switch of `callTool`
  with its getters in their order.
- `CommerceRoutes`: a request is path, method, origin, token, query and body;
  `HttpVerdict` is `route` with `authorizeMutation` before the mutations.

`AnyMessage` is everything an MCP client can send that is not a tool call: broken
frames, wrong versions, ids, notifications. `Consent` maps the request to
`ConsentGate`.

### SkillRun

`RunSkillWithOptions` chooses time-out and limit: what the caller asked for, or the
configured `run_timeout_ms`, both modulo the range -`Half`..`Half`-1 of a signed word, as
`time.Duration` is one of 64 bits. `config.go` accepts every positive number, so the
configured one (`ConfiguredMS`) may overflow as well; `HasDeadline` is the condition under
which `runExecutable` sets a deadline at all.
Child, pipe and timer are apart: the program may exit while a process it started keeps
the pipe open (`pipe = "left"`), the timer may kill before or after the exit, and
`cmd.Run` returns when the child has ended and nobody can write. `buffer` is `limitedBuffer`, which counts on after it
stopped keeping.

### PackageInstall

`materializeSkill` down to the rename. The archive is not known in advance: each entry
read is any of `Entries` with a path, a kind, a declared size and the data behind it.
`budget` is `extractBudget`, with the size converted from an unsigned word, up to
2`HalfSize`-1, to a signed one as the code does. What is written, to which cleaned path, over what, and
what is left after an error, is `tree`.

### OcrAssets

`OcrRunStarts` picks the action by the options as `runBuiltinOCR` does, in a directory
that holds anything. A pinned asset is tried from one mirror after the other; a mirror
may fail, answer something else, or nothing. Other processes download into the same
directories between any two steps. A recognition then looks for the files its profile
names; `DownloadsAreUsable` says that models a run reported as downloaded are what the
recognition of that profile will find.

A file, and the library, holds what upstream published, something else, or nothing. Any
library that is not empty passes for one that is there. The runtime archive has no
digest: one that can be read and has a member of the right name is extracted, whatever
the member holds (`reader.opened`), also when another process put it there. So of the
runtime `DownloadsAreUsable` claims no more than that a library is in place.

## 3. Runs

| Run | Instance | Shows |
|---|---|---|
| `MutationLock` | 3 processes, 1 failure, overruns | exclusion until a lock file is lost, every call returns, an abandoned file is reclaimed |
| `MutationLockReclaimRace` | 2 processes, 1 crash, no overrun | *violation* of plain mutual exclusion, see finding 1 |
| `LedgerInterrupts` | 4 records readable, 2 legacy, batches of 2, 2 interruptions, 1 reader | chain, evidence, limits, finality, refinement of `SealedLog`, right verdicts of the reader |
| `LedgerPowerLossGap` | 1 power loss | *violation*, see finding 2 |
| `LockedLedger` | 2 processes, 1 crash, overruns, 2 records readable | until a lock is lost the processes implement `Ledger` |
| `SkillStoreCommands` | 3 versions, 2 interruptions, 1 run | what each command may leave behind |
| `SkillStoreTempPointer` | 2 versions, 1 interruption | *violation*, see finding 3 |
| `CommerceCalls` | 2 processes, 2 packs sharing a skill, 2 meters, 3 calls, 1 interruption, a client that repeats | billed when earned, success is billed, a repeated request bills once, the gate holds throughout |
| `ProAuthSessions` | 2 processes, up to 2 logins, 1 refresh, 1 lost answer, 3 keys, 2 overlay files | the session survives and changes hands only by its login, a pending login is kept, settings stick, a refresh takes effect |
| `ReceiptSubmissions` | 2 processes, 2 server keys, 3 receipts, 2 failures | trusted signer, order, accepted means recorded |
| `SemanticGoalRuns` | 2 runs at once, 1 photo, 3 versions (two alike), 2 windows, 1 failure | signatures tell, reports are true, copies are kept, repeated runs converge |
| `FrontEnds` | lines of 3 tokens, tool calls of 3 arguments with one of any shape, HTTP requests, runs, packages of 3 entries, OCR runs with 2 mirrors | refinement of `ConsentGate`, schemas and cases agree, confirmation is all that was missing, command lines mean what they say, answers, output and deadline of runs, limits and wholeness of packages, downloaded models are usable |

**Why the bounds are enough.** A lock is lost by two waiters and an owner, hence
three processes; the second overlap adds nothing new. A ledger is judged by its
last record, the one before it, and whether an older release left unsigned
ones: four records after up to two legacy ones cover a batch that crosses the
read limit, a failure at the first and at a later record, and an append after a
repair that never comes. Two interruptions are needed for the cases in which the
second meets what the first left (a record on an unterminated line, an anchor that
lags twice). Three versions are needed for rollback and uninstall to have a choice
(highest, second highest, other). Three calls let an install, a run and a second
install of an overlapping pack meet. Photos do not
influence each other except by the order in which a run takes them, so one photo
with three versions, two of them alike, meets every race of a scan, an edit and
two copies. Two logins and a refresh let an old session, its successor and a new
login exist together. In `ProAuthSessions` logins and config changes are bounded together
(a login counts `LoginWork`, a change `ChangeWork`, their sum stays within `MaxWork`), so
that two logins meet no more than one change and three changes meet no login; only the
command line takes config commands (`Editors`), a server's copy is the one that falls
behind. Symmetry is used only in `Commerce`, over processes and meters, which the
module never tells apart.

In `FrontEnds` three tokens are a flag, its value and a word, in every order, which is
what the passes can confuse; four add only a second flag. A tool case reads at most
three arguments together that depend on each other; the shape of one at a time is
enough, as no getter looks at two. In a word of 8 bits with a scale of 16 the
time-outs 2 and 7 fit, 8 is negative and 17 has wrapped round to a positive one; a caller
asks for nothing, 7, 8 or 17, and 2, 8 or 17 is configured. Two files
and three bytes of budget with three entries put each limit before, at and after the
last entry, and an entry of 15 in a word of 4 bits is negative when signed. Two mirrors
are a first that fails and a second that decides.

Deadlock is checked in every run but `FrontEnds`: there a run may wait for ever, with the
code, for a process its program left behind with the output pipe, or for a program
without a deadline. Every property has a mutant, a plausible bug
in one mapped definition that TLC shows to violate it; the mutants are kept beside
the definitions they vary.

### What the violations show

1. `MutationLockReclaimRace`. `staleLock` and `os.Remove` are two steps and the
   removal is by path. Two waiters judge the same abandoned file stale, one
   reclaims it and creates its own, the other removes that one and creates a third:
   two mutations run, although `service.go:739` tells a caller that *another*
   mutation is in progress when it may not enter.
2. `LedgerPowerLossGap`. `docs/dependencies.md:32` promises file and directory sync
   for local state; `appendJSONLine` does not sync. After a power loss the head
   vouches for a record that is gone, and the ledger is failed for good.
3. `SkillStoreTempPointer`. A killed install leaves `.<version>.tmp-*` with a
   manifest; it counts as installed, so a default rollback, or an uninstall, can
   write its name to `current`, which every later command rejects.

Also met while modelling, without a run of their own:

- With an older version of every skill installed, `capabilityPackPlanWarnings`
  (`packs.go:968`) tells the user that the install "will not create pack-install
  billing records"; the install moves the pointers and creates them.
- `copySemanticFile` sets the time of its copy by path. When a run with
  `--overwrite` has renamed a newer copy there, that one gets the old time, or
  the time of another version of the photo. Several properties of
  `SemanticGoal` therefore exclude what follows such a step, with `crossed`.
- Within one process, a registry refresh or a package download rotates the one-time
  refresh token in `auth.json` and leaves `s.Auth` as it was; a `start_pro_login`
  after it writes the spent token back, and the session is gone if that login is
  not completed. `SessionSurvives` therefore excludes, with `stale`, what follows
  the write of an outdated copy.

- Front ends.
  - `upgrade_skill` with an empty `skill` upgrades every skill. A message
    `notifications/initialized` that has an id gets no answer. Schemas say `number`
    for counts, but 0 is refused; `minLength` 1 admits a blank that the case refuses.
    `Sensible` and `Accepted` state these differences.
  - Value flags are taken before switches are known to be values:
    `rollback s --to --yes 1.0` is not what it reads like
    (`docs/agent-integration.md:87` shows the usual order). An unknown flag of
    `install` counts as the name of a skill, and the skills before it stay installed.
    `commerce receipts` accepts filters that `ListCommerceReceipts` ignores.
- Runs.
  - `config.go:72` describes `run_timeout_ms` as the default time-out of a skill's execution
    and `config.go:306` and `384` accept every positive number. `service.go:529` multiplies
    it into 64 bits of nanoseconds: from 9223372036855 on (about 292 years) the product may
    not be positive, and `runner.go:23` then sets no deadline at all, or it may wrap to a
    short one. `RunIsBounded` therefore promises a deadline only when the configured
    time-out fits; an instance with 8 as the configured time-out has runs without one.
  - A `timeout_ms` whose duration overflows falls back to the default, or comes out as a
    short one; so it is with a `lock_timeout_ms` or a `stale_lock_ms` in `config.json`.
  - A program that ends right after its deadline is a time-out, and unbilled.
  - A process the program leaves behind keeps the run waiting past every time-out.
- Billing. An install that fails, or whose client hangs up, between the last skill and
  the record is `already_installed` when it is repeated, and is never billed:
  `RetryBillsOnce` says at most once, not exactly once.
- Configuration. Two processes that change different keys lose one change
  (`SettingsStick` excludes it with `confStale`). A broken `config.json` makes every
  command fail that could repair it. `ProCallback` can report a failure after the
  session is saved. Lowering `registry_max_bytes` silently drops the cached registry.
- Packages. A declared size of 2^63 or more is negative in the budget, so the budget
  lets it pass and only the reader notices. An entry longer than declared is cut
  without an error. An entrypoint called `manifest.json` or `README.txt` is
  overwritten. Of two bundles for one platform an install takes the first and
  `registry status` the last. `upgrade` of an alias looks for the current version under the
  alias, while the install resolves it.
- Versions. Without `--to`, rollback goes to the highest other version: the second
  rollback goes forward again. `compareVersion` orders versions with equal numbers as
  strings, so `1.0.0-rc` is above `1.0.0`.
- Proofs. Plain proofs make the proof key without the lock; two first proofs may be
  signed with two keys.
- OCR. A runtime that exists, any file that is not empty, passes for whatever version was
  asked. The runtime archive and the models of the newest profile are unpinned: an empty
  body counts as downloaded, and the member of an archive, even an empty one, is put into
  place and reported as a success. What the report says of the archive it fetched need
  not be the archive it extracted, when two runs fetch into one directory. When two profiles share a directory, the newer one takes the dictionary
  of the older one, and nothing compares it with the classes of the model.
  `--timeout-ms` does not reach built-in skills.
- Replication. `ReportedReplicated` depends on the versions: it holds for any in which no photo
  comes back to an earlier size within one second (`SizesSettle`, see `Reported` below; the
  instance is one of those). When one does, as with the sizes 1, 2, 1, a run with `--overwrite` that filled its temporary file earlier may replace, by
  an older version of another size, what another run has reported as skipped.

## 4. Fairness

`MutationLock`, `SemanticGoal` and `FrontEnds` have liveness. `Fairness` of the lock says that a process that is
scheduled takes its next step in the retry loop, that a mutation ends (downloads
and requests carry time-outs, see `limits.go` and `http_client.go`), that time
passes (a deadline, and the age of an abandoned file), and nothing about crashes
or overruns. Under it every call returns (`EveryCallReturns`). For
`AbandonedLockReclaimed`, `BusySpec` adds that commands keep being issued, and
that it is not the case for ever that a caller's whole `lock_timeout_ms` (5 s by
default) runs out before its first attempt: strong fairness of `Open`. Without it
a caller could always be put to sleep until its deadline, which nothing in the
code prevents but no scheduler does.

`FairSpec` of `SemanticGoal` says that a run that has started goes on, as a process
that is scheduled does (it may still fail or die, within the bound), and that
some caller keeps asking for the goal with `--apply --overwrite` and a window
that covers every photo, which is what a goal in the mode `reconcile_state` is
repeated for: strong fairness of `Repair`, because that caller may be in the middle
of another run whenever it looks. `Converges` holds under it although other runs,
with other flags and older scans, go on beside it.

`Fairness` of `FrontEnds` says that a front end goes on with what it has in hand: a
`Service` call returns (the lock and every HTTP client have a time-out, the rest is work
on local files), an install and an OCR run take their next step, a child process is
scheduled and its timer fires (`RunFairness`), an answer is written. Nothing is
assumed of the client, of the program that is run, or of processes it left behind:
`EveryRequestAnswered` names the two ways in which a request can stay unanswered
(`Unbounded`): such a process keeps the output pipe, or the program does not end and
the configured time-out has overflowed so that there is no timer.

The other components promise nothing that must eventually happen: each call
ends or fails with the requests it makes, and no component works by itself.

## 5. Proofs

For every number of processes, records, batches and interruptions:

- `LockedLedgerProofs`, first about `MutationLock`:
  - `TypeCorrect`, and `Ownership` (`FileOwned`, that is `HolderOwnsFile` and
    `NoOrphanFile`). Exclusion itself is not inductive: that two processes are not in the callback follows from
    the file having one creator. The inductive invariant `IInv` is the type
    invariant with these two: while nothing was compromised, the process in the
    callback is the creator of the file and the file is not stale, and a file
    names nobody but a process in the callback or a dead one.
  - `Exclusion`: `ExclusionUnlessCompromised` follows from `Ownership`.
- `LedgerProofs`
  - `TypeCorrect`, `Chain` (`ChainIntact`), `Evidence`
    (`EvidenceFollowsRecords`), `Limits` (`AnchorsLagByOne`, `StopsPastReadCap`),
    `Finality` (`FailureIsFinal`).
  - `Implementation`: `Spec => ImplementsSealedLog`.

  The chain is defined by `HashBefore`, the hash of the last *signed* record
  before a position, wherever that is. The proof replaces this by a neighbour
  (`HashBeforeIsNeighbour`): the unsigned records are a prefix, so the last
  signed record before `n` is record `n - 1` or there is none. With it
  `ChainInv` is inductive: every record is linked to its neighbour, and the
  record held between `Sign` and `AppendLine` continues the last one.
  `EvidenceInv` adds what each stage knows of the files already written;
  `LimitInv` that a signed record was signed over a readable file whose anchors
  did not lag, so that there is room for one; `FreshInv` that no hash was
  issued twice, from which `Extend` of `SealedLog` follows. For the refinement,
  the steps of `Ledger` fall into `AppendLine` and a short write (`Extend`), the
  steps that make `Refused` true (`Seal`), and the rest (stutter); `Finality` gives
  that a sealed ledger never moves again.

  - For the reader without a lock: `Assurance` (`NoFalseAssurance`) and `NoAlarm`
    (`NoFalseAlarmAtRest`). Marks are written in one order and hashes grow
    (`Ascending`), so a head with the hash of the last record read is the mark of that
    record. `Marked` says that one mark is that of the last record and the later ones
    are missing; such files are sound (`MarkedIsSound`). `AssuranceInv` keeps that
    whenever the marks were so for the records the reader holds, the files were sound at
    some moment since, and that a mark it read early is followed by what it will read
    later. `AlarmInv` keeps that whatever was read of a ledger at rest is still there.
- `LockedLedgerProofs`, then about the composition: `Composition`, that is
  `Spec => ImplementsLedger`. Every step is a step of `MutationLock` or leaves the lock alone, so the lock's `TypeOK` and
  `FileOwned` carry over. `LInv` adds that a process is in the middle of an append
  only inside the callback, and that, while no lock was lost, the record on its way was
  signed by the process that holds the lock. Then at most one process is writing, the
  mapping picks it, and each step maps to one of `Ledger` or a stutter.
- `SkillStoreProofs`: `TypeCorrect`, `CurrentIsWhole` (`OnlyUninstallBreaksCurrent`),
  `PointerMatches` (`PointerMatchesInstalled`), `RunSurvives`
  (`RunSurvivesMutations`). `DirsInv` says what each stage of a command has left in
  the directories, `PointerInv` which versions the pointer may name, `ReaderInv` what
  a run that has read the pointer may rely on. Rollback and uninstall choose a
  maximum; that a nonempty finite set of numbers has one is derived from the
  well-foundedness of `<`.
- `CommerceProofs`: `TypeCorrect`, `Earned` (`BilledWhenEarned`), `Billed`
  (`SuccessIsBilled`), `Gate` (`GateHoldsThroughout`), and for the repeating client
  `BilledOnce` (`RetryBillsOnce`). The invariant is one statement per call
  (`CallInv`), that no two calls have one number, and one about the books. A step of a
  process touches its call, and the books only by records of that call (`Touches`,
  `OthersKeep`). For the client, `RetryInv`: the skills a call has passed
  are settled; a call that moved one is the only one of the client's that bills; any
  bill means that every skill of the pack is settled.
- `ProAuthProofs`: `TypeCorrect`, `Survival` (`SessionSurvives`), `Ownership`
  (`SessionChangesHands`), `Pending` (`PendingSurvives`) and, for `Settings`, `Sticks`
  (`SettingsStick`) and `RefreshSticks` (`RefreshTakesEffect`). The invariant says what an operation under way holds (`OpInv`,
  `PendingInv`), that a login has one live token and nobody holds a newer one
  (`TokenInv`), that a token on its way to the disk is known to one process (`FreshInv`),
  and that a copy that is not `behind` agrees with the file (`CopyInv`). A step of
  `Settings` is a step of `ProAuth` or leaves it alone, which carries these over.
  `StickInv`: with a file that cannot be read every copy is behind, and a copy
  that is not behind equals the file. `RefreshSticks` is about what `LoadRegistry`
  puts together, a fold of merges over the layers: `MergeSays` tells that what a manifest
  offers when it is merged into nothing it also offers when it is merged into any registry,
  so that the last layer, the cache, decides, whatever the layers below it are. `RefreshInv`
  keeps that the cache is the last answer that was accepted, and that a process that loaded
  it since, within its limits, offers what it says.
- `ReceiptsProofs`: `TypeCorrect`, `OneSigner` (`TrustedSigner`), `Order`
  (`ReceiptContinuesItsProof`), `Accepted` (`AcceptedIsRecorded`). The lock is held from the
  check to the append, so that what was checked still holds when the receipt is
  written; the invariant says so for each stage.
- `SemanticGoalProofs`, of the specification without fairness: `TypeCorrect`,
  `Signature` (`SignatureTells`), `Kept` (`CopiesKept`), and `Reported`
  (`ReportedReplicated`), which assumes `SizesSettle`. `RunInv` says what a run
  knows of the photo in hand, `CopyInv` that the time of a copy is that of a version no
  later than its content; the times of versions never decrease (an assumption on the
  constants). `ReportInv` adds that what a run is about to replace is no later than what it
  replaces it with. If that is older than what another run reports, the copy replaced
  was only alike with the version reported, and the new one lies between the two: with
  `SizesSettle` it is alike as well.
- `FrontEndsProofs`, of the specification without fairness.
  - `DeadlineHolds` (`RunIsBounded`) and `ReportIsTrue` (`ReportTellsOutput`), for any limits,
    time-outs and width of a word; nothing is assumed of the configured time-out but that it
    is positive. What fits a word is what was asked for, and what does not wraps to less
    (`TimeoutBounded`). `RunInv` fixes what each stage of a run knows of child, pipe and buffer.
  - `ChangesAreConfirmed`: `Spec => ImplementsConsentGate`, for lines, calls and requests
    of any length and content. Each step is one of `ConsentGate` or a stutter; `GateInv`
    ties the stage to the consent and to what has been answered. A command is taken to the
    `Service` without a question only when a switch that confirms was given, which is
    read off its table and its passes (`PassesRead`).
  - `ConfirmationSuffices` (`ConfirmationIsLast`): `--yes` in front of a line, or `yes` among
    the arguments or in the body, changes nothing else of what is read (`SwitchInFront`,
    `CallRepeated`, `HttpRepeated`). `RequestInv` ties a verdict to its request.
  - `SchemasAreTrue` (`SchemasTellCalls`), by a comparison of schema and case for each tool.
    Tables are joined from small ones (`JoinedEntry`), so that an entry is looked up
    in one of them.
  - `LineIsRead` (`ReadsAsWritten`), for every command and a line of any length. A fold over
    a sequence has a value after each element (`FoldSteps`), so that a step says what the
    next value is; induction is over the positions, with what is to be shown as a set of
    them (`StepsInduction`). Both readings are reduced to what they say without an order:
    which tokens are left (`LeftSteps`), which token gives a flag its value (`ValueSteps`).
    A line read in order is `Complete`: every flag is followed by a value (`WrittenRead`).
    On such a line the pass of one flag takes that flag and its value and nothing else
    (`FlagTaken`), and leaves a line that is complete for the other flags (`PassesTaken`).
    `Proper` is what this needs of the tables: no flag is listed twice, or also as a switch.
    `LineInv` says that the line in hand is one of a command, made of its tokens.
  - `ExtractionIsBounded` (`WithinLimits`) and `InstallIsWhole` (`InstalledIsWhole`), for every
    archive. `PackageInv` has one statement per stage; `TreeInv` bounds what is in `tree` by
    what was reserved for it (`TotalSums`), unless a size was too wide.
  - `DownloadsSuffice` (`DownloadsAreUsable`). `OcrInv` says what a run has already found
    or fetched, and that other processes take no model and no library away, nor a pinned
    model's bytes.

The assumptions are those on the constants (`LockAssumption`, `LedgerAssumption`, ...):
numbers of things, and that inputs have the shape the code reads: the words of a line are
tokens, the arguments of a call are JSON values, a request has the parts of an HTTP request
(`FrontEndsAssumption`), an entry of an archive has a path, a kind, a size and data
(`PackageAssumption`), a manifest lists its skills (`SettingsAssumption`). TLC evaluates
them in the runs.

`TypeCorrect` of each module, `Ownership` of the lock and `AnchorsLagByOne` are proved
and have no run of their own: they are parts of the inductive invariants.

**Only model-checked.** Liveness (`EveryCallReturns`, `AbandonedLockReclaimed`, `Converges`,
`EveryRequestAnswered`): fairness and ENABLED are outside the prover. Every safety property
of the runs that pass is stated by a theorem.

## 6. Plan

Done in this order, the most consequential first: the lock, one ledger, its
abstract promise, readers and power loss, lock and ledger together, the store,
billing, the session, receipts, replication; then the configuration with the
registry, the front ends over execution, installation and OCR assets, the client that
repeats its requests; and the proofs about all of them.

What is left:

1. Operators against reference definitions: `compareVersion` (the store takes
   versions in an order that is given), the filters of the ledger lists, the plan of a
   pack against what the install then does (`packs.go:952`), the scores of scenarios
   and of the security audit.
2. Death of a process in `PackageInstall` and `OcrAssets`, now in `SkillStore` only.
3. Proofs about what these would add.

## 7. Not modelled

- Agent targets, the dashboard page, the release demo, output schemas and help texts:
  text and data without state.
- The cryptography: signatures and hashes are values nobody else can make.
- HTTP transport, compression, the registration of URL schemes with the operating
  system: I/O with an outcome (it works, it fails) and no protocol.
- Document conversion, image and speech requests, web search, the security audit:
  sequential computations over their input, with no state shared with the rest.
- The native OCR adapter (tensors, text), and the catalogue of built-in skills, packs and
  scenarios: data. The models take it as a parameter.

`PROJECT.json` gives the status and the reason for each component.
