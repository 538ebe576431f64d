# CacheProof verification

CacheProof runs an application's probes against a TCP proxy in front of Redis,
injects cache faults through that proxy, and reports whether the cache was
really disposable. This directory holds TLA+ models of the parts of it that
decide what a run does and what it says, the TLC configurations that check
them, and proofs of the main invariants.

Paths below are relative to the repository (`src/` here is its root).

## 1. Inventory

| Component | Source | State | Operations |
|---|---|---|---|
| TCP proxy | `internal/proxy` | engine, listener, registered connections, WaitGroup, run context; per connection a handler and a watcher goroutine, two sockets and a `bufio.Reader` | `Start`, `SetEngine`, `CloseAllConns`, `Shutdown`; accept loop; `handleConn`, `forwardCommand` |
| Fault engines | `internal/fault` | none (seed and probability are fixed) | `Decide`, `RefuseConnections`, `shouldMiss` |
| Orchestrator | `internal/orchestrator` | position in the run, probe results, findings, engine of the proxy | `Run`, `runWarmup`, `runMeasuredProbes`, `runScenario`, `prepareScenario`, `runResetCommand` |
| Test command | `cmd/cacheproof/command_run.go`, `main.go` | flags, root context | `runTest`: load, compile, dial, `Run`, report writing, exit code |
| Doctor command | `cmd/cacheproof/command_doctor.go` | flags, root context, proxy started or not | `runDoctor`: the same preparations in another order, each probe once, a look at the recorder |
| Exit codes | `internal/appx` | none | `ExitCode` of the kind of error |
| Reports | `internal/report` | none | `BuildRunResult`, `ExitCodeForResult`, `WriteJUnit`, `WriteJSON`, terminal |
| Cold cache deletion | `internal/policy/cold_cache.go` | SCAN cursor, budget spent, UNLINK known or not | `DeleteColdCache`, `deletePattern` |
| Policy audit | `internal/policy/auditor.go` | the recorder's snapshot, SCAN cursor, keys scanned, counters per pattern | `Audit`, `auditTTL` |
| Recorder | `internal/recorder` | scenario, counters by name and by scenario, keys, sizes of values; one lock | `New`, `Observe` with `valueSize`, `SetScenario`, `Snapshot` |
| RESP codec and client | `internal/resp` | buffered reader, one connection | `ReadCommand`, `ReadReply`, `DialContext`, `Do` |
| Probe runner | `internal/probe` | compiled schemas, one result | `CompileSchemas`, `Run`, `runHTTP`, `runCommand`, `evaluateAssertions` |
| Configuration | `internal/config` | none after loading | `Load`, `applyDefaults`, `Validate` |
| Init, version | `cmd/cacheproof` | none | one command each |

**How they interact.** `runTest` builds the proxy, the recorder, the auditor
and calls `orchestrator.Run` on one goroutine. `Run` starts the proxy, runs
the probes, switches the proxy's engine between scenarios (`SetEngine`,
shared field under `Proxy.mu`), closes connections (`CloseAllConns`), asks
Redis directly for the cold-cache deletion and the audit, and shuts the proxy
down in a deferred call. The app under test talks to the proxy from processes
of its own; each accepted connection gets a handler goroutine, which reads
the engine per command, and a watcher goroutine, which closes the sockets when
the run context ends. Handlers report commands to the recorder before they
decide; the orchestrator names the scenario to the recorder, looks at its
counter around the baseline, and hands a snapshot to the audit. `runDoctor`
uses the proxy, the recorder and the probe runner in the same way, without the
orchestrator. What both take for granted of a configuration is what `Validate`
accepted.

**What is hard.**

* The proxy: `CloseAllConns` closes a snapshot while connections are accepted
  and registered; a handler decides with an engine that may be replaced
  meanwhile and has commands left in its buffer after its socket is closed;
  shutdown waits on a WaitGroup that the accept loop raises.
* The orchestrator: every call can fail or be cut short by a signal, and none
  of these exits may leave the proxy under a fault or give an exit code that
  disagrees with the reports.
* Deletion and audit: SCAN repeats keys, returns empty replies before it is
  over, and runs while the app writes; limits are shared across overlapping
  patterns; times are rounded by Redis and truncated by the code.
* The commands: a probe ends by an answer, an error, its timeout, a signal or
  not at all, and for a probe that is expected to fail these must not look the
  same; the baseline's result of a probe is kept for later comparison; the exit
  code has four meanings and a dozen places that decide it.
* The configuration: an absent key, a zero and an explicit zero are three
  things to `applyDefaults`, and later phases repeat none of the checks.

What makes each component correct is stated as the properties of section 4;
the places where it could fail are the hazards of `PROJECT.json`.

## 2. Modules

| Module | Models | Remarks |
|---|---|---|
| `FaultEngine` | the three engines and the verdict of `handleConn` on a command | `shouldMiss` depends on seed and key only, so the keys it selects are a constant set |
| `ProxyContract` | what a user of the proxy relies on | three variables: phase, gate, live connections |
| `Proxy` | `internal/proxy` as goroutines | implements `ProxyContract` |
| `ProxyMC`, `ProxyProofs` | instances; proofs | |
| `ProxySession` | the conversation on one connection: commands with meanings, Redis's state, replies | transactions, RESP version, subscriptions; no sockets and no rivals |
| `ProxySessionMC`, `ProxySessionProofs` | a vocabulary; proofs | order of the replies, transactions, protocol version |
| `RespReply`, `RespReplyProofs` | `ReadReplyRaw`: where a reply of Redis ends; proofs | replies are one step in `ProxySession` because of it |
| `Report` | summary, exit code, JUnit verdicts, as operators | |
| `ReportProofs` | that these agree, for all inputs | |
| `Orchestrator` | `orchestrator.Run` and `runTest` over `ProxyContract` and `Report` | |
| `OrchestratorMC`, `OrchestratorProofs` | three scenarios, one of each type; proofs | |
| `Config` | `internal/config`: defaults and `Validate`, as operators | |
| `ProbeRunner` | results and assertions of `internal/probe`, as operators | extends `Config` |
| `Commands` | `runDoctor`, and `runTest` with every phase, reset command, warm-up and probe of its run | uses `ProbeRunner`; no faults and no reports |
| `CommandsMC`, `CommandsProofs` | families of command lines and files; proofs | |
| `RedisScan` | what Redis promises of SCAN | external, shared by the next two |
| `ColdCache`, `ColdCacheMC`, `ColdCacheProofs` | `DeleteColdCache` | |
| `TTLAudit`, `TTLAuditMC` | `auditTTL` | |
| `Recorder` | `internal/recorder`, as operators on its state | |
| `PolicyAudit` | handlers and `SetScenario` on the recorder, then `Audit` | composes `Recorder` and `TTLAudit` |
| `PolicyAuditMC`, `PolicyAuditProofs` | instances; proofs about the keys and the traffic | |

### Correspondence

**Proxy.** `pc[c]` is the place of connection `c` and its handler: `backlog`
and `accepted` before the `go` statement, then the statements of `handleConn`
between two points where another goroutine can interfere, then the deferred
calls in their order (`teardown` closes `stopWatch` and both sockets,
`unregister`, `release` is `wg.Done`). Each section under `Proxy.mu` is one
action; so is each socket call another goroutine can race with. `acceptor`,
`watch[c]` and `ctl` are the accept loop, the watcher and the orchestrator's
goroutine. `CloseAllConns` is a snapshot (`SnapshotConns`), one `CloseConn`
per connection, and `ConnsClosed`; `Shutdown` is `BeginShutdown` (which
cancels), `CloseListener` (which may fail), the same sweep, and a wait that
ends by `Drained` or `DrainTimesOut`. Commands are counted, not named: the
command is chosen when the handler decides on it. `severed` and `late` are
history variables for the properties.

**ProxySession.** The loop of `handleConn` again, with what `Proxy` leaves out:
a command has a name, a key and the version HELLO asks for, and Redis (external)
has a transaction, a protocol and subscriptions. `Read` is one turn of the loop
up to the reply the handler writes itself (`Reject`, `Miss`), the end (`Drop`)
or the write upstream (`Forward`); `Relay` is the rest of `forwardCommand` with
the update of `resp3`. Commands are numbered by their place in the
conversation, replies carry the number of the command they answer (0 for a
published message). The engine switches between any two steps. The handler does
not follow RESET, nor a HELLO that was queued in a transaction, with its
`resp3`; `NilInProtocol` leaves both out (`Untracked`). SUBSCRIBE is the one
command with several replies; properties about the pairing of commands and
replies hold until one reaches Redis (`OneReplyEach`).

**RespReply.** A token is a line of RESP with the count it announces, or the
payload of a bulk. `stack` holds a frame for each call of `readReplyRawDepth`
that is in its loop; `ReadLine` and `ReadPayload` are what the innermost call
does with the next token, `Return` is the way back through calls whose loop is
over. Redis (`Send`) writes by the grammar of RESP3, keeping its own account of
what is still owed, so that the two can disagree; its aggregates may be longer
or deeper than the reader accepts. A token is sent in the step that reads it,
since the buffers between are FIFO.

**Orchestrator.** `pc` is the place in `Run`; the loops over scenarios, probes
and warm-up attempts have the code's counters (`cur`, `probe`, `attempt`).
Each call that takes the context succeeds only while it is not cancelled, and
may fail at any time: `CallFails` has one disjunct per error return, and
`Fails` does what Go's deferred and explicit clean-up does on the way out. The
proxy is present through the actions of `ProxyContract`, so what is assumed of
it is what `Proxy` is shown to implement.

**ColdCache and TTLAudit.** One action per Redis command and per exit from a
loop. `owed` is the set of keys SCAN still has to return to keep its promise;
`ScanReply` allows every reply that keeps it. The app's writes and removals
happen between any two steps.

**PolicyAudit and Recorder.** A handler is at `read`, `observe` or `decide`:
`Read` takes a command from the app, `Observe` is `recorder.Observe`, and
`Answer` or `Drop` is whatever follows (`ProxySession` and `Proxy` have that in
detail). `Recorder!ValuePosition` is `valueSize`'s table; `Stored`, which only the
property uses, is where Redis takes values from, for these commands and for
others that store one. `NextPhase` is `SetScenario`. `Audit` takes the snapshot and judges it
at once (`Contract`); then come the dial, `TTLAudit` step by step, and
`Return`. The recorder's operations hold its lock, so each is a function from
record to record, and a snapshot, being a copy, is the record at that moment.
The counts by scenario are modelled although no report reads them: a command
read before `SetScenario` and recorded after it is booked under the next
scenario, and nothing but the type invariant's sum (`AddsUp`) could be wrong.

**Config, ProbeRunner and Commands.** A setting is a number: a list is its
length, an address 0 when it is empty, a duration its count of the unit of its
default. A file (`Document`) says which settings the YAML decoder finds in it
(`written`) and which of them are in place (`inPlace`): `hasYAMLKey` walks the
nodes as written, so it sees neither a setting that comes through a merge key nor
one whose section is an alias, of the proxy and of the safety section alike.
`Validate` is the conjunction of the struct tags and of the checks that follow
them; `LikeBaseline` is the set of names that `strings.EqualFold` takes for
"baseline". The rule for patterns stands in the code twice, and so it does here:
`ValidateDeletePattern` is `config`'s and `DeletePatternValid` is `policy`'s.
A result of the runner has the failed assertions as a set, and a history
component `answered` that no code reads.

`Commands` walks from `load` to `exited`; `Steps` has the two orders of
preparation. A command line (`Invocations`) has the command, its flags and the
file. `Phases` are the baseline (0) and the scenarios that `--only` leaves, and
`measured` has a sequence of results for each index, which stays empty for those
that are skipped. A phase of `test` is the reset command (`StartReset`,
`ResetEnds`), the warm-up, unless `--no-warmup` skips it, with its attempts and
waits, `Prepare` (the ping and `prepareScenario`), and the measured probes. One
probe is `Begin`, the HTTP call, the command, and what becomes of it: the warm-up
only asks whether there was an error, otherwise `Judge` is the end of `Run` with
the assertions. `expired` is the context of the probe or reset command under way:
with `test` it ends after `probe_timeout`, if that is positive, or on a signal;
with `doctor` on a signal alone. `held` is a process, left behind by the command of
a probe or by the reset command, that keeps the output pipe open so that `cmd.Run`
does not return. Failures of `newRunID` are among those of `load`.

## 3. Abstractions

* Payloads, log lines and layouts of reports are left out. The framing of
  commands is not modelled: a command is whole.
* A handler's verdict is drawn from the given commands when it decides.
* The app may send before the handler reads, but nothing looks at the data
  before `handleConn` enters its loop; the model lets it arrive from then on.
* In `Orchestrator`, probes, the reset command and the audit are external: they
  succeed, fail or return a verdict, in any order. Probes are opened up in
  `Commands`, the audit in `PolicyAudit`. Redis, the file system, the app and
  the processes it starts are external everywhere.
* A panic in a handler is recovered by the code and is not modelled.
* `Orchestrator`, `ColdCache` and `PolicyAudit` assume the configurations
  `Validate` accepts: scenarios of known types, at least one probe, budgets and
  a `max_value_bytes` above zero, deletable patterns for `cold_cache`.
  `AcceptedRuns` of `Commands` shows that no other gets that far.
* `Commands` takes the YAML as parsed, and one Boolean (`named`) for the form of
  names, methods, URLs and addresses. Bodies are what is at the paths of the
  assertions, and a schema is a set of paths it requires.
* Keys in the recorder are told apart as by a hash without collisions.

## 4. Runs

| Run | Instance | Shows |
|---|---|---|
| `proxy` | 2 connections, 1 forwarded command each | `WaitGroupCount`, `UnavailableSevers`, `CleanShutdown` |
| `proxy_pipeline` | 1 connection, 3 pipelined commands, fairness | `ClosedForwardsAtMostOne`, `NoAddAfterDrain`, `ImplementsContract`, `Quiesces`, `AnsweredSeverReleases` |
| `proxy_blocked_redis` | 1 connection, Redis may block | `SeverReleasesUpstream` fails (finding 1) |
| `proxy_session` | 9 commands to choose from, conversations of 4, 1 waiting message, fairness | `RepliesInOrder`, `AnsweredOnce`, `NilInProtocol`, `ExecMatchesQueued`, `ForwardsReplies` |
| `proxy_session_pubsub` | SUBSCRIBE and SET, conversations of 2 | `PassThroughForwards` fails (finding 2) |
| `resp_reply` | 6 tokens, depth 2, aggregates of 2, one above each limit | `WholeReplies`, `NothingHeldBack` |
| `orchestrator` | 3 scenarios, 1 probe, 1 retry, 1 observed command, 1 connection, fairness | `FaultConfined`, `FaultWhileMeasured`, `CompleteReport`, `TrafficFinding`, `ExitMeansResult`, `JUnitAgrees`, `ProxyReleased`, `Terminates` |
| `only_runs_scenario` | the same | `OnlyRunsScenario` fails (finding 3) |
| `cold_cache` | 2 overlapping patterns, 2 keys that come back and one outside, replies of up to 2 keys, budget 3 | `DeleteBudget`, `ColdUnderBudget` |
| `policy_audit` | 2 connections, 3 of 4 commands, 2 scenarios; 2 overlapping patterns, 2 keys, replies of up to 2, 4 keys looked at most | `FindingsTrue`, `AuditComplete`, `AuditMeansTraffic` |
| `ttl_rounding` | `max_ttl: 1900ms` | `FindingsTrue` fails (finding 4) |
| `commands` | `doctor` and `test`, five families of command lines and files, 7 answers, 2 exit statuses, fairness | `AcceptedRuns`, `PassMeansRan`, `PassMeansSame`, `ExitMeaning`, `Ends` |

Every module with variables has one type invariant, checked with its run.

What four of these say needs a word:

* `AcceptedRuns` is what the phases after `Validate` rely on without looking again:
  different names for probes and for scenarios, types that `prepareScenario`
  knows, patterns that `DeleteColdCache`'s own copy of the rule does not refuse
  after a part of the run, limits in range, one thing to do for each probe and for
  the reset command, and no shell that was not allowed. It also says that a written
  setting is the one in force, unless it is a zero that is not in place.
* `ExitMeaning`: 0 and 1 mean that the baseline and exactly the scenarios that
  `--only` leaves were measured with every probe, and 1 that a probe failed or a
  finding counts, for both commands; 2 means that no probe was begun.
* `AuditMeansTraffic`: what is found was sent; a suspicious command that was answered
  before the audit is found, and so is a value too big of a command in
  `valueSize`'s table. It promises nothing of the values of other commands, which
  the code does not look at (section 8).
* `Terminates` and `Ends` divide the question whether a run ends. In `Orchestrator`
  a call of a probe or of the reset command may never return; `Terminates` says that
  nothing else keeps the run from its exit: no loop over retries, scenarios or
  probes, no failure and no signal. `Ends` says when those calls do return.

**Why these bounds suffice.** The proxy's connections interact only through
the engine, the registry, the counter and the controller; two let one be in
the snapshot of `CloseAllConns` while the other registers, and one be torn
down while the other holds the WaitGroup. Pipelining is a matter of a single
connection, so it gets one with three commands: one being served, one in the
buffer, one still in the kernel. Missed and refused commands are in that run
too; the run of two connections forwards its commands, which is the case that
holds both sockets longest. Four commands are the shortest conversation with a
transaction that loses a command to a fault (MULTI, a miss, a queued command,
EXEC), and enough for HELLO, a refused HELLO and a miss after it. Six tokens
are an attribute with its pair inside an array next to another reply, or three
aggregates inside one another and one too many. The orchestrator's scenarios
share nothing but the proxy and the counters, so one of each type covers every
pair of neighbours a fault could leak between; with one retry the warm-up
takes both exits of its loop. One observed command tells baseline traffic from
other traffic. A budget of three with two keys that come back makes it run out
in the middle of a pattern, in the middle of a reply and not at all; a cap of
four does the same for the audit. Traffic and keys meet in the audit's result
alone, so `policy_audit` varies one over a fixed other (`Bounded` of
`PolicyAuditMC`); three commands on two connections let one be recorded while
another waits, before and after the scenario changes and the snapshot is taken.
The files of `commands` are families of one departure each from an accepted file:
one HTTP probe with every choice of assertions (`Asserting`); settings that are
absent, zero or out of range, in place, in an alias or partly so (`Configuring`);
every precondition of `cold_cache`, with and without that scenario (`Deleting`);
every form of probe, names used twice, next to each other or apart, and the other
rows that `Validate` rejects (`Probing`). Phases are a family of their own
(`Phased`): one or two scenarios, one or two probes, a reset command or none, a
retry with and without a delay, `--only` with each name and with a misspelled one,
with and without the warm-up. One scenario after the
baseline is enough for a comparison with it, and two probes or scenarios for one
to be lost, skipped or counted twice. Every invariant of a passing run is
in addition proved for every size (section 6).

**Deadlock** is switched off in every run: the systems stop (a proxy that was
shut down, a run that exited, an audit that is done), and the bounded app stops
sending. That they stop where they should is `Quiesces` and `Terminates`.

## 5. Fairness

* `Proxy!Fairness`: the Go scheduler runs a goroutine that can run, and the
  kernel reports a closed socket to whoever uses it. Nothing is assumed of
  Redis beyond the deadlines of the client's dial and PING, nothing of the
  app, and no write is assumed to find room in a socket's buffer.
* `ReadingSpec` adds that Redis reads what it is sent, for the run of finding 1.
  That it also answers (`AnsweringRedis`) is a premise of
  `AnsweredSeverReleases` and no part of a specification.
* `ProxySession!FairSpec`: Redis executes what it was sent and the handler reads
  the reply it waits for; the app may stop sending at any time.
* `Orchestrator!Fairness`: the goroutine's calls return, except those of a probe
  and of the reset command (`Waiting`), of which nothing is assumed: a
  `probe_timeout` that is not positive sets no deadline, and `cmd.Run` waits for
  whoever holds the command's pipe. The others are bounded: client calls have a
  deadline, the wait between attempts has a timer, the shutdown takes five
  seconds at most, and `CloseAllConns` closes every connection that is open (so the
  cut happens). That an iteration of SCAN ends is taken for granted.
* `Commands!FairSpec`: the goroutine goes on where it waits for no process and for
  no answer of the app (`Proceed`, by the same reasons); a timer fires; `net/http`,
  and `os/exec` once the pipe is free, return after their context has ended.
  Nothing is assumed of the app, of a process before that, or of a process that
  holds the pipe, be it left by a probe's command or by the reset command. `Ends`
  therefore promises an exit *or* a pipe that is held for good, and only to a
  `test` with a positive `probe_timeout` or after a signal: a negative timeout
  passes `Validate` and means none, and `doctor` has none.

## 6. Proofs

| Module | Theorems | Assumptions |
|---|---|---|
| `ProxyProofs` | `TypeCorrect`, `WaitGroupCorrect`, `CutCorrect`, `ShutdownCorrect`, `LateCorrect`, `NoAddCorrect`, `Refinement` | finitely many connections (`ConnAssumption`), `CommandsAssumption`, `PipelineAssumption`, `KeyAssumption` |
| `ProxySessionProofs` | `TypeCorrect`, `OrderCorrect`, `AnsweredCorrect`, `ExecCorrect`, `NilCorrect` | `SessionAssumption`, `BoundsAssumption`, `KeyAssumption` |
| `RespReplyProofs` | `TypeCorrect`, `RepliesCorrect`, `NothingHeldCorrect` | `LimitsAssumption` (limits are natural numbers) |
| `ColdCacheProofs` | `TypeCorrect`, `BudgetCorrect`, `ColdCorrect`, `RemoteCorrect` | `PatternsAssumption`, `LimitAssumption`, `BatchAssumption` |
| `ReportProofs` | `ExitCodeMeans`, `JUnitAgreesWithExitCode` | the inputs are finite sequences of scenarios and findings |
| `OrchestratorProofs` | `TypeCorrect`, `ConfinedCorrect`, `MeasuredCorrect`, `TrafficCorrect`, `ReleasedCorrect`, `ExitCorrect`, `JUnitCorrect`, `CompleteCorrect`, `DrivesContract`, `PermittedCorrect` | `ScenariosAssumption` (scenarios of known types), `ProbesAssumption`, `RetriesAssumption`, `RowsAssumption` |
| `CommandsProofs` | `TypeCorrect`, `AcceptedCorrect`, `RanCorrect`, `SameCorrect`, `ExitCorrect` | `InvocationsAssumption`, `ResponsesAssumption`, `ExitsAssumption`, `PathAssumption`, `LikeBaselineAssumption` |
| `PolicyAuditProofs` | `TypeCorrect`, `FindingsCorrect` (of whole seconds), `CompleteCorrect`, `Refinement` | `PatternsAssumption`, `TimesAssumption`, `BatchAssumption`, `ScannedAssumption` |
| | `AuditTypeCorrect`, `TrafficCorrect` | in addition `ArgAssumption`, `MaxValueAssumption`, `NameAssumption` (finitely many command names), `CommandsAssumption`, `SuspiciousAssumption`, `ValidatedAssumption` (`max_value_bytes` above zero) |

**Proxy.** None of the properties is inductive by itself. `UnavailableSevers`
needs to know, while `CloseAllConns` is running and before it is done, that
every connection still served is either registered *and in the snapshot*, or
will meet the closed gate at its admission check; that in turn needs
`conns` to be exactly the connections between registration and
unregistration. `CleanShutdown` rests on the count (`wg = 0` leaves no
handler and no accept loop) and on each place of `handleConn` determining
which of its sockets can still be open. `ClosedForwardsAtMostOne` needs to
know that after the first late command the handler can only reach its
teardown. `IInv` is the conjunction of these parts; `Invariance` proves it,
with one step per action, and the theorems follow. `Refinement` maps each
step of the code to a step of `ProxyContract` or to a stutter under the
mapping `phaseBar`, `gateBar`, `liveBar`, using the invariant for the two
steps that promise something: the end of the cut and the end of the shutdown.

**ProxySession.** That replies keep their order is not inductive: it needs
`Lockstep`, which says that nothing is under way while the handler reads the app
and that one command, or its one reply, is under way while it waits. `Places`
bounds the numbers in the queues, so that a number that is not used yet is
answered nowhere. `ExecuteEffect` reduces the eight ways Redis executes a
command to what the invariant needs: one reply, to that command, unless it
subscribes. The bound on the length of the conversation is a parameter, so the
theorems hold for conversations of any length. About transactions and the
protocol: Redis and the handler each keep a state that the app sees only through
replies. `TxState` says what is queued in Redis in terms of the replies told so
far (`Told`: those the app has read and the one that is under way), `ProtoState`
says the same of `resp3`; that one can speak of *the* reply to a command is
`Lockstep`.

**RespReply.** Redis and the reader keep different accounts of one reply: Redis
strikes an element off when it begins and drops a frame that is paid, while a
call of `readReplyRawDepth` counts an element until the call that reads it
returns, and stays on the stack for what an attribute annotates. `Account` is
what Redis must still owe, read off the stack alone, with `ReadReplyRaw` itself
as a call that waits for one element; `Mirror` says that Redis's debts are the
non-zero entries of the account, in their order. Each token changes both sides
in the same way, so that the reader's loops are over exactly when Redis owes
nothing. The limits are parameters: the theorems hold for any depth and any
length, and a reply beyond a limit is not passed on.

**ColdCache.** `BudgetInv` ties the number of removals to the budget already
spent and says that a delete about to be sent has a unit left (the fallback
from UNLINK to DEL sends without looking again). `ColdInv` says where what is
still warm of the current pattern can be: owed by SCAN, or in the reply being
worked off; earlier patterns are cold. Deletion ends only where both sets are
empty or the budget is spent.

**Report.** The summary counts failed scenarios, JUnit counts failed probes,
and both count findings by their level in loops of their own; that one is
above zero exactly when the other is needs only that cardinalities of finite
sets are zero for the empty set alone.

**Orchestrator.** The two properties about faults support each other: the
engine outside a scenario is pass-through because every way out of `measure`
restores it, and the probes of a scenario run under its engine because nothing
between `prepare` and `measure` changes it (`EngineInv`, with the gate of
`ProxyContract`). `CompleteReport` is the one that needs work: `Recorded` says
that the rows are those of the baseline and of the chosen scenarios so far, each
at the place its number among the chosen ones gives it, and the counting lemmas
say that this number grows by one exactly at a chosen scenario. The exit code
and the JUnit file follow from `ReportProofs`. `DrivesContract` is the other half
of `Refinement` of `ProxyProofs`: the proxy does what `ProxyContract` allows, and
the orchestrator with the app asks for nothing else. A guard of the contract
could hide a call made where it is not allowed, because the step would be
missing from the model; `PermittedCorrect` shows that there is none, at each of
the places where `Run` makes the call.

**Commands.** `AcceptedInv` carries the verdict of `Validate` from `load` to the
last probe. `RanInv` says where in a probe an answer is certain: a probe without
an HTTP request reaches its verdict only through its command, which is where
`Validate`'s "exactly one of the two" is needed. What was measured is `DoneInv`:
phases before the one under way have a result of every probe, those that `--only`
skips and those to come have none. `PlaceInv` says where the warm-up can be at
work and how often it was tried, `FreshInv` that no probe has begun before the
preparations are over (which exit code 2 promises), and `CauseInv` what of all this
stands behind each cause of an end; `ExitMeaning` follows at `exited`.
`PassMeansSame` rests on names that tell probes apart, so that the baseline's
result found by name is the one at the same position. `AcceptedRuns` is Validate's
verdict spelled out against what is used of it: `policy`'s copy of the pattern rule,
and `cfg`, whose settings are compared with what the file has written.

**PolicyAudit.** The traffic does not touch what `TTLAudit` works on
(`ImplementsTTLAudit`), so the argument is about the loops of `auditTTL`. A
counter above zero has a key behind it (`Truth`); a key that must be found is
owed by SCAN, in the reply being worked off, counted, or found
(`Completeness`). Rounding is two lemmas: what Redis rounds up exceeds a
`max_ttl` of whole seconds only if the key does (`RoundedAbove`), and a second
too much is seen in any case (`SecondAbove`). `Refinement` makes the first
sentence a theorem: under any traffic, an audit's steps are those of `TTLAudit`.

What the audit says of the traffic needs three parts. `Busy`: a handler that is
past `Observe` has its command in the recorder; `Heard`: what was answered was
recorded and what is recorded was sent; `Judged`: the findings are of a
snapshot. `StoredFacts` says that `valueSize` looks where Redis takes the value
from, for each command of its table (`Sized`), so that a value too big is counted
as such, and nowhere for any other command;
with a `max_value_bytes` of zero nothing is, which is why the configuration must
have been validated. That the recorder's rows are the sum of its counts
(`AddsUp`) is about sums over finite sets, which the community modules define
by recursion: `SumIsCells` shows, by a smallest counterexample, that such a sum
is the cardinality of a set of cells, and `SumBump` that it grows by one with one
of its terms.

**Model-checked only.** Liveness (`Quiesces`, `AnsweredSeverReleases`,
`ForwardsReplies`, `Terminates`, `Ends`), which is out of the prover's reach.
Every invariant that a passing run checks is proved, and so are the action
property `NoAddAfterDrain` and the refinement `ImplementsContract`. The
properties of section 7 fail, by counterexamples of TLC.

## 7. Findings

1. `redis_unavailable` and blocking commands. The README says that active
   Redis connections are closed. `CloseAllConns` (`internal/proxy/proxy.go:124`)
   closes the app's sockets; a handler waiting for Redis to answer (BLPOP in
   pass-through) is not woken, so its connection to Redis, and the command
   pending there, live on until the proxy is shut down. Run
   `proxy_blocked_redis`; with a Redis that answers what it is sent the connection
   is closed (`AnsweredSeverReleases`).
2. Pass-through and several replies. The README says that normal traffic is
   forwarded byte for byte. `forwardCommand` (`internal/proxy/conn.go:113`)
   reads one reply per command, and nobody else reads from Redis: further
   confirmations of SUBSCRIBE, and published messages, wait until the app sends
   another command and then arrive as its reply. Run `proxy_session_pubsub`.
3. `--only` with a name no scenario has (`orchestrator.go:126`) is not
   rejected: the baseline runs alone and the exit code can be 0, where the
   README says that the baseline and one scenario run. Run
   `only_runs_scenario`.
4. The audit's "exceed max_ttl" (`auditor.go:129`): `max_ttl` is truncated to
   seconds and Redis rounds, so with a fractional `max_ttl` a key below it can
   be reported. Run `ttl_rounding`. In whole seconds findings are true, and
   nothing that exceeds by a second or more is missed; both are proved.

## 8. Not modelled

* `init` and `version` (they write a fixed file, print a string), the Go test
  helpers, the example shop (an application; the models treat any application
  as their environment), JSON and terminal output (layout).
* `resp.ReadCommand` and the client's decoder. Both are sequential readers with
  limits, like `ReadReplyRaw` of `RespReply`; a command has no nesting, so
  what could go wrong there is one line's length or one count at a time, which
  the parser's tests and its fuzz test reach. The client's calls are steps that
  succeed or fail in `Orchestrator`, `ColdCache` and `TTLAudit`.
* The hash of `shouldMiss` and its distribution over keys.
* Panics in a handler, which are recovered and logged; WATCH and client-side
  caching in a conversation.

Observed while modelling, and part of the models without a run of their own: a
negative `probe_timeout` passes `Validate` and switches the timeout off;
`hasYAMLKey` does not look through aliases and merge keys, so a zero or an empty
address that comes from one is replaced by the default instead of rejected, in the
proxy section as in the safety section; the values of SETNX, MSET, LPUSH, SADD,
ZADD, XADD and others are not sized, although the README names large values among
the findings without a restriction; a probe that times out ends the run with exit
code 3, and what was measured before it is not reported;
`json_equals_baseline` holds of a path that neither body has (`PassMeansSame`
excludes it); a signal during `Load` or `CompileSchemas` ends in exit code 2.

What could be added: WATCH in `ProxySession`, and the probes of `Commands` in
place of the external ones of `Orchestrator`, at the price of a much larger
state. To prove, next: what liveness rests on and is itself safety (a run that is
stuck in `Commands` is held by a pipe or has no timer; a handler of a proxy that
is shutting down has both sockets closed or is on its way to that), and that
`Commands` takes `Orchestrator`'s way from phase to phase.

## 9. Running

    tlc -config Proxy.cfg ProxyMC.tla
    tlapm ProxyProofs.tla

The longest runs (`Proxy.cfg` with 2.2 million states, `ProxySession.cfg` with
1.1 million, `RespReply.cfg` with 4 million small ones) take one to three
minutes each with two workers; `PolicyAudit.cfg` and `Commands.cfg` take about
one, the others less. `RespReplyProofs` and `PolicyAuditProofs` take the longest of
the proof modules.
