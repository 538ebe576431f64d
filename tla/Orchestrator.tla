----------------------------- MODULE Orchestrator -----------------------------
(***************************************************************************)
(* One "cacheproof test": runTest and orchestrator.Run.  A single goroutine *)
(* walks through the baseline and the configured scenarios, switches the   *)
(* proxy's engine, runs the probes, audits, shuts the proxy down and turns *)
(* the outcome into reports and an exit code, while the app's traffic      *)
(* comes and goes.                                                         *)
(*                                                                         *)
(* The proxy is present through what it promises (ProxyContract, which     *)
(* Proxy implements).  Probes, the reset command, Redis, the audit and the *)
(* file system are external: each call of them ends well or badly.         *)
(***************************************************************************)
EXTENDS Report

CONSTANTS
    Conn,           \* the app's connections
    Scenarios,      \* cfg.Scenarios: a sequence of names and types
    NumProbes,      \* len(cfg.Probes)
    WarmupRetries,  \* cfg.WarmupRetries
    MaxRows         \* bound: commands the recorder observes

INSTANCE FaultEngine WITH Key <- {}, NoKey <- "none", MissKeys <- {}

ScenarioType == {"random_miss", "redis_unavailable", "cold_cache"}

ASSUME ScenariosAssumption == Scenarios \in Seq([name : STRING, type : ScenarioType])
ASSUME ProbesAssumption == NumProbes \in Nat \ {0}
ASSUME RetriesAssumption == WarmupRetries \in Nat
ASSUME RowsAssumption == MaxRows \in Nat

VARIABLES
    request,    \* the flags of the command line
    ctxDone,    \* the root context is cancelled
    pc,         \* where the goroutine is
    cur,        \* 0 in the baseline, else the index of the scenario
    attempt,    \* warm-up attempts that failed
    probe,      \* the next probe
    engine,     \* the proxy's engine
    rows,       \* rec.Snapshot().ObservedCommandRows
    before,     \* beforeBaselineRows
    seen,       \* some command was observed while the baseline was measured
    probes,     \* the verdicts of the current phase
    scenarios,  \* the scenarios measured so far
    findings,   \* the findings so far
    cause,      \* what the run failed on, or "none"
    code,       \* the exit code, once pc = "exited"
    phase, gate, live   \* the proxy

proxy == <<phase, gate, live>>
traffic == <<rows, seen>>
outcome == <<scenarios, findings, cause, code>>
place == <<cur, attempt, probe>>
vars == <<request, ctxDone, pc, place, engine, traffic, before, probes, outcome,
          proxy>>

P == INSTANCE ProxyContract

ScenarioNames == {Scenarios[k].name : k \in DOMAIN Scenarios}
Baseline == "baseline"

EngineOf(type) ==
    CASE type = "random_miss"       -> RandomMiss
      [] type = "redis_unavailable" -> Unavailable
      [] type = "cold_cache"        -> PassThrough

Chosen(k) == request.only \in {"", Scenarios[k].name}

\* What Auditor.Audit may return.
AuditFindings ==
    {<<[name |-> "audit", level |-> "PASS"]>>,
     <<[name |-> "value-size", level |-> "WARN"]>>,
     <<[name |-> "cache-contract", level |-> "FAIL"],
       [name |-> "ttl-policy", level |-> "WARN"]>>}

Locations ==
    {"ping", "start", "reset", "warmup", "wait", "snapshot", "upstream",
     "prepare", "cut", "measure", "next", "shutdown", "drain",
     "report", "exited"}

Causes == {"none", "upstream", "start", "reset", "warmup", "probe", "delete",
           "audit", "report"}

TypeOK ==
    /\ request \in [only : ScenarioNames \cup {"", "typo"}, noWarmup : BOOLEAN,
                    reset : BOOLEAN, failOn : FailOn]
    /\ ctxDone \in BOOLEAN
    /\ pc \in Locations
    /\ cur \in 0..Len(Scenarios)
    /\ attempt \in 0..WarmupRetries
    /\ probe \in 1..NumProbes + 1
    /\ engine \in Engine
    /\ rows \in 0..MaxRows /\ before \in 0..rows
    /\ seen \in BOOLEAN
    /\ probes \in Seq(BOOLEAN)
    /\ scenarios \in Seq(ScenarioInput(ScenarioNames \cup {Baseline}))
    /\ findings \in Seq(Finding)
    /\ cause \in Causes
    /\ code \in 0..3
    /\ phase \in {"down", "up", "stopping", "stopped"}
    /\ gate \in {"open", "closing", "cut"}
    /\ live \subseteq Conn

Init ==
    /\ request \in [only : ScenarioNames \cup {"", "typo"}, noWarmup : BOOLEAN,
                    reset : BOOLEAN, failOn : FailOn]
    /\ ctxDone = FALSE
    /\ pc = "ping"
    /\ cur = 0 /\ attempt = 0 /\ probe = 1
    /\ engine = PassThrough
    /\ rows = 0 /\ before = 0 /\ seen = FALSE
    /\ probes = <<>> /\ scenarios = <<>> /\ findings = <<>>
    /\ cause = "none" /\ code = 0
    /\ P!Init

-----------------------------------------------------------------------------
(* Building blocks. *)

At(from, to) ==
    /\ pc = from
    /\ pc' = to
    /\ UNCHANGED <<request, ctxDone, traffic>>

\* SetEngine also decides whether the proxy's gate is open.
SetEngine(e) ==
    /\ engine' = e
    /\ IF e = Unavailable THEN P!CloseGate ELSE P!OpenGate

\* Mutant: the engine is restored only when the scenario succeeds.
FailsWithEngine(from, why) ==
    /\ At(from, IF phase = "down" THEN "exited" ELSE "shutdown")
    /\ cause' = why
    /\ code' = 3
    /\ UNCHANGED <<engine, proxy, place, before, probes, scenarios, findings>>

\* Mutant: the shutdown is deferred only after the baseline.
FailsUnreleased(from, why) ==
    /\ At(from, IF phase = "down" \/ cur = 0 THEN "exited" ELSE "shutdown")
    /\ cause' = why
    /\ code' = 3
    /\ IF cur > 0 THEN SetEngine(PassThrough) ELSE UNCHANGED <<engine, proxy>>
    /\ UNCHANGED <<place, before, probes, scenarios, findings>>

\* Run returns an error: the deferred Shutdown runs once the proxy is started,
\* and the loop over the scenarios restores the engine first.
Fails(from, why) ==
    /\ At(from, IF phase = "down" THEN "exited" ELSE "shutdown")
    /\ cause' = why
    /\ code' = 3
    /\ IF cur > 0 THEN SetEngine(PassThrough) ELSE UNCHANGED <<engine, proxy>>
    /\ UNCHANGED <<place, before, probes, scenarios, findings>>

\* A signal cancels the root context.
Cancel ==
    /\ ~ctxDone
    /\ pc # "exited"
    /\ ctxDone' = TRUE
    /\ UNCHANGED <<request, pc, place, engine, traffic, before, probes, outcome, proxy>>

-----------------------------------------------------------------------------
(* Up to the baseline.  A call that takes the context succeeds only if the *)
(* context is not cancelled yet, and may always fail.                      *)

PingUpstream ==
    /\ ~ctxDone
    /\ At("ping", "start")
    /\ UNCHANGED <<place, engine, before, probes, outcome, proxy>>

StartProxy ==
    /\ ~ctxDone
    /\ At("start", "reset")
    /\ P!StartUp
    /\ UNCHANGED <<place, engine, before, probes, outcome>>

\* The reset command runs before the baseline and before every scenario.
Reset ==
    /\ request.reset => ~ctxDone
    /\ At("reset", "warmup")
    /\ attempt' = 0 /\ probe' = 1
    /\ UNCHANGED <<cur, engine, before, probes, outcome, proxy>>

\* The probe answered; runWarmup does not look at the verdict.
WarmupProbe ==
    /\ ~request.noWarmup
    /\ ~ctxDone
    /\ probe <= NumProbes
    /\ At("warmup", "warmup")
    /\ probe' = probe + 1
    /\ UNCHANGED <<cur, attempt, engine, before, probes, outcome, proxy>>

\* Mutant: one retry too many.
WarmupProbeErrsAgain ==
    /\ ~request.noWarmup
    /\ probe <= NumProbes
    /\ attempt <= WarmupRetries
    /\ At("warmup", "wait")
    /\ UNCHANGED <<place, engine, before, probes, outcome, proxy>>

WarmupProbeErrs ==
    /\ ~request.noWarmup
    /\ probe <= NumProbes
    /\ attempt < WarmupRetries
    /\ At("warmup", "wait")
    /\ UNCHANGED <<place, engine, before, probes, outcome, proxy>>

\* Mutant: the attempt is not counted.
WaitUncounted ==
    /\ At("wait", "warmup")
    /\ probe' = 1
    /\ UNCHANGED <<cur, attempt, engine, before, probes, outcome, proxy>>

Wait ==
    /\ At("wait", "warmup")
    /\ attempt' = attempt + 1 /\ probe' = 1
    /\ UNCHANGED <<cur, engine, before, probes, outcome, proxy>>

WarmupDone ==
    /\ request.noWarmup \/ probe > NumProbes
    /\ At("warmup", IF cur = 0 THEN "snapshot" ELSE "upstream")
    /\ UNCHANGED <<place, engine, before, probes, outcome, proxy>>

\* Mutant: rows observed since the start count as the baseline's.
SnapshotForgotten ==
    /\ At("snapshot", "measure")
    /\ probes' = <<>> /\ probe' = 1
    /\ UNCHANGED <<cur, attempt, before, engine, outcome, proxy>>

Snapshot ==
    /\ At("snapshot", "measure")
    /\ before' = rows
    /\ probes' = <<>> /\ probe' = 1
    /\ UNCHANGED <<cur, attempt, engine, outcome, proxy>>

-----------------------------------------------------------------------------
(* Measuring, and the scenarios. *)

\* runMeasuredProbes: the verdict is the probe runner's.
Measure ==
    /\ ~ctxDone
    /\ Len(probes) < NumProbes
    /\ At("measure", "measure")
    /\ \E passed \in BOOLEAN : probes' = Append(probes, passed)
    /\ UNCHANGED <<place, engine, before, outcome, proxy>>

FinishBaseline ==
    /\ cur = 0 /\ Len(probes) = NumProbes
    /\ At("measure", "next")
    /\ scenarios' = Append(scenarios, [name |-> Baseline, probes |-> probes])
    /\ findings' = IF rows = before
                   THEN Append(findings, [name |-> "no-redis-traffic", level |-> "FAIL"])
                   ELSE findings
    /\ UNCHANGED <<place, engine, before, probes, cause, code, proxy>>

\* The scenarios left: those not skipped for --only.
Remaining == {k \in DOMAIN Scenarios : k > cur /\ Chosen(k)}

\* Mutant: --only is not looked at.
NextOfAll ==
    /\ At("next", "reset")
    /\ cur < Len(Scenarios)
    /\ cur' = cur + 1
    /\ SetEngine(PassThrough)
    /\ UNCHANGED <<attempt, probe, before, probes, outcome>>

NextScenario ==
    /\ At("next", "reset")
    /\ \E k \in Remaining :
        /\ \A other \in Remaining : k <= other
        /\ cur' = k
    /\ SetEngine(PassThrough)
    /\ UNCHANGED <<attempt, probe, before, probes, outcome>>

PingBeforeScenario ==
    /\ ~ctxDone
    /\ At("upstream", "prepare")
    /\ probes' = <<>>
    /\ UNCHANGED <<place, engine, before, outcome, proxy>>

\* Mutant: the engine is switched, connections that are open stay.
PrepareUncut ==
    LET type == Scenarios[cur].type IN
    /\ pc = "prepare"
    /\ At("prepare", "measure")
    /\ SetEngine(EngineOf(type))
    /\ UNCHANGED <<place, before, probes, outcome>>

\* SetEngine of the scenario's type; cold_cache deletes the keys first.
Prepare ==
    LET type == Scenarios[cur].type IN
    /\ pc = "prepare"
    /\ type = "cold_cache" => ~ctxDone
    /\ At("prepare", IF type = "redis_unavailable" THEN "cut" ELSE "measure")
    /\ SetEngine(EngineOf(type))
    /\ UNCHANGED <<place, before, probes, outcome>>

CloseAllConns ==
    /\ At("cut", "measure")
    /\ P!Cut
    /\ UNCHANGED <<place, engine, before, probes, outcome>>

FinishScenario ==
    /\ cur > 0 /\ Len(probes) = NumProbes
    /\ At("measure", "next")
    /\ scenarios' = Append(scenarios, [name |-> Scenarios[cur].name, probes |-> probes])
    /\ SetEngine(PassThrough)
    /\ UNCHANGED <<place, before, probes, findings, cause, code>>

-----------------------------------------------------------------------------
(* The end: audit, deferred shutdown, reports. *)

Audit ==
    /\ ~ctxDone
    /\ Remaining = {}
    /\ At("next", "shutdown")
    /\ \E new \in AuditFindings : findings' = findings \o new
    /\ UNCHANGED <<place, engine, before, probes, scenarios, cause, code, proxy>>

Shutdown ==
    /\ At("shutdown", "drain")
    /\ P!BeginStop
    /\ UNCHANGED <<place, engine, before, probes, outcome>>

AfterShutdown == IF cause = "none" THEN "report" ELSE "exited"

Drained ==
    /\ At("drain", AfterShutdown)
    /\ P!Stop
    /\ UNCHANGED <<place, engine, before, probes, outcome>>

\* Five seconds, or the root context if that is cancelled; only logged.
DrainTimesOut ==
    /\ At("drain", AfterShutdown)
    /\ UNCHANGED <<place, engine, before, probes, outcome, proxy>>

Report ==
    /\ At("report", "exited")
    /\ code' = ExitCodeForResult(BuildRunResult(scenarios, findings), request.failOn)
    /\ UNCHANGED <<place, engine, before, probes, scenarios, findings, cause, proxy>>

ReportFails ==
    /\ At("report", "exited")
    /\ cause' = "report" /\ code' = 3
    /\ UNCHANGED <<place, engine, before, probes, scenarios, findings, proxy>>

CallFails ==
    \/ Fails("ping", "upstream")
    \/ Fails("start", "start")
    \/ request.reset /\ Fails("reset", "reset")
    \/ /\ ~request.noWarmup /\ probe <= NumProbes /\ attempt = WarmupRetries
       /\ Fails("warmup", "warmup")
    \/ ctxDone /\ Fails("wait", "warmup")
    \/ Fails("upstream", "upstream")
    \/ /\ pc = "prepare" /\ Scenarios[cur].type = "cold_cache"
       /\ Fails("prepare", "delete")
    \/ Len(probes) < NumProbes /\ Fails("measure", "probe")
    \/ Remaining = {} /\ Fails("next", "audit")

-----------------------------------------------------------------------------
(* The app: its connections, and a command that reaches the recorder. *)

Connect(c) ==
    /\ P!Serve(c)
    /\ UNCHANGED <<request, ctxDone, pc, place, engine, traffic, before, probes, outcome>>

Disconnect(c) ==
    /\ P!Drop(c)
    /\ UNCHANGED <<request, ctxDone, pc, place, engine, traffic, before, probes, outcome>>

Command ==
    /\ live # {}
    /\ rows < MaxRows
    /\ rows' = rows + 1
    /\ seen' = (seen \/ (pc = "measure" /\ cur = 0))
    /\ UNCHANGED <<request, ctxDone, pc, place, engine, before, probes, outcome, proxy>>

Step ==
    \/ PingUpstream \/ StartProxy \/ Reset \/ WarmupProbe \/ WarmupProbeErrs
    \/ Wait \/ WarmupDone \/ Snapshot \/ Measure \/ FinishBaseline
    \/ NextScenario \/ PingBeforeScenario \/ Prepare \/ CloseAllConns
    \/ FinishScenario \/ Audit \/ Shutdown \/ Drained \/ DrainTimesOut
    \/ Report \/ ReportFails \/ CallFails

Next ==
    \/ Step \/ Cancel \/ Command
    \/ \E c \in Conn : Connect(c) \/ Disconnect(c)

Spec == Init /\ [][Next]_vars

\* The goroutine is in one call of a probe or of the reset command.
Waiting ==
    \/ pc = "reset" /\ request.reset
    \/ pc = "warmup" /\ ~request.noWarmup /\ probe <= NumProbes
    \/ pc = "measure" /\ Len(probes) < NumProbes

\* That call need not return: without a positive probe_timeout nothing bounds it,
\* and cmd.Run waits for whoever holds the command's pipe; Commands says when it
\* does return.  Every other call does: the Redis client has a deadline on each of
\* its calls, SCAN comes to its end, the wait has a timer, the shutdown five
\* seconds, and CloseAllConns closes every connection that is open.
Fairness ==
    /\ WF_vars(~Waiting /\ Step)
    /\ \A c \in Conn : WF_vars(pc = "cut" /\ c \in live /\ Disconnect(c))

FairSpec == Spec /\ Fairness

-----------------------------------------------------------------------------
(* Properties. *)

Measuring == pc = "measure"

\* A fault is injected only while the scenario that configures it is about to
\* be measured or is measured: never in the baseline, a reset command, a
\* warm-up, the audit, the shutdown, or after the scenario failed.
FaultConfined ==
    engine # PassThrough =>
        /\ pc \in {"cut", "measure"}
        /\ cur > 0
        /\ engine = EngineOf(Scenarios[cur].type)

\* The probes of a scenario are measured under that scenario's fault, and those
\* of redis_unavailable with no app connection left from before.
FaultWhileMeasured ==
    Measuring /\ cur > 0 =>
        /\ engine = EngineOf(Scenarios[cur].type)
        /\ engine = Unavailable => gate = "cut" /\ live = {}

ChosenUpTo(k) == Cardinality({j \in DOMAIN Scenarios : j <= k /\ Chosen(j)})

\* A run that reports has measured the baseline and then each selected scenario
\* once, in the order of the config file, with every probe.
CompleteReport ==
    pc \in {"report", "exited"} /\ cause = "none" =>
        /\ Len(scenarios) = ChosenUpTo(Len(Scenarios)) + 1
        /\ scenarios[1].name = Baseline
        /\ \A k \in DOMAIN Scenarios :
            Chosen(k) => scenarios[ChosenUpTo(k) + 1].name = Scenarios[k].name
        /\ \A k \in DOMAIN scenarios : Len(scenarios[k].probes) = NumProbes

\* no-redis-traffic is reported exactly when no command reached the recorder
\* while the baseline was measured, whatever came before or after.
TrafficFinding ==
    cur > 0 \/ pc = "report" =>
        ((\E f \in DOMAIN findings : findings[f].name = "no-redis-traffic") <=> ~seen)

\* The exit code: 3 exactly when the run failed on something, 0 exactly when
\* every measured probe passed and no finding counts under --fail-on.
ExitMeansResult ==
    pc = "exited" =>
        /\ code = 3 <=> cause # "none"
        /\ code = 0 <=>
            /\ cause = "none"
            /\ \A k \in DOMAIN scenarios : FALSE \notin {scenarios[k].probes[p] :
                                                   p \in DOMAIN scenarios[k].probes}
            /\ \A f \in DOMAIN findings :
                findings[f].level \in
                    IF request.failOn = "warn" THEN {"PASS"} ELSE {"PASS", "WARN"}

\* The JUnit file contains a failure exactly when the exit code is 1.
JUnitAgrees ==
    pc = "exited" /\ cause = "none" =>
        (JUnitFailures(BuildRunResult(scenarios, findings), request.failOn) > 0
            <=> code = 1)

\* However the run ends, the proxy was asked to stop and passes commands through.
ProxyReleased ==
    pc = "exited" => phase # "up" /\ gate = "open" /\ engine = PassThrough

\* The run ends, unless one call of a probe or of the reset command never
\* returns: retries, scenarios and shutdown come to an end whatever fails.
Terminates ==
    \/ <>(pc = "exited")
    \/ <>[]Waiting /\ <>[][FALSE]_<<place, probes>>

\* README.md:133: "--only <scenario> runs the baseline and then one named
\* scenario".  A report of a run with --only holds two scenarios.
OnlyRunsScenario ==
    pc = "exited" /\ cause = "none" /\ request.only # "" => Len(scenarios) = 2
=============================================================================
