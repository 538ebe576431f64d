-------------------------- MODULE OrchestratorProofs --------------------------
(***************************************************************************)
(* Orchestrator, for any scenarios, probes, retries, connections and flags. *)
(***************************************************************************)
EXTENDS Orchestrator, ReportProofs

-----------------------------------------------------------------------------
(* The inductive invariant. *)

Up == {"reset", "warmup", "wait", "snapshot", "upstream", "prepare", "cut",
       "measure", "next", "shutdown"}
Ending == {"shutdown", "drain", "report", "exited"}

\* The proxy runs from Start to the deferred Shutdown.
PhaseInv ==
    /\ pc \in {"ping", "start"} => phase = "down"
    /\ pc \in Up => phase = "up"
    /\ pc = "drain" => phase = "stopping"
    /\ pc \in {"report", "exited"} => phase # "up"

\* What belongs to the baseline and what to a scenario.
PlaceInv ==
    /\ pc \in {"ping", "start", "snapshot"} => cur = 0
    /\ pc \in {"upstream", "prepare", "cut"} => cur > 0
    /\ pc = "cut" => Scenarios[cur].type = "redis_unavailable"
    /\ pc = "wait" => attempt < WarmupRetries

\* The gate follows the engine, and what is measured follows the gate.
EngineInv ==
    /\ FaultConfined
    /\ FaultWhileMeasured
    /\ engine # Unavailable => gate = "open"
    /\ pc = "cut" => engine = Unavailable /\ gate = "closing"

\* The exit code of a run that failed, and of one that did not.
OutcomeInv ==
    /\ pc \notin {"shutdown", "drain", "exited"} => cause = "none"
    /\ cause # "none" => code = 3
    /\ pc = "exited" /\ cause = "none" =>
        code = ExitCodeForResult(BuildRunResult(scenarios, findings), request.failOn)

NoTraffic == \E f \in DOMAIN findings : findings[f].name = "no-redis-traffic"

\* The finding is settled when the baseline is over.
TrafficInv ==
    /\ cur = 0 /\ pc \in {"ping", "start", "reset", "warmup", "wait", "snapshot"} =>
        findings = <<>> /\ ~seen
    /\ cur = 0 /\ pc = "measure" => findings = <<>> /\ (seen <=> rows # before)
    /\ cur > 0 \/ pc = "next" \/ (pc \in Ending /\ cause = "none") => (NoTraffic <=> ~seen)

\* The first rows of the report are those of the baseline and of the selected
\* scenarios up to the n-th.
Recorded(rowCount, n) ==
    /\ Len(scenarios) = rowCount
    /\ rowCount > 0 => scenarios[1].name = Baseline
    /\ \A k \in DOMAIN Scenarios :
        k <= n /\ Chosen(k) =>
            /\ ChosenUpTo(k) + 1 <= rowCount
            /\ scenarios[ChosenUpTo(k) + 1].name = Scenarios[k].name
    /\ \A k \in DOMAIN scenarios : Len(scenarios[k].probes) = NumProbes

\* A row is added when its phase ends; the run ends when none is left.
MeasuredInv ==
    cause = "none" =>
        /\ pc \in Ending \cup {"next"} => Recorded(ChosenUpTo(cur) + 1, cur)
        /\ pc \notin Ending \cup {"next"} /\ cur = 0 => Recorded(0, 0)
        /\ pc \notin Ending \cup {"next"} /\ cur > 0 =>
            Chosen(cur) /\ Recorded(ChosenUpTo(cur), cur - 1)
        /\ pc \in Ending => Remaining = {}

IInv ==
    /\ TypeOK /\ PhaseInv /\ PlaceInv /\ EngineInv
    /\ OutcomeInv /\ TrafficInv /\ MeasuredInv

-----------------------------------------------------------------------------
(* Type correctness. *)

Names == ScenarioNames \cup {Baseline}

LEMMA ScenarioFacts ==
    /\ Len(Scenarios) \in Nat /\ DOMAIN Scenarios = 1..Len(Scenarios)
    /\ \A k \in DOMAIN Scenarios :
        /\ Scenarios[k].type \in ScenarioType
        /\ EngineOf(Scenarios[k].type) \in Engine
<1>1. Len(Scenarios) \in Nat /\ DOMAIN Scenarios = 1..Len(Scenarios)
    BY ScenariosAssumption
<1>2. ASSUME NEW k \in DOMAIN Scenarios
      PROVE  Scenarios[k].type \in ScenarioType
    <2>. DEFINE S == [name : STRING, type : ScenarioType]
    <2>1. Scenarios \in Seq(S)
        BY ScenariosAssumption
    <2>. HIDE DEF S
    <2>2. Scenarios[k] \in S
        BY <2>1
    <2>. QED BY <2>2 DEF S
<1>3. \A type \in ScenarioType : EngineOf(type) \in Engine
    <2>1. EngineOf("random_miss") = RandomMiss
        BY DEF EngineOf
    <2>2. EngineOf("redis_unavailable") = Unavailable
        BY DEF EngineOf
    <2>3. EngineOf("cold_cache") = PassThrough
        BY DEF EngineOf
    <2>. QED BY <2>1, <2>2, <2>3 DEF ScenarioType, Engine
<1>. QED BY <1>1, <1>2, <1>3

LEMMA InitIInv == Init => IInv
<1>. SUFFICES ASSUME Init PROVE IInv
    OBVIOUS
<1>1. TypeOK
    <2>1. /\ request \in [only : ScenarioNames \cup {"", "typo"}, noWarmup : BOOLEAN,
                          reset : BOOLEAN, failOn : FailOn]
          /\ ctxDone = FALSE /\ seen = FALSE /\ engine = PassThrough
          /\ pc = "ping" /\ cause = "none" /\ phase = "down" /\ gate = "open" /\ live = {}
        BY DEF Init, P!Init
    <2>2. /\ cur \in 0..Len(Scenarios) /\ attempt \in 0..WarmupRetries
          /\ probe \in 1..NumProbes + 1 /\ rows \in 0..MaxRows /\ before \in 0..rows
          /\ code \in 0..3
        <3>1. cur = 0 /\ attempt = 0 /\ probe = 1 /\ rows = 0 /\ before = 0 /\ code = 0
            BY DEF Init
        <3>. QED BY <3>1, ScenarioFacts, ProbesAssumption, RetriesAssumption, RowsAssumption
    <2>3. probes \in Seq(BOOLEAN) /\ scenarios \in Seq(ScenarioInput(Names)) /\ findings \in Seq(Finding)
        <3>1. probes = <<>> /\ scenarios = <<>> /\ findings = <<>>
            BY DEF Init
        <3>. QED BY <3>1
    <2>. QED BY <2>1, <2>2, <2>3 DEF TypeOK, Names, Locations, Causes, Engine
<1>2. PhaseInv /\ PlaceInv /\ EngineInv /\ OutcomeInv
    BY DEF Init, P!Init, PhaseInv, PlaceInv, EngineInv, OutcomeInv, Up, FaultConfined,
           FaultWhileMeasured, Measuring, PassThrough, Unavailable
<1>3. TrafficInv
    <2>1. findings = <<>> /\ ~seen /\ pc = "ping" /\ cur = 0
        BY DEF Init
    <2>. QED BY <2>1 DEF TrafficInv, Ending
<1>4. MeasuredInv
    <2>1. scenarios = <<>> /\ pc = "ping" /\ cur = 0
        BY DEF Init
    <2>2. Recorded(0, 0)
        BY <2>1, ScenarioFacts DEF Recorded
    <2>. QED BY <2>1, <2>2 DEF MeasuredInv, Ending
<1>. QED BY <1>1, <1>2, <1>3, <1>4 DEF IInv

\* What a step does to the rows and the flags.
LEMMA TrafficTypes ==
    ASSUME TypeOK, [Next]_vars
    PROVE  /\ request' = request /\ ctxDone' \in BOOLEAN /\ seen' \in BOOLEAN
           /\ rows' \in 0..MaxRows /\ before' \in 0..rows'
<1>0. /\ ctxDone \in BOOLEAN /\ seen \in BOOLEAN
      /\ rows \in 0..MaxRows /\ before \in 0..rows
    BY DEF TypeOK
<1>1. CASE Command
    <2>1. rows' \in 0..MaxRows /\ before' \in 0..rows'
        BY <1>0, <1>1, RowsAssumption DEF Command
    <2>2. request' = request /\ ctxDone' = ctxDone /\ seen' \in BOOLEAN
        BY <1>0, <1>1 DEF Command
    <2>. QED BY <1>0, <2>1, <2>2
<1>2. CASE Snapshot
    BY <1>0, <1>2, RowsAssumption DEF Snapshot, At, traffic
<1>3. CASE ~Command /\ ~Snapshot
    BY <1>0, <1>3, RowsAssumption
       DEF Next, Step, vars, place, traffic, outcome, proxy, At, Fails, Cancel,
           PingUpstream, StartProxy, Reset, WarmupProbe, WarmupProbeErrs, Wait, WarmupDone,
           Measure, FinishBaseline, NextScenario, PingBeforeScenario, Prepare,
           CloseAllConns, FinishScenario, Audit, Shutdown, Drained, DrainTimesOut, Report,
           ReportFails, CallFails, Connect, Disconnect
<1>. QED BY <1>1, <1>2, <1>3

\* What a step does to the place in the run.
LEMMA PlaceTypes ==
    ASSUME TypeOK, PlaceInv, [Next]_vars
    PROVE  /\ pc' \in Locations /\ cur' \in 0..Len(Scenarios)
           /\ attempt' \in 0..WarmupRetries /\ probe' \in 1..NumProbes + 1
           /\ cause' \in Causes
<1>0. /\ pc \in Locations /\ cur \in 0..Len(Scenarios) /\ attempt \in 0..WarmupRetries
      /\ probe \in 1..NumProbes + 1 /\ cause \in Causes
    BY DEF TypeOK
<1>1. CASE NextScenario
    BY <1>0, <1>1, ScenarioFacts
       DEF NextScenario, Remaining, At, Locations, outcome
<1>2. CASE Wait \/ WarmupProbe \/ Reset \/ Snapshot
    BY <1>0, <1>2, RetriesAssumption, ProbesAssumption
       DEF PlaceInv, Wait, WarmupProbe, Reset, Snapshot, At, Locations, outcome
<1>3. CASE CallFails
    BY <1>0, <1>3 DEF CallFails, Fails, At, Locations, Causes, place
<1>4. CASE \/ PingUpstream \/ StartProxy \/ WarmupProbeErrs \/ WarmupDone \/ Measure
           \/ FinishBaseline \/ PingBeforeScenario \/ Prepare \/ CloseAllConns \/ FinishScenario
           \/ Audit \/ Shutdown \/ Drained \/ DrainTimesOut \/ Report \/ ReportFails
    BY <1>0, <1>4
       DEF PingUpstream, StartProxy, WarmupProbeErrs, WarmupDone, Measure, FinishBaseline,
           PingBeforeScenario, Prepare, CloseAllConns, FinishScenario, Audit, Shutdown,
           Drained, DrainTimesOut, AfterShutdown, Report, ReportFails, At, Locations, Causes,
           place, outcome
<1>5. CASE \/ Cancel \/ Command \/ UNCHANGED vars
           \/ \E c \in Conn : Connect(c) \/ Disconnect(c)
    BY <1>0, <1>5 DEF Cancel, Command, Connect, Disconnect, vars, place, outcome
<1>. QED BY <1>1, <1>2, <1>3, <1>4, <1>5 DEF Next, Step

\* What Audit adds are findings, none of them about traffic.
LEMMA AuditAdds ==
    ASSUME NEW new \in AuditFindings, findings \in Seq(Finding)
    PROVE  /\ findings \o new \in Seq(Finding)
           /\ (\E f \in DOMAIN (findings \o new) :
                    (findings \o new)[f].name = "no-redis-traffic") <=> NoTraffic
<1>1. new \in Seq(Finding) /\ \A f \in DOMAIN new : new[f].name # "no-redis-traffic"
    <2>. DEFINE pass == [name |-> "audit", level |-> "PASS"]
                size == [name |-> "value-size", level |-> "WARN"]
                use  == [name |-> "cache-contract", level |-> "FAIL"]
                ttl  == [name |-> "ttl-policy", level |-> "WARN"]
                Other == {f \in Finding : f.name # "no-redis-traffic"}
    <2>1. pass \in Finding /\ size \in Finding /\ use \in Finding /\ ttl \in Finding
        BY DEF Finding, FindingName, Level
    <2>2. pass \in Other /\ size \in Other /\ use \in Other /\ ttl \in Other
        BY <2>1
    <2>3. new \in {<<pass>>, <<size>>, <<use, ttl>>}
        BY DEF AuditFindings
    <2>. HIDE DEF pass, size, use, ttl
    <2>4. new \in Seq(Other)
        <3>. HIDE DEF Other
        <3>1. <<pass>> \in Seq(Other) /\ <<size>> \in Seq(Other)
            BY <2>2
        <3>2. <<use, ttl>> \in Seq(Other)
            BY <2>2
        <3>. QED BY <2>3, <3>1, <3>2
    <2>. QED BY <2>4
<1>2. findings \o new \in Seq(Finding) /\ Len(findings \o new) = Len(findings) + Len(new)
    BY <1>1
<1>3. ASSUME NEW f \in DOMAIN (findings \o new)
      PROVE  \/ f \in DOMAIN findings /\ (findings \o new)[f] = findings[f]
             \/ f - Len(findings) \in DOMAIN new /\ (findings \o new)[f] = new[f - Len(findings)]
    BY <1>1, <1>2
<1>4. ASSUME NEW f \in DOMAIN findings
      PROVE  f \in DOMAIN (findings \o new) /\ (findings \o new)[f] = findings[f]
    BY <1>1, <1>2
<1>5. NoTraffic => \E f \in DOMAIN (findings \o new) :
                        (findings \o new)[f].name = "no-redis-traffic"
    BY <1>4 DEF NoTraffic
<1>6. ASSUME NEW f \in DOMAIN (findings \o new), (findings \o new)[f].name = "no-redis-traffic"
      PROVE  NoTraffic
    BY <1>1, <1>3, <1>6 DEF NoTraffic
<1>. QED BY <1>2, <1>5, <1>6

\* The verdicts, the scenarios measured and the findings.
LEMMA OutcomeTypes ==
    ASSUME TypeOK, [Next]_vars
    PROVE  /\ probes' \in Seq(BOOLEAN) /\ scenarios' \in Seq(ScenarioInput(Names))
           /\ findings' \in Seq(Finding)
<1>0. /\ probes \in Seq(BOOLEAN) /\ scenarios \in Seq(ScenarioInput(Names))
      /\ findings \in Seq(Finding) /\ cur \in 0..Len(Scenarios)
    BY DEF TypeOK, Names
<1>1. CASE Measure
    <2>1. PICK passed \in BOOLEAN : probes' = Append(probes, passed)
        BY <1>1 DEF Measure
    <2>2. scenarios' = scenarios /\ findings' = findings
        BY <1>1 DEF Measure, outcome
    <2>. QED BY <1>0, <2>1, <2>2
<1>2. CASE Snapshot \/ PingBeforeScenario
    <2>1. probes' = <<>> /\ scenarios' = scenarios /\ findings' = findings
        BY <1>2 DEF Snapshot, PingBeforeScenario, outcome
    <2>2. <<>> \in Seq(BOOLEAN)
        OBVIOUS
    <2>. QED BY <1>0, <2>1, <2>2
<1>3. CASE FinishBaseline
    <2>1. /\ scenarios' = Append(scenarios, [name |-> Baseline, probes |-> probes])
          /\ probes' = probes
          /\ \/ findings' = findings
             \/ findings' = Append(findings, [name |-> "no-redis-traffic", level |-> "FAIL"])
        BY <1>3 DEF FinishBaseline
    <2>2. [name |-> Baseline, probes |-> probes] \in ScenarioInput(Names)
        BY <1>0 DEF Names, ScenarioInput
    <2>3. [name |-> "no-redis-traffic", level |-> "FAIL"] \in Finding
        BY DEF Finding, FindingName, Level
    <2>4. scenarios' \in Seq(ScenarioInput(Names))
        BY <1>0, <2>1, <2>2
    <2>5. findings' \in Seq(Finding)
        <3>1. \A f \in Finding : Append(findings, f) \in Seq(Finding)
            BY <1>0
        <3>. QED BY <1>0, <2>1, <2>3, <3>1
    <2>. QED BY <1>0, <2>1, <2>4, <2>5
<1>4. CASE FinishScenario
    <2>1. /\ scenarios' = Append(scenarios, [name |-> Scenarios[cur].name, probes |-> probes])
          /\ probes' = probes /\ findings' = findings /\ cur > 0
        BY <1>4 DEF FinishScenario
    <2>2. [name |-> Scenarios[cur].name, probes |-> probes] \in ScenarioInput(Names)
        BY <1>0, <2>1, ScenarioFacts DEF Names, ScenarioNames, ScenarioInput
    <2>. QED BY <1>0, <2>1, <2>2
<1>5. CASE Audit
    <2>1. /\ probes' = probes /\ scenarios' = scenarios
          /\ \E new \in AuditFindings : findings' = findings \o new
        BY <1>5 DEF Audit
    <2>. QED BY <1>0, <2>1, AuditAdds
<1>6. CASE CallFails
    BY <1>0, <1>6 DEF CallFails, Fails
<1>7. CASE \/ PingUpstream \/ StartProxy \/ Reset \/ WarmupProbe \/ WarmupProbeErrs \/ Wait
           \/ WarmupDone \/ NextScenario \/ Prepare \/ CloseAllConns \/ Shutdown \/ Drained
           \/ DrainTimesOut \/ Report \/ ReportFails
    BY <1>0, <1>7
       DEF PingUpstream, StartProxy, Reset, WarmupProbe, WarmupProbeErrs, Wait, WarmupDone,
           NextScenario, Prepare, CloseAllConns, Shutdown, Drained, DrainTimesOut, Report,
           ReportFails, outcome
<1>8. CASE \/ Cancel \/ Command \/ UNCHANGED vars
           \/ \E c \in Conn : Connect(c) \/ Disconnect(c)
    BY <1>0, <1>8 DEF Cancel, Command, Connect, Disconnect, vars, outcome
<1>. QED BY <1>1, <1>2, <1>3, <1>4, <1>5, <1>6, <1>7, <1>8 DEF Next, Step

\* The proxy, its engine and the exit code.
LEMMA ProxyTypes ==
    ASSUME TypeOK, PlaceInv, [Next]_vars
    PROVE  /\ engine' \in Engine /\ code' \in 0..3
           /\ phase' \in {"down", "up", "stopping", "stopped"}
           /\ gate' \in {"open", "closing", "cut"} /\ live' \subseteq Conn
<1>0. /\ engine \in Engine /\ code \in 0..3
      /\ phase \in {"down", "up", "stopping", "stopped"}
      /\ gate \in {"open", "closing", "cut"} /\ live \subseteq Conn
      /\ cur \in 0..Len(Scenarios)
    BY DEF TypeOK
<1>1. ASSUME NEW e \in Engine, SetEngine(e)
      PROVE  /\ engine' \in Engine /\ gate' \in {"open", "closing", "cut"}
             /\ phase' = phase /\ live' = live
    BY <1>1 DEF SetEngine, P!CloseGate, P!OpenGate
<1>2. PassThrough \in Engine
    BY DEF Engine
<1>3. CASE Prepare
    <2>1. EngineOf(Scenarios[cur].type) \in Engine
        BY <1>0, <1>3, ScenarioFacts DEF Prepare, PlaceInv
    <2>2. SetEngine(EngineOf(Scenarios[cur].type)) /\ code' = code
        BY <1>3 DEF Prepare, outcome
    <2>. QED BY <1>0, <1>1, <2>1, <2>2
<1>4. CASE NextScenario \/ FinishScenario
    <2>1. SetEngine(PassThrough) /\ code' = code
        BY <1>4 DEF NextScenario, FinishScenario, outcome
    <2>. QED BY <1>0, <1>1, <1>2, <2>1
<1>5. CASE CallFails
    <2>1. code' = 3 /\ (SetEngine(PassThrough) \/ UNCHANGED <<engine, proxy>>)
        BY <1>5 DEF CallFails, Fails
    <2>2. CASE UNCHANGED <<engine, proxy>>
        BY <1>0, <2>1, <2>2 DEF proxy
    <2>. QED BY <1>0, <1>1, <1>2, <2>1, <2>2
<1>6. CASE StartProxy \/ CloseAllConns \/ Shutdown \/ Drained
    BY <1>0, <1>6
       DEF StartProxy, CloseAllConns, Shutdown, Drained, outcome, P!StartUp, P!Cut, P!BeginStop,
           P!Stop
<1>7. CASE \E c \in Conn : Connect(c) \/ Disconnect(c)
    BY <1>0, <1>7 DEF Connect, Disconnect, outcome, P!Serve, P!Drop
<1>8. CASE Report \/ ReportFails
    <2>1. ExitCodeForResult(BuildRunResult(scenarios, findings), request.failOn) \in {0, 1}
        BY DEF ExitCodeForResult
    <2>. QED BY <1>0, <1>8, <2>1 DEF Report, ReportFails, proxy
<1>9. CASE \/ PingUpstream \/ Reset \/ WarmupProbe \/ WarmupProbeErrs \/ Wait \/ WarmupDone
           \/ Snapshot \/ Measure \/ FinishBaseline \/ PingBeforeScenario \/ Audit
           \/ DrainTimesOut \/ Cancel \/ Command \/ UNCHANGED vars
    BY <1>0, <1>9
       DEF PingUpstream, Reset, WarmupProbe, WarmupProbeErrs, Wait, WarmupDone, Snapshot, Measure,
           FinishBaseline, PingBeforeScenario, Audit, DrainTimesOut, Cancel, Command, vars,
           outcome, proxy
<1>. QED BY <1>3, <1>4, <1>5, <1>6, <1>7, <1>8, <1>9 DEF Next, Step

LEMMA TypeStep == IInv /\ [Next]_vars => TypeOK'
<1>. SUFFICES ASSUME IInv, [Next]_vars PROVE TypeOK'
    OBVIOUS
<1>1. TypeOK /\ PlaceInv
    BY DEF IInv
<1>2. request' = request
    BY <1>1, TrafficTypes
<1>3. request' \in [only : ScenarioNames \cup {"", "typo"}, noWarmup : BOOLEAN,
                    reset : BOOLEAN, failOn : FailOn]
    BY <1>1, <1>2 DEF TypeOK
<1>. QED BY <1>1, <1>3, TrafficTypes, PlaceTypes, OutcomeTypes, ProxyTypes DEF TypeOK, Names, ScenarioNames

-----------------------------------------------------------------------------
(* The other parts of the invariant. *)

\* Two facts about the engines.
LEMMA SetsEngine ==
    ASSUME NEW e, SetEngine(e)
    PROVE  /\ engine' = e /\ phase = "up" /\ phase' = "up" /\ live' = live
           /\ e = Unavailable => gate' = "closing"
           /\ e # Unavailable => gate' = "open"
BY DEF SetEngine, P!CloseGate, P!OpenGate

LEMMA EngineNames ==
    /\ PassThrough # Unavailable /\ RandomMiss # Unavailable
    /\ EngineOf("redis_unavailable") = Unavailable
    /\ \A type \in ScenarioType : EngineOf(type) = Unavailable => type = "redis_unavailable"
<1>1. PassThrough # Unavailable /\ RandomMiss # Unavailable
    BY DEF PassThrough, RandomMiss, Unavailable
<1>2. /\ EngineOf("redis_unavailable") = Unavailable /\ EngineOf("random_miss") = RandomMiss
      /\ EngineOf("cold_cache") = PassThrough
    BY DEF EngineOf
<1>. QED BY <1>1, <1>2 DEF ScenarioType

LEMMA PhaseStep == IInv /\ [Next]_vars => PhaseInv'
<1>. SUFFICES ASSUME IInv, [Next]_vars PROVE PhaseInv'
    OBVIOUS
<1>0. PhaseInv /\ PlaceInv /\ phase \in {"down", "up", "stopping", "stopped"} /\ pc \in Locations
    BY DEF IInv, TypeOK
<1>1. CASE NextScenario \/ Prepare \/ FinishScenario
    <2>1. phase' = "up"
        BY <1>1, SetsEngine DEF NextScenario, Prepare, FinishScenario
    <2>2. pc' \in {"reset", "cut", "measure", "next"}
        BY <1>1 DEF NextScenario, Prepare, FinishScenario, At
    <2>. QED BY <2>1, <2>2 DEF PhaseInv, Up
<1>2. CASE CallFails
    <2>1. pc' = (IF phase = "down" THEN "exited" ELSE "shutdown")
          /\ pc \in {"ping", "start", "reset", "warmup", "wait", "upstream", "prepare", "measure",
                     "next"}
        BY <1>2 DEF CallFails, Fails, At
    <2>2. phase' = phase
        BY <1>2, SetsEngine DEF CallFails, Fails, proxy
    <2>. QED BY <1>0, <2>1, <2>2 DEF PhaseInv, Up
<1>3. CASE StartProxy \/ CloseAllConns \/ Shutdown \/ Drained
    BY <1>0, <1>3
       DEF PhaseInv, Up, StartProxy, CloseAllConns, Shutdown, Drained, AfterShutdown, At, P!StartUp,
           P!Cut, P!BeginStop, P!Stop
<1>4. CASE \E c \in Conn : Connect(c) \/ Disconnect(c)
    BY <1>0, <1>4 DEF PhaseInv, Connect, Disconnect, P!Serve, P!Drop
<1>5. CASE \/ PingUpstream \/ Reset \/ WarmupProbe \/ WarmupProbeErrs \/ Wait \/ WarmupDone
           \/ Snapshot \/ Measure \/ FinishBaseline \/ PingBeforeScenario \/ Audit
           \/ DrainTimesOut \/ Report \/ ReportFails
    BY <1>0, <1>5
       DEF PhaseInv, Up, PingUpstream, Reset, WarmupProbe, WarmupProbeErrs, Wait, WarmupDone,
           Snapshot, Measure, FinishBaseline, PingBeforeScenario, Audit, DrainTimesOut,
           AfterShutdown, Report, ReportFails, At, proxy
<1>6. CASE Cancel \/ Command \/ UNCHANGED vars
    BY <1>0, <1>6 DEF PhaseInv, Cancel, Command, vars, proxy
<1>. QED BY <1>1, <1>2, <1>3, <1>4, <1>5, <1>6 DEF Next, Step

LEMMA PlaceStep == IInv /\ [Next]_vars => PlaceInv'
<1>. SUFFICES ASSUME IInv, [Next]_vars PROVE PlaceInv'
    OBVIOUS
<1>0. PlaceInv /\ cur \in Nat
    <2>1. PlaceInv /\ cur \in 0..Len(Scenarios)
        BY DEF IInv, TypeOK
    <2>. QED BY <2>1, ScenarioFacts
<1>1. CASE NextScenario \/ FinishScenario
    <2>1. pc' \in {"reset", "next"}
        BY <1>1 DEF NextScenario, FinishScenario, At
    <2>. QED BY <2>1 DEF PlaceInv
<1>2. CASE CallFails
    <2>1. pc' \in {"exited", "shutdown"}
        BY <1>2 DEF CallFails, Fails, At
    <2>. QED BY <2>1 DEF PlaceInv
<1>3. CASE \/ PingUpstream \/ StartProxy \/ Reset \/ WarmupProbe \/ WarmupProbeErrs \/ Wait
           \/ WarmupDone \/ Snapshot \/ Measure \/ FinishBaseline \/ PingBeforeScenario \/ Prepare
           \/ CloseAllConns
    BY <1>0, <1>3
       DEF PlaceInv, PingUpstream, StartProxy, Reset, WarmupProbe, WarmupProbeErrs, Wait,
           WarmupDone, Snapshot, Measure, FinishBaseline, PingBeforeScenario, Prepare,
           CloseAllConns, At, place
<1>4. CASE Audit \/ Shutdown \/ Drained \/ DrainTimesOut \/ Report \/ ReportFails
    <2>1. pc' \in Ending
        BY <1>4 DEF Audit, Shutdown, Drained, DrainTimesOut, AfterShutdown, Report, ReportFails, At,
                    Ending
    <2>. QED BY <2>1 DEF PlaceInv, Ending
<1>5. CASE \/ Cancel \/ Command \/ UNCHANGED vars
           \/ \E c \in Conn : Connect(c) \/ Disconnect(c)
    BY <1>0, <1>5 DEF PlaceInv, Cancel, Command, Connect, Disconnect, vars, place
<1>. QED BY <1>1, <1>2, <1>3, <1>4, <1>5 DEF Next, Step

LEMMA EngineStep == IInv /\ [Next]_vars => EngineInv'
<1>. SUFFICES ASSUME IInv, [Next]_vars PROVE EngineInv'
    OBVIOUS
<1>0. /\ FaultConfined /\ FaultWhileMeasured /\ (engine # Unavailable => gate = "open")
      /\ (pc = "cut" => engine = Unavailable /\ gate = "closing")
      /\ PlaceInv /\ cur \in 0..Len(Scenarios)
    BY DEF IInv, TypeOK, EngineInv
<1>1. ASSUME engine' = PassThrough, gate' = "open", pc' \notin {"cut", "measure"}
      PROVE  EngineInv'
    BY <1>1, EngineNames DEF EngineInv, FaultConfined, FaultWhileMeasured, Measuring
<1>2. ASSUME UNCHANGED <<pc, cur, engine, gate>>, live' = live \/ gate # "cut" \/ live' \subseteq live
      PROVE  EngineInv'
    BY <1>0, <1>2 DEF EngineInv, FaultConfined, FaultWhileMeasured, Measuring
<1>3. CASE NextScenario \/ FinishScenario
    <2>1. pc' \in {"reset", "next"} /\ SetEngine(PassThrough)
        BY <1>3 DEF NextScenario, FinishScenario, At
    <2>. QED BY <1>1, <2>1, SetsEngine, EngineNames
<1>4. CASE CallFails
    <2>1. pc' \in {"exited", "shutdown"} /\ IF cur > 0 THEN SetEngine(PassThrough)
                                            ELSE UNCHANGED <<engine, proxy>>
        BY <1>4 DEF CallFails, Fails, At
    <2>2. CASE cur > 0
        BY <1>1, <2>1, <2>2, SetsEngine, EngineNames
    <2>3. CASE ~(cur > 0)
        <3>1. engine = PassThrough /\ gate = "open"
            BY <1>0, <2>3, EngineNames DEF FaultConfined
        <3>. QED BY <1>1, <2>1, <2>3, <3>1 DEF proxy
    <2>. QED BY <2>2, <2>3
<1>5. CASE Prepare
    <2>. DEFINE type == Scenarios[cur].type
    <2>1. /\ pc = "prepare" /\ cur' = cur /\ SetEngine(EngineOf(type))
          /\ pc' = IF type = "redis_unavailable" THEN "cut" ELSE "measure"
        BY <1>5 DEF Prepare, At, place
    <2>2. cur > 0 /\ type \in ScenarioType
        BY <1>0, <2>1, ScenarioFacts DEF PlaceInv
    <2>. HIDE DEF type
    <2>3. /\ engine' = EngineOf(type)
          /\ EngineOf(type) = Unavailable => gate' = "closing"
          /\ EngineOf(type) # Unavailable => gate' = "open"
        BY <2>1, SetsEngine
    <2>4. EngineOf(type) = Unavailable <=> type = "redis_unavailable"
        BY <2>2, EngineNames
    <2>5. FaultConfined' /\ FaultWhileMeasured'
        BY <2>1, <2>2, <2>3, <2>4 DEF FaultConfined, FaultWhileMeasured, Measuring, type
    <2>. QED BY <2>1, <2>3, <2>4, <2>5 DEF EngineInv
<1>6. CASE CloseAllConns
    <2>1. /\ pc = "cut" /\ pc' = "measure" /\ gate' = "cut" /\ live = {} /\ live' = live
          /\ engine' = engine /\ cur' = cur
        BY <1>6 DEF CloseAllConns, At, place, P!Cut
    <2>. QED BY <1>0, <2>1, EngineNames
             DEF EngineInv, FaultConfined, FaultWhileMeasured, Measuring, PlaceInv
<1>7. CASE Snapshot
    <2>1. pc = "snapshot" /\ pc' = "measure" /\ cur' = cur /\ engine' = engine /\ gate' = gate
        BY <1>7 DEF Snapshot, At, proxy
    <2>2. cur = 0 /\ engine = PassThrough /\ gate = "open"
        BY <1>0, <2>1, EngineNames DEF PlaceInv, FaultConfined
    <2>. QED BY <2>1, <2>2, EngineNames
             DEF EngineInv, FaultConfined, FaultWhileMeasured, Measuring
<1>8. CASE \/ PingUpstream \/ StartProxy \/ Reset \/ WarmupProbe \/ WarmupProbeErrs \/ Wait
           \/ WarmupDone \/ FinishBaseline \/ PingBeforeScenario \/ Audit \/ Shutdown \/ Drained
           \/ DrainTimesOut \/ Report \/ ReportFails
    <2>1. pc' \notin {"cut", "measure"} /\ engine' = engine /\ gate' = gate
        BY <1>8
           DEF PingUpstream, StartProxy, Reset, WarmupProbe, WarmupProbeErrs, Wait, WarmupDone,
               FinishBaseline, PingBeforeScenario, Audit, Shutdown, Drained, DrainTimesOut,
               AfterShutdown, Report, ReportFails, At, proxy, P!StartUp, P!BeginStop, P!Stop
    <2>2. pc \notin {"cut", "measure"} \/ cur = 0
        BY <1>8
           DEF PingUpstream, StartProxy, Reset, WarmupProbe, WarmupProbeErrs, Wait, WarmupDone,
               FinishBaseline, PingBeforeScenario, Audit, Shutdown, Drained, DrainTimesOut,
               Report, ReportFails, At
    <2>3. engine = PassThrough
        BY <1>0, <2>2 DEF FaultConfined
    <2>. QED BY <1>0, <1>1, <2>1, <2>3, EngineNames
<1>9. CASE Measure \/ Cancel \/ Command \/ UNCHANGED vars
    BY <1>2, <1>9 DEF Measure, Cancel, Command, At, vars, place, proxy
<1>10. CASE \E c \in Conn : Connect(c) \/ Disconnect(c)
    BY <1>2, <1>10 DEF Connect, Disconnect, P!Serve, P!Drop, place
<1>. QED BY <1>3, <1>4, <1>5, <1>6, <1>7, <1>8, <1>9, <1>10 DEF Next, Step

LEMMA OutcomeStep == IInv /\ [Next]_vars => OutcomeInv'
<1>. SUFFICES ASSUME IInv, [Next]_vars PROVE OutcomeInv'
    OBVIOUS
<1>0. OutcomeInv /\ request' = request
    BY TrafficTypes DEF IInv
<1>1. CASE CallFails
    BY <1>1 DEF CallFails, Fails, At, OutcomeInv, Causes
<1>2. CASE Report
    BY <1>0, <1>2 DEF Report, At, OutcomeInv
<1>3. CASE ReportFails
    BY <1>0, <1>3 DEF ReportFails, At, OutcomeInv
<1>4. CASE Audit \/ FinishBaseline \/ FinishScenario
    BY <1>0, <1>4 DEF Audit, FinishBaseline, FinishScenario, At, OutcomeInv
<1>5. CASE Drained \/ DrainTimesOut
    BY <1>0, <1>5 DEF Drained, DrainTimesOut, AfterShutdown, At, outcome, OutcomeInv
<1>6. CASE \/ PingUpstream \/ StartProxy \/ Reset \/ WarmupProbe \/ WarmupProbeErrs \/ Wait
           \/ WarmupDone \/ Snapshot \/ Measure \/ NextScenario \/ PingBeforeScenario \/ Prepare
           \/ CloseAllConns \/ Shutdown
    <2>1. (UNCHANGED outcome /\ pc \notin {"shutdown", "drain", "exited"}) \/ Shutdown
        BY <1>6
           DEF PingUpstream, StartProxy, Reset, WarmupProbe, WarmupProbeErrs, Wait, WarmupDone,
               Snapshot, Measure, NextScenario, PingBeforeScenario, Prepare, CloseAllConns, At
    <2>2. CASE Shutdown
        BY <1>0, <2>2 DEF Shutdown, At, outcome, OutcomeInv
    <2>3. pc' # "exited"
        BY <1>6
           DEF PingUpstream, StartProxy, Reset, WarmupProbe, WarmupProbeErrs, Wait, WarmupDone,
               Snapshot, Measure, NextScenario, PingBeforeScenario, Prepare, CloseAllConns,
               Shutdown, At
    <2>. QED BY <1>0, <2>1, <2>2, <2>3 DEF outcome, OutcomeInv
<1>7. CASE \/ Cancel \/ Command \/ UNCHANGED vars
           \/ \E c \in Conn : Connect(c) \/ Disconnect(c)
    <2>1. UNCHANGED outcome /\ pc' = pc
        BY <1>7 DEF Cancel, Command, Connect, Disconnect, vars
    <2>. QED BY <1>0, <2>1 DEF outcome, OutcomeInv
<1>. QED BY <1>1, <1>2, <1>3, <1>4, <1>5, <1>6, <1>7 DEF Next, Step

LEMMA TrafficStep == IInv /\ [Next]_vars => TrafficInv'
<1>. SUFFICES ASSUME IInv, [Next]_vars PROVE TrafficInv'
    OBVIOUS
<1>0. /\ TrafficInv /\ PlaceInv /\ OutcomeInv /\ rows \in Nat /\ before \in Nat /\ before <= rows
      /\ cur \in Nat /\ seen \in BOOLEAN /\ findings \in Seq(Finding)
    <2>1. /\ TrafficInv /\ PlaceInv /\ OutcomeInv /\ rows \in 0..MaxRows /\ before \in 0..rows
          /\ cur \in 0..Len(Scenarios) /\ seen \in BOOLEAN /\ findings \in Seq(Finding)
        BY DEF IInv, TypeOK
    <2>. QED BY <2>1, ScenarioFacts, RowsAssumption
<1>1. ASSUME UNCHANGED <<findings, seen>>
      PROVE  NoTraffic' = NoTraffic /\ seen' = seen /\ findings' = findings
    BY <1>1 DEF NoTraffic
<1>2. CASE Command
    <2>1. /\ rows' = rows + 1 /\ before' = before /\ pc' = pc /\ cur' = cur /\ cause' = cause
          /\ findings' = findings /\ seen' = (seen \/ (pc = "measure" /\ cur = 0))
        BY <1>2 DEF Command, place, outcome
    <2>2. rows' # before'
        BY <1>0, <2>1
    <2>3. CASE pc = "measure" /\ cur = 0
        <3>1. seen'
            BY <2>1, <2>3
        <3>2. findings' = <<>>
            BY <1>0, <2>1, <2>3 DEF TrafficInv
        <3>. QED BY <2>1, <2>2, <2>3, <3>1, <3>2 DEF TrafficInv, Ending
    <2>4. CASE ~(pc = "measure" /\ cur = 0)
        <3>1. seen' = seen
            BY <1>0, <2>1, <2>4
        <3>2. NoTraffic' = NoTraffic
            BY <1>1, <2>1, <3>1
        <3>. QED BY <1>0, <2>1, <2>4, <3>1, <3>2 DEF TrafficInv, Ending
    <2>. QED BY <2>3, <2>4
<1>3. CASE Snapshot
    <2>1. /\ pc = "snapshot" /\ pc' = "measure" /\ before' = rows /\ rows' = rows /\ seen' = seen
          /\ findings' = findings /\ cur' = cur
        BY <1>3 DEF Snapshot, At, traffic, outcome
    <2>2. cur = 0 /\ findings = <<>> /\ ~seen
        BY <1>0, <2>1 DEF TrafficInv, PlaceInv
    <2>. QED BY <2>1, <2>2 DEF TrafficInv, Ending
<1>4. CASE FinishBaseline
    <2>1. /\ pc = "measure" /\ cur = 0 /\ pc' = "next" /\ cur' = 0 /\ seen' = seen
          /\ findings' = IF rows = before
                         THEN Append(findings, [name |-> "no-redis-traffic", level |-> "FAIL"])
                         ELSE findings
        BY <1>4 DEF FinishBaseline, At, traffic, place
    <2>2. findings = <<>> /\ (seen <=> rows # before)
        BY <1>0, <2>1 DEF TrafficInv
    <2>3. NoTraffic' <=> rows = before
        <3>1. CASE rows = before
            <4>1. findings' = <<[name |-> "no-redis-traffic", level |-> "FAIL"]>>
                BY <2>1, <2>2, <3>1
            <4>2. 1 \in DOMAIN findings' /\ findings'[1].name = "no-redis-traffic"
                BY <4>1
            <4>. QED BY <3>1, <4>2 DEF NoTraffic
        <3>2. CASE rows # before
            <4>1. DOMAIN findings' = {}
                BY <2>1, <2>2, <3>2
            <4>. QED BY <3>2, <4>1 DEF NoTraffic
        <3>. QED BY <3>1, <3>2
    <2>. QED BY <2>1, <2>2, <2>3 DEF TrafficInv, Ending
<1>5. CASE Audit
    <2>1. /\ pc = "next" /\ pc' = "shutdown" /\ cur' = cur /\ seen' = seen
          /\ \E new \in AuditFindings : findings' = findings \o new
        BY <1>5 DEF Audit, At, traffic, place
    <2>2. NoTraffic' <=> NoTraffic
        BY <1>0, <2>1, AuditAdds DEF NoTraffic
    <2>. QED BY <1>0, <2>1, <2>2 DEF TrafficInv, Ending
<1>6. CASE NextScenario
    <2>1. pc = "next" /\ pc' = "reset" /\ cur' > 0 /\ UNCHANGED <<findings, seen>>
        BY <1>0, <1>6, ScenarioFacts DEF NextScenario, Remaining, At, traffic, outcome
    <2>. QED BY <1>0, <1>1, <2>1 DEF TrafficInv, Ending
<1>7. CASE CallFails
    <2>1. /\ pc' \in {"shutdown", "exited"} /\ cause' # "none" /\ cur' = cur
          /\ UNCHANGED <<findings, seen>>
        BY <1>7 DEF CallFails, Fails, At, traffic, place
    <2>. QED BY <1>0, <1>1, <2>1 DEF TrafficInv, Ending
<1>8. CASE Report \/ ReportFails
    <2>1. /\ pc = "report" /\ pc' = "exited" /\ cur' = cur /\ UNCHANGED <<findings, seen>>
        BY <1>8 DEF Report, ReportFails, At, traffic, place
    <2>2. cause = "none"
        BY <1>0, <2>1 DEF OutcomeInv
    <2>. QED BY <1>0, <1>1, <2>1, <2>2 DEF TrafficInv, Ending
<1>9. CASE \/ PingUpstream \/ StartProxy \/ Reset \/ WarmupProbe \/ WarmupProbeErrs \/ Wait
           \/ WarmupDone \/ Measure \/ PingBeforeScenario \/ Prepare \/ CloseAllConns
           \/ Shutdown \/ Drained \/ DrainTimesOut
    <2>1. UNCHANGED <<findings, seen, cur, cause, rows, before>>
        BY <1>9
           DEF PingUpstream, StartProxy, Reset, WarmupProbe, WarmupProbeErrs, Wait, WarmupDone,
               Measure, PingBeforeScenario, Prepare, CloseAllConns, Shutdown, Drained,
               DrainTimesOut, At, traffic, place, outcome
    <2>2. /\ pc' # "next"
          /\ pc' \in {"start", "reset", "warmup", "wait", "snapshot"} =>
                pc \in {"ping", "start", "reset", "warmup", "wait"}
          /\ pc' # "ping"
          /\ pc' = "measure" => pc = "measure" \/ cur > 0
          /\ pc' \in Ending => pc \in Ending
        BY <1>0, <1>9
           DEF PlaceInv, Ending, PingUpstream, StartProxy, Reset, WarmupProbe, WarmupProbeErrs,
               Wait, WarmupDone, Measure, PingBeforeScenario, Prepare, CloseAllConns, Shutdown,
               Drained, DrainTimesOut, AfterShutdown, At
    <2>. QED BY <1>0, <1>1, <2>1, <2>2 DEF TrafficInv
<1>10. CASE Cancel \/ UNCHANGED vars \/ \E c \in Conn : Connect(c) \/ Disconnect(c)
    <2>1. UNCHANGED <<findings, seen, cur, cause, rows, before, pc>>
        BY <1>10 DEF Cancel, Connect, Disconnect, vars, traffic, place, outcome
    <2>. QED BY <1>0, <1>1, <2>1 DEF TrafficInv
<1>11. CASE FinishScenario
    <2>1. cur > 0 /\ cur' = cur /\ UNCHANGED <<findings, seen>>
        BY <1>11 DEF FinishScenario, At, traffic, place
    <2>. QED BY <1>0, <1>1, <2>1 DEF TrafficInv
<1>. QED BY <1>2, <1>3, <1>4, <1>5, <1>6, <1>7, <1>8, <1>9, <1>10, <1>11 DEF Next, Step

\* How the count of selected scenarios grows.
LEMMA CountFacts ==
    /\ \A n : ChosenUpTo(n) \in Nat
    /\ ChosenUpTo(0) = 0
    /\ \A k \in DOMAIN Scenarios : Chosen(k) => ChosenUpTo(k) >= 1
<1>. DEFINE Set(n) == {j \in DOMAIN Scenarios : j <= n /\ Chosen(j)}
<1>1. \A n : IsFiniteSet(Set(n))
    <2>1. IsFiniteSet(DOMAIN Scenarios)
        BY ScenarioFacts, FS_Interval
    <2>. QED BY <2>1, FS_Subset
<1>2. \A n : ChosenUpTo(n) = Cardinality(Set(n))
    BY DEF ChosenUpTo
<1>3. Set(0) = {}
    BY ScenarioFacts
<1>4. ASSUME NEW k \in DOMAIN Scenarios, Chosen(k)
      PROVE  Set(k) # {}
    BY <1>4, ScenarioFacts
<1>. HIDE DEF Set
<1>5. \A n : Cardinality(Set(n)) \in Nat /\ (Cardinality(Set(n)) > 0 <=> Set(n) # {})
    BY <1>1, Positive
<1>. QED BY <1>2, <1>3, <1>4, <1>5

LEMMA CountNext ==
    ASSUME NEW n \in Nat, NEW k \in DOMAIN Scenarios, n < k, Chosen(k),
           \A j \in DOMAIN Scenarios : n < j /\ Chosen(j) => k <= j
    PROVE  ChosenUpTo(k) = ChosenUpTo(n) + 1
<1>. DEFINE Set(m) == {j \in DOMAIN Scenarios : j <= m /\ Chosen(j)}
<1>1. IsFiniteSet(Set(n)) /\ k \notin Set(n)
    <2>1. IsFiniteSet(DOMAIN Scenarios)
        BY ScenarioFacts, FS_Interval
    <2>2. k \notin Set(n)
        BY ScenarioFacts
    <2>. QED BY <2>1, <2>2, FS_Subset
<1>2. Set(k) = Set(n) \cup {k}
    BY ScenarioFacts
<1>3. ChosenUpTo(k) = Cardinality(Set(k)) /\ ChosenUpTo(n) = Cardinality(Set(n))
    BY DEF ChosenUpTo
<1>. HIDE DEF Set
<1>4. Cardinality(Set(n) \cup {k}) = Cardinality(Set(n)) + 1
    BY <1>1, FS_AddElement, Zenon
<1>. QED BY <1>2, <1>3, <1>4, Zenon

\* A row that is added leaves those before it.
LEMMA RowAdded ==
    ASSUME NEW name, NEW n \in Nat, NEW rowCount \in Nat, NEW m \in Nat,
           scenarios \in Seq(ScenarioInput(Names)), Recorded(rowCount, n),
           Len(probes) = NumProbes,
           [name |-> name, probes |-> probes] \in ScenarioInput(Names),
           scenarios' = Append(scenarios, [name |-> name, probes |-> probes]),
           rowCount = 0 => name = Baseline,
           request' = request,
           \A k \in DOMAIN Scenarios :
                k <= m /\ Chosen(k) =>
                    k <= n \/ (ChosenUpTo(k) = rowCount /\ Scenarios[k].name = name)
    PROVE  Recorded(rowCount + 1, m)'
<1>. DEFINE row == [name |-> name, probes |-> probes]
<1>1. row.name = name /\ row.probes = probes
    OBVIOUS
<1>. HIDE DEF row
<1>2. /\ Len(scenarios) = rowCount /\ Len(scenarios') = rowCount + 1
      /\ DOMAIN scenarios = 1..rowCount /\ DOMAIN scenarios' = 1..(rowCount + 1)
      /\ scenarios'[rowCount + 1] = row
      /\ \A k \in 1..rowCount : scenarios'[k] = scenarios[k]
    BY DEF Recorded, row
<1>3. \A k : Chosen(k)' = Chosen(k) /\ ChosenUpTo(k)' = ChosenUpTo(k)
    BY DEF Chosen, ChosenUpTo
<1>4. scenarios'[1].name = Baseline
    <2>1. CASE rowCount = 0
        BY <1>1, <1>2, <2>1
    <2>2. CASE rowCount > 0
        BY <1>2, <2>2 DEF Recorded
    <2>. QED BY <2>1, <2>2
<1>5. ASSUME NEW k \in DOMAIN Scenarios, k <= m, Chosen(k)
      PROVE  /\ ChosenUpTo(k) + 1 <= rowCount + 1
             /\ scenarios'[ChosenUpTo(k) + 1].name = Scenarios[k].name
    <2>1. CASE k <= n
        <3>1. /\ ChosenUpTo(k) + 1 <= rowCount
              /\ scenarios[ChosenUpTo(k) + 1].name = Scenarios[k].name
            BY <1>5, <2>1 DEF Recorded
        <3>2. ChosenUpTo(k) + 1 \in 1..rowCount
            BY <3>1, CountFacts
        <3>. QED BY <1>2, <3>1, <3>2
    <2>2. CASE ChosenUpTo(k) = rowCount /\ Scenarios[k].name = name
        BY <1>1, <1>2, <2>2
    <2>. QED BY <1>5, <2>1, <2>2
<1>6. ASSUME NEW k \in DOMAIN scenarios'
      PROVE  Len(scenarios'[k].probes) = NumProbes
    <2>1. k \in 1..rowCount \/ k = rowCount + 1
        BY <1>2
    <2>2. CASE k \in 1..rowCount
        BY <1>2, <2>2 DEF Recorded
    <2>3. CASE k = rowCount + 1
        BY <1>1, <1>2, <2>3
    <2>. QED BY <2>1, <2>2, <2>3
<1>. QED BY <1>2, <1>3, <1>4, <1>5, <1>6 DEF Recorded

LEMMA MeasuredStep == IInv /\ [Next]_vars => MeasuredInv'
<1>. SUFFICES ASSUME IInv, [Next]_vars, cause' = "none" PROVE MeasuredInv'
    BY DEF MeasuredInv
<1>0. /\ MeasuredInv /\ PlaceInv /\ OutcomeInv /\ request' = request /\ cur \in Nat
      /\ scenarios \in Seq(ScenarioInput(Names)) /\ probes \in Seq(BOOLEAN)
      /\ cur > 0 => cur \in DOMAIN Scenarios
    <2>1. /\ MeasuredInv /\ PlaceInv /\ OutcomeInv /\ TypeOK /\ cur \in 0..Len(Scenarios)
          /\ scenarios \in Seq(ScenarioInput(Names)) /\ probes \in Seq(BOOLEAN)
        BY DEF IInv, TypeOK, Names
    <2>. QED BY <2>1, TrafficTypes, ScenarioFacts
<1>1. \A k : Chosen(k)' = Chosen(k) /\ ChosenUpTo(k)' = ChosenUpTo(k)
    BY <1>0 DEF Chosen, ChosenUpTo
<1>2. ASSUME UNCHANGED <<cur, scenarios>>, cause = "none",
             pc' \in Ending \cup {"next"} <=> pc \in Ending \cup {"next"},
             pc' \in Ending => pc \in Ending \/ Remaining = {}
      PROVE  MeasuredInv'
    <2>1. \A rowCount, n : Recorded(rowCount, n)' <=> Recorded(rowCount, n)
        BY <1>1, <1>2 DEF Recorded
    <2>2. Remaining' = Remaining
        BY <1>1, <1>2 DEF Remaining
    <2>3. cur' = cur /\ ChosenUpTo(cur)' = ChosenUpTo(cur) /\ Chosen(cur)' = Chosen(cur)
        BY <1>0, <1>2 DEF Chosen, ChosenUpTo
    <2>. QED BY <1>0, <1>2, <2>1, <2>2, <2>3 DEF MeasuredInv
<1>3. CASE FinishBaseline
    <2>1. /\ pc = "measure" /\ pc' = "next" /\ cur = 0 /\ cur' = 0 /\ cause = "none"
          /\ Len(probes) = NumProbes
          /\ scenarios' = Append(scenarios, [name |-> Baseline, probes |-> probes])
        BY <1>3 DEF FinishBaseline, At, place
    <2>2. Recorded(0, 0)
        BY <1>0, <2>1 DEF MeasuredInv, Ending
    <2>3. [name |-> Baseline, probes |-> probes] \in ScenarioInput(Names)
        BY <1>0 DEF Names, ScenarioInput
    <2>4. Recorded(0 + 1, 0)'
        BY <1>0, <2>1, <2>2, <2>3, RowAdded
    <2>5. (ChosenUpTo(cur) + 1)' = 0 + 1
        BY <1>1, <2>1, CountFacts
    <2>6. Recorded(ChosenUpTo(cur) + 1, cur)'
        BY <2>1, <2>4, <2>5 DEF Recorded
    <2>. QED BY <2>1, <2>6 DEF MeasuredInv, Ending
<1>4. CASE FinishScenario
    <2>. DEFINE name == Scenarios[cur].name
    <2>1. /\ pc = "measure" /\ pc' = "next" /\ cur > 0 /\ cur' = cur /\ cause = "none"
          /\ Len(probes) = NumProbes
          /\ scenarios' = Append(scenarios, [name |-> name, probes |-> probes])
        BY <1>4 DEF FinishScenario, At, place
    <2>2. Chosen(cur) /\ Recorded(ChosenUpTo(cur), cur - 1)
        BY <1>0, <2>1 DEF MeasuredInv, Ending
    <2>3. [name |-> name, probes |-> probes] \in ScenarioInput(Names)
        BY <1>0, <2>1 DEF Names, ScenarioNames, ScenarioInput
    <2>4. ChosenUpTo(cur) \in Nat /\ ChosenUpTo(cur) >= 1 /\ cur - 1 \in Nat
        BY <1>0, <2>1, <2>2, CountFacts
    <2>5. \A k \in DOMAIN Scenarios :
            k <= cur => k <= cur - 1 \/ k = cur
        BY <1>0, ScenarioFacts
    <2>. HIDE DEF name
    <2>6. Recorded(ChosenUpTo(cur) + 1, cur)'
        <3>1. \A k \in DOMAIN Scenarios :
                k <= cur /\ Chosen(k) =>
                    k <= cur - 1 \/ (ChosenUpTo(k) = ChosenUpTo(cur) /\ Scenarios[k].name = name)
            BY <2>5 DEF name
        <3>. DEFINE c == ChosenUpTo(cur)
        <3>2. c \in Nat /\ c # 0 /\ Recorded(c, cur - 1)
            BY <2>2, <2>4
        <3>3. \A k \in DOMAIN Scenarios :
                k <= cur /\ Chosen(k) =>
                    k <= cur - 1 \/ (ChosenUpTo(k) = c /\ Scenarios[k].name = name)
            BY <3>1
        <3>4. c' = c
            BY <1>1, <2>1 DEF ChosenUpTo, Chosen
        <3>. HIDE DEF c
        <3>5. Recorded(c + 1, cur)'
            BY <1>0, <2>1, <2>3, <2>4, <3>2, <3>3, <3>4, RowAdded
        <3>. QED BY <3>5 DEF c
    <2>. QED BY <2>1, <2>6 DEF MeasuredInv, Ending
<1>5. CASE NextScenario
    <2>1. PICK k \in Remaining :
            /\ \A other \in Remaining : k <= other
            /\ cur' = k
        BY <1>5 DEF NextScenario
    <2>2. /\ pc = "next" /\ pc' = "reset" /\ scenarios' = scenarios /\ cause = "none"
        BY <1>5 DEF NextScenario, At, outcome
    <2>3. /\ k \in DOMAIN Scenarios /\ k \in Nat /\ cur < k /\ Chosen(k)
          /\ \A j \in DOMAIN Scenarios : cur < j /\ Chosen(j) => k <= j
        BY <1>0, <2>1, ScenarioFacts DEF Remaining
    <2>4. ChosenUpTo(k) = ChosenUpTo(cur) + 1
        BY <1>0, <2>3, CountNext
    <2>5. Recorded(ChosenUpTo(k), cur)
        BY <1>0, <2>2, <2>4 DEF MeasuredInv
    <2>6. Recorded(ChosenUpTo(k), k - 1)
        <3>1. \A j \in DOMAIN Scenarios : j <= k - 1 /\ Chosen(j) => j <= cur
            BY <1>0, <2>3, ScenarioFacts
        <3>. QED BY <2>5, <3>1 DEF Recorded
    <2>7. Recorded(ChosenUpTo(cur), cur - 1)'
        BY <1>1, <2>1, <2>2, <2>6 DEF Recorded, Chosen, ChosenUpTo
    <2>8. cur' > 0 /\ Chosen(cur)'
        <3>1. cur' > 0
            BY <1>0, <2>1, <2>3
        <3>2. Chosen(cur)' <=> Chosen(k)
            BY <1>0, <2>1 DEF Chosen
        <3>. QED BY <2>3, <3>1, <3>2
    <2>. QED BY <2>2, <2>7, <2>8 DEF MeasuredInv, Ending
<1>6. CASE Audit
    <2>1. pc = "next" /\ pc' = "shutdown" /\ Remaining = {} /\ UNCHANGED <<cur, scenarios, cause>>
        BY <1>6 DEF Audit, At, place
    <2>. QED BY <1>2, <2>1 DEF Ending
<1>7. CASE CallFails \/ ReportFails
    BY <1>7 DEF CallFails, Fails, ReportFails
<1>8. CASE \/ PingUpstream \/ StartProxy \/ Reset \/ WarmupProbe \/ WarmupProbeErrs \/ Wait
           \/ WarmupDone \/ Snapshot \/ Measure \/ PingBeforeScenario \/ Prepare \/ CloseAllConns
    <2>1. /\ UNCHANGED <<cur, scenarios, cause>>
          /\ pc \notin Ending \cup {"next"} /\ pc' \notin Ending \cup {"next"}
        BY <1>8
           DEF PingUpstream, StartProxy, Reset, WarmupProbe, WarmupProbeErrs, Wait, WarmupDone,
               Snapshot, Measure, PingBeforeScenario, Prepare, CloseAllConns, At, place, outcome,
               Ending
    <2>. QED BY <1>2, <2>1
<1>9. CASE Shutdown \/ Drained \/ DrainTimesOut \/ Report
    <2>1. UNCHANGED <<cur, scenarios, cause>> /\ pc \in Ending /\ pc' \in Ending
        BY <1>9 DEF Shutdown, Drained, DrainTimesOut, AfterShutdown, Report, At, place, outcome,
                    Ending
    <2>. QED BY <1>2, <2>1
<1>10. CASE \/ Cancel \/ Command \/ UNCHANGED vars
            \/ \E c \in Conn : Connect(c) \/ Disconnect(c)
    <2>1. UNCHANGED <<cur, scenarios, cause, pc>>
        BY <1>10 DEF Cancel, Command, Connect, Disconnect, vars, place, outcome
    <2>. QED BY <1>2, <2>1
<1>. QED BY <1>3, <1>4, <1>5, <1>6, <1>7, <1>8, <1>9, <1>10 DEF Next, Step

-----------------------------------------------------------------------------
(* The theorems. *)

THEOREM Invariance == Spec => []IInv
<1>1. IInv /\ [Next]_vars => IInv'
    BY TypeStep, PhaseStep, PlaceStep, EngineStep, OutcomeStep, TrafficStep,
       MeasuredStep DEF IInv
<1>. QED BY <1>1, InitIInv, PTL DEF Spec

\* Every variable keeps its type; warm-ups are retried warmup_retries times at
\* most.
THEOREM TypeCorrect == Spec => []TypeOK
<1>1. IInv => TypeOK
    BY DEF IInv
<1>. QED BY <1>1, Invariance, PTL

\* A fault is in force only for the scenario that configures it.
THEOREM ConfinedCorrect == Spec => []FaultConfined
<1>1. IInv => FaultConfined
    BY DEF IInv, EngineInv
<1>. QED BY <1>1, Invariance, PTL

\* Probes of a scenario are measured under its fault, after the cut.
THEOREM MeasuredCorrect == Spec => []FaultWhileMeasured
<1>1. IInv => FaultWhileMeasured
    BY DEF IInv, EngineInv
<1>. QED BY <1>1, Invariance, PTL

\* no-redis-traffic is about the measured baseline and nothing else.
THEOREM TrafficCorrect == Spec => []TrafficFinding
<1>1. IInv => TrafficFinding
    <2>. SUFFICES ASSUME IInv, cur > 0 \/ pc = "report"
                  PROVE  NoTraffic <=> ~seen
        BY DEF TrafficFinding, NoTraffic
    <2>1. pc = "report" => cause = "none"
        BY DEF IInv, OutcomeInv
    <2>. QED BY <2>1 DEF IInv, TrafficInv, Ending
<1>. QED BY <1>1, Invariance, PTL

\* However the run ends, the proxy is asked to stop and injects nothing.
THEOREM ReleasedCorrect == Spec => []ProxyReleased
<1>1. IInv => ProxyReleased
    <2>. SUFFICES ASSUME IInv, pc = "exited"
                  PROVE  phase # "up" /\ gate = "open" /\ engine = PassThrough
        BY DEF ProxyReleased
    <2>1. engine = PassThrough
        BY DEF IInv, EngineInv, FaultConfined
    <2>. QED BY <2>1, EngineNames DEF IInv, EngineInv, PhaseInv
<1>. QED BY <1>1, Invariance, PTL

LEMMA ExitFacts ==
    ASSUME IInv, pc = "exited", cause = "none"
    PROVE  /\ scenarios \in Seq(ScenarioInput(Names)) /\ findings \in Seq(Finding)
           /\ request.failOn \in FailOn
           /\ code = ExitCodeForResult(BuildRunResult(scenarios, findings), request.failOn)
<1>1. /\ scenarios \in Seq(ScenarioInput(Names)) /\ findings \in Seq(Finding)
      /\ request.failOn \in FailOn
    BY DEF IInv, TypeOK, Names
<1>. QED BY <1>1 DEF IInv, OutcomeInv

ProbesPassed ==
    \A k \in DOMAIN scenarios : FALSE \notin {scenarios[k].probes[p] :
                                           p \in DOMAIN scenarios[k].probes}
FindingsFine ==
    \A f \in DOMAIN findings :
        findings[f].level \in IF request.failOn = "warn" THEN {"PASS"} ELSE {"PASS", "WARN"}

LEMMA CleanMeans ==
    ASSUME scenarios \in Seq(ScenarioInput(Names)), findings \in Seq(Finding),
           request.failOn \in FailOn
    PROVE  Clean(scenarios, findings, request.failOn) <=> ProbesPassed /\ FindingsFine
<1>1. ASSUME NEW k \in DOMAIN scenarios
      PROVE  ScenarioPassed(scenarios[k]) <=>
                FALSE \notin {scenarios[k].probes[p] : p \in DOMAIN scenarios[k].probes}
    <2>1. scenarios[k] \in ScenarioInput(Names)
        OBVIOUS
    <2>2. scenarios[k].probes \in Seq(BOOLEAN)
        BY <2>1 DEF ScenarioInput
    <2>3. \A p \in DOMAIN scenarios[k].probes : scenarios[k].probes[p] \in BOOLEAN
        BY <2>2
    <2>. QED BY <2>3 DEF ScenarioPassed
<1>2. ASSUME NEW f \in DOMAIN findings
      PROVE  ~Counts(findings[f].level, request.failOn) <=>
                findings[f].level \in IF request.failOn = "warn" THEN {"PASS"}
                                      ELSE {"PASS", "WARN"}
    <2>1. findings[f] \in Finding
        OBVIOUS
    <2>2. findings[f].level \in Level
        BY <2>1 DEF Finding
    <2>. QED BY <2>2 DEF Counts, Level, FailOn
<1>. QED BY <1>1, <1>2 DEF Clean, AllPassed, ProbesPassed, FindingsFine

\* The exit code is 3 exactly when the run failed on something, 0 exactly when
\* all that was measured is fine, for any scenarios and findings.
THEOREM ExitCorrect == Spec => []ExitMeansResult
<1>1. IInv => ExitMeansResult
    <2>. SUFFICES ASSUME IInv, pc = "exited"
                  PROVE  /\ code = 3 <=> cause # "none"
                         /\ code = 0 <=> cause = "none" /\ ProbesPassed /\ FindingsFine
        BY Zenon DEF ExitMeansResult, ProbesPassed, FindingsFine
    <2>1. CASE cause # "none"
        <3>1. code = 3
            BY <2>1 DEF IInv, OutcomeInv
        <3>. QED BY <2>1, <3>1
    <2>2. CASE cause = "none"
        <3>1. code = IF Clean(scenarios, findings, request.failOn) THEN 0 ELSE 1
            BY <2>2, ExitFacts, ExitCodeMeans
        <3>2. Clean(scenarios, findings, request.failOn) <=> ProbesPassed /\ FindingsFine
            BY <2>2, ExitFacts, CleanMeans
        <3>. QED BY <2>2, <3>1, <3>2
    <2>. QED BY <2>1, <2>2
<1>. QED BY <1>1, Invariance, PTL

\* The JUnit file contains a failure exactly when the exit code is 1.
THEOREM JUnitCorrect == Spec => []JUnitAgrees
<1>1. IInv => JUnitAgrees
    BY ExitFacts, JUnitAgreesWithExitCode DEF JUnitAgrees
<1>. QED BY <1>1, Invariance, PTL

\* A report covers the baseline and each selected scenario once, in order.
THEOREM CompleteCorrect == Spec => []CompleteReport
<1>1. IInv => CompleteReport
    <2>. SUFFICES ASSUME IInv, pc \in {"report", "exited"}, cause = "none"
                  PROVE  CompleteReport
        BY DEF CompleteReport
    <2>1. Recorded(ChosenUpTo(cur) + 1, cur) /\ Remaining = {} /\ cur \in 0..Len(Scenarios)
        BY DEF IInv, TypeOK, MeasuredInv, Ending
    <2>2. \A k \in DOMAIN Scenarios : Chosen(k) => k <= cur
        BY <2>1, ScenarioFacts DEF Remaining
    <2>3. ChosenUpTo(Len(Scenarios)) = ChosenUpTo(cur)
        <3>1. {j \in DOMAIN Scenarios : j <= Len(Scenarios) /\ Chosen(j)}
                = {j \in DOMAIN Scenarios : j <= cur /\ Chosen(j)}
            BY <2>1, <2>2, ScenarioFacts
        <3>. QED BY <3>1 DEF ChosenUpTo
    <2>4. ChosenUpTo(cur) + 1 > 0
        BY CountFacts
    <2>. QED BY <2>1, <2>2, <2>3, <2>4 DEF CompleteReport, Recorded
<1>. QED BY <1>1, Invariance, PTL

-----------------------------------------------------------------------------
(* The orchestrator and the proxy's contract. *)

\* A step asks at most one thing of the proxy, and leaves it alone otherwise.
LEMMA AsksContract == [Next]_vars => [P!Next]_(P!vars)
<1>. SUFFICES ASSUME [Next]_vars PROVE P!Next \/ UNCHANGED proxy
    BY DEF proxy, P!vars
<1>1. ASSUME NEW e, SetEngine(e) PROVE P!Next
    BY <1>1 DEF SetEngine, P!Next
<1>2. CASE Prepare \/ NextScenario \/ FinishScenario
    BY <1>1, <1>2 DEF Prepare, NextScenario, FinishScenario
<1>3. CASE CallFails
    <2>1. SetEngine(PassThrough) \/ UNCHANGED proxy
        BY <1>3 DEF CallFails, Fails
    <2>. QED BY <1>1, <2>1
<1>4. CASE StartProxy \/ CloseAllConns \/ Shutdown \/ Drained
    BY <1>4 DEF StartProxy, CloseAllConns, Shutdown, Drained, P!Next
<1>5. CASE \E c \in Conn : Connect(c) \/ Disconnect(c)
    BY <1>5 DEF Connect, Disconnect, P!Next
<1>6. CASE \/ PingUpstream \/ Reset \/ WarmupProbe \/ WarmupProbeErrs \/ Wait \/ WarmupDone
           \/ Snapshot \/ Measure \/ FinishBaseline \/ PingBeforeScenario \/ Audit
           \/ DrainTimesOut \/ Report \/ ReportFails \/ Cancel \/ Command \/ UNCHANGED vars
    BY <1>6
       DEF PingUpstream, Reset, WarmupProbe, WarmupProbeErrs, Wait, WarmupDone, Snapshot, Measure,
           FinishBaseline, PingBeforeScenario, Audit, DrainTimesOut, Report, ReportFails, Cancel,
           Command, vars
<1>. QED BY <1>2, <1>3, <1>4, <1>5, <1>6 DEF Next, Step

\* What the orchestrator and the app do to the proxy is a behaviour of the
\* contract that the proxy implements.
THEOREM DrivesContract == Spec => P!Spec
<1>1. Init => P!Init
    BY DEF Init
<1>. QED BY <1>1, AsksContract, PTL DEF Spec, P!Spec

\* Wherever Run calls the proxy, in a scenario, on an error or after a signal,
\* the contract allows the call: Start before anything else; SetEngine and
\* CloseAllConns on a proxy that runs, the fault's gate closed from open and cut
\* once; and Shutdown once, which then waits.  So no call of the model waits for
\* a precondition that the code does not have.
Permitted ==
    /\ pc \in {"ping", "start"} => phase = "down"
    /\ pc \in Up => phase = "up"
    /\ pc = "prepare" => gate = "open"
    /\ pc = "cut" => gate = "closing"
    /\ pc = "drain" => phase = "stopping"

THEOREM PermittedCorrect == Spec => []Permitted
<1>1. IInv => Permitted
    <2>. SUFFICES ASSUME IInv PROVE Permitted
        OBVIOUS
    <2>1. pc = "prepare" => engine = PassThrough
        BY DEF IInv, EngineInv, FaultConfined
    <2>2. pc = "prepare" => gate = "open"
        BY <2>1, EngineNames DEF IInv, EngineInv
    <2>. QED BY <2>2 DEF IInv, EngineInv, PhaseInv, Permitted
<1>. QED BY <1>1, Invariance, PTL
=============================================================================
