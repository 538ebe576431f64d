------------------------------- MODULE Report --------------------------------
(***************************************************************************)
(* internal/report: what the outcome of a run amounts to.  The summary,    *)
(* the exit code and the JUnit file are computed by separate pieces of     *)
(* code from the same scenarios and findings; names, messages and          *)
(* latencies are left out.                                                 *)
(***************************************************************************)
EXTENDS Naturals, Sequences, FiniteSets

Level == {"PASS", "WARN", "FAIL"}
FailOn == {"fail", "warn"}

FindingName == {"no-redis-traffic", "cache-contract", "value-size", "ttl-policy", "audit"}

\* A scenario is its name, one of those given, and the verdicts of its probes,
\* in order; a finding is its name and its level.
ScenarioInput(names) == [name : names, probes : Seq(BOOLEAN)]
Finding == [name : FindingName, level : Level]

ScenarioPassed(scenario) == \A i \in DOMAIN scenario.probes : scenario.probes[i]

FailedScenarios(scenarios) ==
    {s \in DOMAIN scenarios : ~ScenarioPassed(scenarios[s])}

FindingsAt(findings, level) ==
    {f \in DOMAIN findings : findings[f].level = level}

\* Mutant: a failed scenario counts, a failed finding does not.
SummaryOfScenarios(scenarios, findings) ==
    LET failed == FailedScenarios(scenarios)
    IN  [passed   |-> Cardinality(DOMAIN scenarios \ failed),
         failed   |-> Cardinality(failed),
         warnings |-> Cardinality(FindingsAt(findings, "WARN"))]

Summary(scenarios, findings) ==
    LET failed == FailedScenarios(scenarios)
    IN  [passed   |-> Cardinality(DOMAIN scenarios \ failed),
         failed   |-> Cardinality(failed) + Cardinality(FindingsAt(findings, "FAIL")),
         warnings |-> Cardinality(FindingsAt(findings, "WARN"))]

BuildRunResult(scenarios, findings) ==
    [scenarios  |-> scenarios,
     findings   |-> findings,
     summary    |-> Summary(scenarios, findings),
     disposable |-> Summary(scenarios, findings).failed = 0]

ExitCodeForResult(result, failOn) ==
    IF \/ result.summary.failed > 0
       \/ failOn = "warn" /\ result.summary.warnings > 0
    THEN 1 ELSE 0

\* The cases WriteJUnit marks as failed: single probes, and findings that
\* fail or that warn under --fail-on warn.
FailedProbes(scenarios) ==
    UNION {{s} \X {p \in DOMAIN scenarios[s].probes : ~scenarios[s].probes[p]} :
           s \in DOMAIN scenarios}

\* Mutant: --fail-on is not looked at.
FailedFindingsOnly(findings, failOn) ==
    {f \in DOMAIN findings : findings[f].level = "FAIL"}

FailedFindings(findings, failOn) ==
    {f \in DOMAIN findings :
        \/ findings[f].level = "FAIL"
        \/ findings[f].level = "WARN" /\ failOn = "warn"}

JUnitFailures(result, failOn) ==
    Cardinality(FailedProbes(result.scenarios))
    + Cardinality(FailedFindings(result.findings, failOn))
=============================================================================
