---------------------------- MODULE ReportProofs ----------------------------
(***************************************************************************)
(* The summary, the exit code and the JUnit file agree with one another    *)
(* and with what was measured, for every outcome of a run.                 *)
(***************************************************************************)
EXTENDS Report, FiniteSetTheorems, TLAPS

AllPassed(scenarios) == \A s \in DOMAIN scenarios : ScenarioPassed(scenarios[s])

\* A finding of this level counts as a failure.
Counts(level, failOn) == level = "FAIL" \/ (level = "WARN" /\ failOn = "warn")

Clean(scenarios, findings, failOn) ==
    /\ AllPassed(scenarios)
    /\ \A f \in DOMAIN findings : ~Counts(findings[f].level, failOn)

-----------------------------------------------------------------------------
LEMMA DomainFinite == ASSUME NEW S, NEW seq \in Seq(S) PROVE IsFiniteSet(DOMAIN seq)
<1>1. DOMAIN seq = 1..Len(seq) /\ Len(seq) \in Nat
    OBVIOUS
<1>2. IsFiniteSet(1..Len(seq))
    BY <1>1, FS_Interval
<1> QED BY <1>1, <1>2

\* A count is zero when there is nothing to count.
LEMMA Positive ==
    ASSUME NEW S, IsFiniteSet(S)
    PROVE  /\ Cardinality(S) \in Nat
           /\ Cardinality(S) > 0 <=> S # {}
<1>1. Cardinality(S) \in Nat
    BY FS_CardinalityType
<1>2. Cardinality(S) = 0 <=> S = {}
    BY FS_EmptySet
<1> QED BY <1>1, <1>2

LEMMA FailedScenariosFinite ==
    ASSUME NEW names, NEW scenarios \in Seq(ScenarioInput(names))
    PROVE  IsFiniteSet(FailedScenarios(scenarios))
<1>1. IsFiniteSet(DOMAIN scenarios)
    BY DomainFinite
<1> QED BY <1>1, FS_Subset DEF FailedScenarios

LEMMA FindingsAtFinite ==
    ASSUME NEW findings \in Seq(Finding), NEW level
    PROVE  IsFiniteSet(FindingsAt(findings, level))
<1>1. IsFiniteSet(DOMAIN findings)
    BY DomainFinite
<1> QED BY <1>1, FS_Subset DEF FindingsAt

LEMMA FailedFindingsFinite ==
    ASSUME NEW findings \in Seq(Finding), NEW failOn
    PROVE  IsFiniteSet(FailedFindings(findings, failOn))
<1>1. IsFiniteSet(DOMAIN findings)
    BY DomainFinite
<1> QED BY <1>1, FS_Subset DEF FailedFindings

LEMMA FailedProbesFinite ==
    ASSUME NEW names, NEW scenarios \in Seq(ScenarioInput(names))
    PROVE  IsFiniteSet(FailedProbes(scenarios))
<1> DEFINE At(s) == {s} \X {p \in DOMAIN scenarios[s].probes : ~scenarios[s].probes[p]}
           D == DOMAIN scenarios
           T == {At(s) : s \in D}
           f == [s \in D |-> At(s)]
<1>1. IsFiniteSet(D)
    BY DomainFinite
<1>2. IsFiniteSet(T)
    <2>1. f \in Surjection(D, T)
        BY Zenon DEF Surjection
    <2> QED BY <1>1, <2>1, FS_Surjection, Zenon
<1>3. ASSUME NEW s \in D PROVE IsFiniteSet(At(s))
    <2>1. scenarios[s] \in ScenarioInput(names)
        OBVIOUS
    <2>2. scenarios[s].probes \in Seq(BOOLEAN)
        BY <2>1 DEF ScenarioInput
    <2>3. IsFiniteSet(DOMAIN scenarios[s].probes)
        BY <2>2, DomainFinite
    <2>4. IsFiniteSet({p \in DOMAIN scenarios[s].probes : ~scenarios[s].probes[p]})
        BY <2>3, FS_Subset
    <2>5. IsFiniteSet({s})
        BY FS_Singleton
    <2> QED BY <2>4, <2>5, FS_Product
<1>4. IsFiniteSet(UNION T)
    BY <1>2, <1>3, FS_UNION
<1> QED BY <1>4 DEF FailedProbes

-----------------------------------------------------------------------------
\* The summary has a failure exactly when a probe failed or a finding is FAIL.
LEMMA SummaryFailed ==
    ASSUME NEW names, NEW scenarios \in Seq(ScenarioInput(names)),
           NEW findings \in Seq(Finding)
    PROVE  /\ Summary(scenarios, findings).failed > 0 <=>
                \/ ~AllPassed(scenarios)
                \/ \E f \in DOMAIN findings : findings[f].level = "FAIL"
           /\ Summary(scenarios, findings).warnings > 0 <=>
                \E f \in DOMAIN findings : findings[f].level = "WARN"
<1> DEFINE failed == FailedScenarios(scenarios)
           fails  == FindingsAt(findings, "FAIL")
           warns  == FindingsAt(findings, "WARN")
<1>1. /\ Cardinality(failed) \in Nat /\ (Cardinality(failed) > 0 <=> failed # {})
      /\ Cardinality(fails) \in Nat /\ (Cardinality(fails) > 0 <=> fails # {})
      /\ Cardinality(warns) \in Nat /\ (Cardinality(warns) > 0 <=> warns # {})
    <2> HIDE DEF failed, fails, warns
    <2>1. IsFiniteSet(failed) /\ IsFiniteSet(fails) /\ IsFiniteSet(warns)
        BY FailedScenariosFinite, FindingsAtFinite DEF failed, fails, warns
    <2> QED BY <2>1, Positive
<1>2. /\ Summary(scenarios, findings).failed = Cardinality(failed) + Cardinality(fails)
      /\ Summary(scenarios, findings).warnings = Cardinality(warns)
    BY DEF Summary
<1>3. /\ failed # {} <=> ~AllPassed(scenarios)
      /\ fails # {} <=> \E f \in DOMAIN findings : findings[f].level = "FAIL"
      /\ warns # {} <=> \E f \in DOMAIN findings : findings[f].level = "WARN"
    BY DEF FailedScenarios, FindingsAt, AllPassed
<1> HIDE DEF failed, fails, warns
<1> QED BY <1>1, <1>2, <1>3

\* The exit code is 0 exactly for a run in which every probe passed and no
\* finding counts under --fail-on; else it is 1.
THEOREM ExitCodeMeans ==
    ASSUME NEW names, NEW scenarios \in Seq(ScenarioInput(names)),
           NEW findings \in Seq(Finding),
           NEW failOn \in FailOn
    PROVE  ExitCodeForResult(BuildRunResult(scenarios, findings), failOn)
            = IF Clean(scenarios, findings, failOn) THEN 0 ELSE 1
<1>1. BuildRunResult(scenarios, findings).summary = Summary(scenarios, findings)
    BY DEF BuildRunResult
<1> QED BY <1>1, SummaryFailed DEF ExitCodeForResult, Clean, Counts, FailOn

\* The JUnit file marks a case as failed exactly when the exit code is 1,
\* although it counts probes where the summary counts scenarios.
THEOREM JUnitAgreesWithExitCode ==
    ASSUME NEW names, NEW scenarios \in Seq(ScenarioInput(names)),
           NEW findings \in Seq(Finding),
           NEW failOn \in FailOn
    PROVE  JUnitFailures(BuildRunResult(scenarios, findings), failOn) > 0
            <=> ExitCodeForResult(BuildRunResult(scenarios, findings), failOn) = 1
<1> DEFINE pf == FailedProbes(scenarios)
           ff == FailedFindings(findings, failOn)
<1>1. /\ Cardinality(pf) \in Nat /\ (Cardinality(pf) > 0 <=> pf # {})
      /\ Cardinality(ff) \in Nat /\ (Cardinality(ff) > 0 <=> ff # {})
    <2> HIDE DEF pf, ff
    <2>1. IsFiniteSet(pf) /\ IsFiniteSet(ff)
        BY FailedProbesFinite, FailedFindingsFinite DEF pf, ff
    <2> QED BY <2>1, Positive
<1>2. JUnitFailures(BuildRunResult(scenarios, findings), failOn)
        = Cardinality(pf) + Cardinality(ff)
    BY DEF JUnitFailures, BuildRunResult
<1>3. pf # {} <=> ~AllPassed(scenarios)
    <2>1. ASSUME NEW s \in DOMAIN scenarios, NEW p \in DOMAIN scenarios[s].probes
          PROVE  <<s, p>> \in pf <=> ~scenarios[s].probes[p]
        BY DEF FailedProbes
    <2>2. \A x \in pf : \E s \in DOMAIN scenarios : \E p \in DOMAIN scenarios[s].probes :
                x = <<s, p>>
        BY DEF FailedProbes
    <2> HIDE DEF pf
    <2>3. ASSUME pf # {} PROVE ~AllPassed(scenarios)
        <3>1. PICK x : x \in pf
            BY <2>3, Zenon
        <3>2. PICK s \in DOMAIN scenarios : \E p \in DOMAIN scenarios[s].probes : x = <<s, p>>
            BY <2>2, <3>1, Zenon
        <3>3. PICK p \in DOMAIN scenarios[s].probes : x = <<s, p>>
            BY <3>2
        <3>4. ~scenarios[s].probes[p]
            BY <2>1, <3>1, <3>3, Zenon
        <3> QED BY <3>4, Zenon DEF AllPassed, ScenarioPassed
    <2>4. ASSUME ~AllPassed(scenarios) PROVE pf # {}
        <3>1. PICK s \in DOMAIN scenarios : \E p \in DOMAIN scenarios[s].probes :
                ~scenarios[s].probes[p]
            BY <2>4, Zenon DEF AllPassed, ScenarioPassed
        <3> QED BY <2>1, <3>1, Zenon
    <2> QED BY <2>3, <2>4
<1>4. ff # {} <=> \E f \in DOMAIN findings : Counts(findings[f].level, failOn)
    BY DEF FailedFindings, Counts
<1> HIDE DEF pf, ff
<1> QED BY <1>1, <1>2, <1>3, <1>4, ExitCodeMeans DEF Clean
=============================================================================
