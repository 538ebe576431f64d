--------------------------- MODULE CommandsProofs ---------------------------
(***************************************************************************)
(* Commands, for all command lines, configuration files and apps.          *)
(***************************************************************************)
EXTENDS Commands, TLAPS

-----------------------------------------------------------------------------
(* The inductive invariant. *)

Accepted == Validate(doc, cfg, allowUnsafe)
Prepared == {"load", "dial", "start", "compile"}
Resetting == {"reset", "resetting"}
Probing == {"http", "command", "running", "judge"}
Ending == {"shutdown", "exited"}

\* Only an accepted file gets past Load.
AcceptedInv ==
    /\ pc \notin {"load", "exited"} => Accepted
    /\ pc = "load" => ~proxyUp

\* The phases before the one under way are complete; those after it, and those
\* that --only skips, are empty.
DoneInv ==
    \A k \in 0..Len(doc.scenarios) :
        /\ k \notin Phases \/ k > cur => measured[k] = <<>>
        /\ k \in Phases /\ k < cur => Len(measured[k]) = Len(doc.probes)

\* How far the phase under way is at each place.
PlaceInv ==
    /\ Len(current) <= Len(doc.probes)
    /\ pc \in Probing /\ ~Warming => Len(current) < Len(doc.probes)
    /\ pc \in Prepared \cup Resetting \cup {"prepare", "wait"} => current = <<>>
    /\ pc \in Probing \cup {"probe"} /\ Warming => current = <<>>
    /\ pc = "wait" => tries < cfg["warmup_retries"]

\* Nothing is measured before the probes, and nothing on a configuration error.
FreshInv ==
    pc \in Prepared \/ cause = "config" =>
        result = NewResult /\ \A k \in DOMAIN measured : measured[k] = <<>>

\* No phase and no probe is left.
Complete == Remaining = {} /\ Len(current) = Len(doc.probes)

\* What the cause stands for once the command is on its way out.
CauseInv ==
    /\ pc \notin Ending => cause = "none"
    /\ pc = "exited" \/ (pc = "verdict" /\ command = "test") => ~proxyUp
    /\ pc = "audit" => command = "test"
    /\ pc \in {"audit", "verdict"} => Complete
    /\ pc \in Ending /\ cause \in {"none", "failed"} => Complete
    /\ pc = "shutdown" /\ command = "test" => cause # "failed"
    /\ pc = "exited" \/ (pc = "shutdown" /\ command = "doctor") =>
        /\ cause = "none" => AllPassed /\ ~Found
        /\ cause = "failed" => ~(AllPassed /\ ~Found)

\* A probe that reaches its verdict without an error was answered.
RanInv ==
    /\ pc = "http" => ~runErr
    /\ pc = "command" /\ probe.http = "valid" /\ ~runErr => result.answered
    /\ pc = "judge" /\ ~runErr => result.answered

IInv ==
    /\ TypeOK /\ AcceptedInv /\ DoneInv /\ PlaceInv /\ FreshInv /\ CauseInv
    /\ RanInv /\ PassMeansRan /\ PassMeansSame

-----------------------------------------------------------------------------
(* Sequences of measurements. *)

\* The elements of a sequence that was appended to.
LEMMA AppendElements ==
    ASSUME NEW S, NEW s \in Seq(S), NEW r \in S, NEW i \in DOMAIN Append(s, r)
    PROVE  \/ i = Len(s) + 1 /\ Append(s, r)[i] = r
           \/ i \in DOMAIN s /\ Append(s, r)[i] = s[i]
OBVIOUS

-----------------------------------------------------------------------------
(* What Validate promises. *)

LEMMA DocumentType ==
    ASSUME NEW d \in Document
    PROVE  /\ d.probes \in Seq(Probe) /\ Len(d.probes) \in Nat
           /\ DOMAIN d.probes = 1..Len(d.probes)
           /\ d.scenarios \in Seq(Scenario) /\ Len(d.scenarios) \in Nat
<1>1. d.probes \in Seq(Probe) /\ d.scenarios \in Seq(Scenario)
    BY DEF Document
<1>. QED BY <1>1

\* Each probe has an HTTP request that can be built or a command that may run.
LEMMA AcceptedProbe ==
    ASSUME Accepted, NEW i \in DOMAIN doc.probes
    PROVE  /\ doc.probes[i].http # "malformed"
           /\ (doc.probes[i].http = "none") # (doc.probes[i].command = "none")
           /\ doc.probes[i].command # "none" =>
                doc.probes[i].command = "argv" \/ (doc.probes[i].command = "shell" /\ allowUnsafe)
BY DEF Accepted, Validate, TagsHold, ProbeValid, CommandValid

\* No two probes have the same name, and no two scenarios.
LEMMA AcceptedNames ==
    ASSUME Accepted
    PROVE  /\ \A i, j \in DOMAIN doc.probes :
                doc.probes[i].name = doc.probes[j].name => i = j
           /\ \A i, j \in DOMAIN doc.scenarios :
                doc.scenarios[i].name = doc.scenarios[j].name => i = j
BY DEF Accepted, Validate, UniqueNames

\* Every setting in force is a number.
LEMMA SettingType ==
    ASSUME TypeOK
    PROVE  \A s \in Setting : cfg[s] \in Int
<1>1. \A s \in Setting : DefaultOf[s] \in Int
    BY DEF DefaultOf, Setting
<1>2. \A s \in Setting : Decoded(doc, s) \in Int
    <2>1. doc.written \in [Setting -> Int \cup {Absent}]
        BY DEF TypeOK, Document
    <2>. QED BY <2>1 DEF Decoded
<1>. QED BY <1>1, <1>2 DEF cfg, ApplyDefaults

\* What was accepted is what AcceptedRuns says of it.
LEMMA AcceptedMeans == TypeOK /\ AcceptedInv => AcceptedRuns
<1>. SUFFICES ASSUME TypeOK, AcceptedInv, pc \notin {"load", "exited"}
              PROVE  AcceptedRuns
    BY DEF AcceptedRuns
<1>0. Accepted /\ doc \in Document
    BY DEF AcceptedInv, TypeOK
<1>1. /\ TagsHold(doc, cfg)
      /\ \A i \in DOMAIN doc.scenarios : ScenarioValid(doc, cfg, doc.scenarios[i])
      /\ \A i \in DOMAIN doc.probes : ProbeValid(doc, doc.probes[i], allowUnsafe)
      /\ doc.reset # "none" => CommandValid(doc.reset, allowUnsafe)
    BY <1>0 DEF Accepted, Validate
<1>2. doc.probes # <<>>
    <2>1. Len(doc.probes) >= 1
        BY <1>1 DEF TagsHold
    <2>. QED BY <2>1
<1>3. \A i, j \in DOMAIN doc.probes : i # j => doc.probes[i].name # doc.probes[j].name
    BY <1>0, AcceptedNames
<1>4. \A i \in DOMAIN doc.scenarios :
        /\ doc.scenarios[i].name \notin LikeBaseline
        /\ \A j \in DOMAIN doc.scenarios \ {i} :
            doc.scenarios[i].name # doc.scenarios[j].name
        /\ doc.scenarios[i].type \in Preparable
        /\ doc.scenarios[i].type = "cold_cache" =>
            /\ doc.allowKeyDeletes
            /\ \A k \in DOMAIN doc.profiles :
                doc.profiles[k].disposable =>
                    \A pattern \in doc.profiles[k].patterns : DeletePatternValid(pattern)
    <2>1. ASSUME NEW i \in DOMAIN doc.scenarios
          PROVE  /\ doc.scenarios[i].name \notin LikeBaseline
                 /\ doc.scenarios[i].type \in Preparable
                 /\ doc.scenarios[i].type = "cold_cache" =>
                    doc.allowKeyDeletes /\ PatternsDeletable(doc, cfg["min_delete_prefix"])
        <3>1. ScenarioValid(doc, cfg, doc.scenarios[i])
            BY <1>1
        <3>2. doc.scenarios[i].type \in Preparable
            BY <1>1 DEF TagsHold, Preparable
        <3>. QED BY <3>1, <3>2 DEF ScenarioValid
    <2>2. PatternsDeletable(doc, cfg["min_delete_prefix"]) =>
            \A k \in DOMAIN doc.profiles :
                doc.profiles[k].disposable =>
                    \A pattern \in doc.profiles[k].patterns : DeletePatternValid(pattern)
        BY DEF PatternsDeletable, ValidateDeletePattern, DeletePatternValid
    <2>. QED BY <1>0, <2>1, <2>2, AcceptedNames
<1>5. /\ cfg["warmup_retries"] >= 0 /\ cfg["max_keys_delete"] > 0
      /\ cfg["max_keys_scanned"] > 0 /\ cfg["max_value_bytes"] > 0
    <2>1. /\ cfg["max_keys_delete"] >= 1 /\ cfg["max_keys_scanned"] >= 1
          /\ cfg["max_value_bytes"] >= 1 /\ cfg["warmup_retries"] \in 0..10
        BY <1>1 DEF TagsHold, Required
    <2>2. {"warmup_retries", "max_keys_delete", "max_keys_scanned", "max_value_bytes"}
            \subseteq Setting
        BY DEF Setting, DefaultOf
    <2>. QED BY <2>1, <2>2, SettingType
<1>6. \A i \in DOMAIN doc.probes :
        \/ doc.probes[i].http = "valid" /\ doc.probes[i].command = "none"
        \/ doc.probes[i].http = "none" /\ doc.probes[i].command \in {"argv", "shell"}
    <2>1. ASSUME NEW i \in DOMAIN doc.probes
          PROVE  \/ doc.probes[i].http = "valid" /\ doc.probes[i].command = "none"
                 \/ doc.probes[i].http = "none" /\ doc.probes[i].command \in {"argv", "shell"}
        <3>1. doc.probes[i] \in Probe
            BY <1>0, DocumentType
        <3>2. doc.probes[i].http \in {"none", "valid", "malformed"}
            BY <3>1 DEF Probe
        <3>3. doc.probes[i].http # "malformed"
            BY <1>1 DEF TagsHold
        <3>4. ProbeValid(doc, doc.probes[i], allowUnsafe)
            BY <1>1
        <3>. QED BY <3>2, <3>3, <3>4 DEF ProbeValid, CommandValid
    <2>. QED BY <2>1
<1>7. doc.reset \in {"none", "argv", "shell"}
    BY <1>1 DEF CommandValid
<1>8. ~allowUnsafe =>
        "shell" \notin {doc.reset} \cup {doc.probes[i].command : i \in DOMAIN doc.probes}
    BY <1>1 DEF CommandValid, ProbeValid
<1>9. \A s \in Setting :
        doc.written[s] # Absent /\ (s \in doc.inPlace \/ doc.written[s] # 0)
            => cfg[s] = doc.written[s]
    BY <1>0 DEF cfg, ApplyDefaults, Decoded, HasYAMLKey, Document
<1>. QED BY <1>2, <1>3, <1>4, <1>5, <1>6, <1>7, <1>8, <1>9 DEF AcceptedRuns

-----------------------------------------------------------------------------
(* Results. *)

\* Every result is one.
LEMMA ResultType ==
    ASSUME NEW r \in Result
    PROVE  /\ NewResult \in Result
           /\ \A f \in Failure : FailsWith(r, f) \in Result
           /\ \A a \in Responses :
                Answered(r, a.status, a.body, a.latency, a.oversize) \in Result
           /\ \A e \in Exits : Exited(r, e.code, e.latency, TRUE) \in Result
<1>1. NoBody \in Body
    BY DEF NoBody, Body
<1>2. NewResult \in Result
    BY <1>1 DEF NewResult, Result
<1>3. \A q \in Result, f \in Failure : FailsWith(q, f) \in Result
    BY DEF FailsWith, Result
<1>4. ASSUME NEW a \in Responses
      PROVE  Answered(r, a.status, a.body, a.latency, a.oversize) \in Result
    <2>1. a.status \in Nat /\ a.body \in Body /\ a.latency \in Nat
        BY ResponsesAssumption
    <2>2. [r EXCEPT !.status = a.status, !.latency = a.latency, !.answered = TRUE] \in Result
        BY <2>1 DEF Result
    <2>3. [[r EXCEPT !.status = a.status, !.latency = a.latency, !.answered = TRUE]
                EXCEPT !.body = a.body] \in Result
        BY <2>1, <2>2 DEF Result
    <2>. QED BY <1>3, <2>2, <2>3 DEF Answered, Failure
<1>5. ASSUME NEW e \in Exits
      PROVE  Exited(r, e.code, e.latency, TRUE) \in Result
    <2>1. e \in [code : -1..255, latency : Nat]
        BY ExitsAssumption
    <2>2. e.code \in Int /\ e.latency \in Nat
        BY <2>1
    <2>. QED BY <2>2 DEF Exited, Result
<1>. QED BY <1>2, <1>3, <1>4, <1>5

\* A verdict changes nothing but itself and the failures, and a probe that
\* passes without being expected to fail has the values of its baseline.
LEMMA JudgedFacts ==
    ASSUME NEW r \in Result, NEW q, NEW base
    PROVE  /\ Judged(q, base, r) \in Result
           /\ Judged(q, base, r).answered = r.answered
           /\ Judged(q, base, r).body = r.body
           /\ Judged(q, base, r).passed /\ q.expect # "fail" =>
                \A b \in base : \A j \in DOMAIN q.equals :
                    r.body.at[q.equals[j]] = b.body.at[q.equals[j]]
<1>. DEFINE fs == r.failures \cup FailedAssertions(q, base, r)
            ok == (fs # {}) = (q.expect = "fail")
            gs == IF q.expect = "fail" /\ ~ok THEN {"unmet"} ELSE fs
<1>1. Judged(q, base, r) = [r EXCEPT !.passed = ok, !.failures = gs]
    BY DEF Judged
<1>2. ok \in BOOLEAN /\ gs \in SUBSET Failure
    BY DEF FailedAssertions, Failure, Result
<1>3. ASSUME ok, q.expect # "fail", NEW b \in base, NEW j \in DOMAIN q.equals
      PROVE  r.body.at[q.equals[j]] = b.body.at[q.equals[j]]
    <2>1. "equals" \notin FailedAssertions(q, base, r)
        BY <1>3
    <2>. QED BY <2>1, <1>3 DEF FailedAssertions, Failure, CompareGJSON
<1>. HIDE DEF ok, gs
<1>4. /\ Judged(q, base, r) \in Result
      /\ Judged(q, base, r).answered = r.answered
      /\ Judged(q, base, r).body = r.body
      /\ Judged(q, base, r).passed = ok
    BY <1>1, <1>2 DEF Result
<1>. QED BY <1>3, <1>4

-----------------------------------------------------------------------------
(* Types, and what stays as it is. *)

\* The command line and the file stay as they are.
LEMMA InputStays == [Next]_vars => UNCHANGED <<input, cfg, Phases>>
<1>1. [Next]_vars => UNCHANGED input
    BY DEF Next, Proceed, vars, Advance, Fails, Load, Dial, Start, CompileSchemas, NotReady,
       At, ResetDone, NoReset, StartReset, ResetUnstartable, ResetEnds, Begin,
       HTTPReturns, NoHTTP, HTTPAnswers, HTTPErrs, CommandReturns, NoCommand,
       StartCommand, Unstartable, CommandEnds, PipeClosed, WarmupAnswered, WarmupErrs,
       Wait, WarmupFails, Judge, OutputFails, ProbeErrs, Prepare, NotPrepared,
       PhaseMeasured, NextScenario, PhasesDone, Audit, Verdict, VerdictFails, Shutdown,
       Deadline, Cancel, Traffic, input
<1>2. UNCHANGED input => UNCHANGED <<cfg, Phases>>
    BY DEF input, cfg, Phases, Chosen
<1>. QED BY <1>1, <1>2

\* Only verdicts change what is measured.
LEMMA MeasuredChanges ==
    ASSUME command \in {"doctor", "test"}, [Next]_vars
    PROVE  \/ UNCHANGED measured
           \/ /\ pc = "judge" /\ ~runErr /\ ~Warming /\ Record /\ UNCHANGED place
              /\ pc' \in {"probe", "shutdown"}
BY DEF Next, Proceed, vars, Advance, Fails, Load, Dial, Start, CompileSchemas, NotReady,
       At, ResetDone, NoReset, StartReset, ResetUnstartable, ResetEnds, Begin,
       HTTPReturns, NoHTTP, HTTPAnswers, HTTPErrs, CommandReturns, NoCommand,
       StartCommand, Unstartable, CommandEnds, PipeClosed, WarmupAnswered, WarmupErrs,
       Wait, WarmupFails, Judge, OutputFails, ProbeErrs, Prepare, NotPrepared,
       PhaseMeasured, NextScenario, PhasesDone, Audit, Verdict, VerdictFails, Shutdown,
       Deadline, Cancel, Traffic, running, place, Warming

\* What TypeOK says of the measurements.
LEMMA MeasuredType ==
    ASSUME TypeOK
    PROVE  /\ Len(doc.scenarios) \in Nat /\ DOMAIN doc.scenarios = 1..Len(doc.scenarios)
           /\ Len(doc.probes) \in Nat /\ DOMAIN doc.probes = 1..Len(doc.probes)
           /\ cur \in 0..Len(doc.scenarios) /\ Phases \subseteq 0..Len(doc.scenarios)
           /\ measured \in [0..Len(doc.scenarios) -> Seq(Result)]
           /\ current \in Seq(Result) /\ Len(current) \in Nat
           /\ warmed \in 0..Len(doc.probes) /\ tries \in Nat
<1>1. /\ Len(doc.scenarios) \in Nat /\ DOMAIN doc.scenarios = 1..Len(doc.scenarios)
      /\ Len(doc.probes) \in Nat /\ DOMAIN doc.probes = 1..Len(doc.probes)
    BY DocumentType DEF TypeOK
<1>2. Phases \subseteq 0..Len(doc.scenarios)
    BY <1>1 DEF Phases
<1>3. cur \in 0..Len(doc.scenarios) /\ measured \in [0..Len(doc.scenarios) -> Seq(Result)]
    BY <1>2 DEF TypeOK
<1>4. current \in Seq(Result)
    BY <1>3 DEF current
<1>. QED BY <1>1, <1>2, <1>3, <1>4 DEF TypeOK

LEMMA InitIInv == Init => IInv
<1>. SUFFICES ASSUME Init PROVE IInv
    OBVIOUS
<1>1. /\ pc = "load" /\ cause = "none" /\ result = NewResult /\ proxyUp = FALSE
      /\ cur = 0 /\ warmed = 0 /\ tries = 0
      /\ measured = [k \in 0..Len(doc.scenarios) |-> <<>>]
    BY DEF Init
<1>2. /\ command \in {"doctor", "test"} /\ allowUnsafe \in BOOLEAN /\ only \in STRING
      /\ noWarmup \in BOOLEAN /\ doc \in Document
    BY InvocationsAssumption DEF Init
<1>3. TypeOK
    <2>1. Len(doc.scenarios) \in Nat /\ Len(doc.probes) \in Nat
        BY <1>2, DocumentType
    <2>2. NewResult \in Result
        BY DEF NewResult, Result, NoBody, Body
    <2>3. measured \in [0..Len(doc.scenarios) -> Seq(Result)]
        BY <1>1
    <2>4. /\ ctxDone \in BOOLEAN /\ expired \in BOOLEAN /\ runErr \in BOOLEAN
          /\ held \in BOOLEAN /\ proxyUp \in BOOLEAN /\ traffic \in BOOLEAN
          /\ finding \in BOOLEAN
        BY DEF Init
    <2>5. pc \in Places /\ cause \in Causes /\ cur \in Phases
        BY <1>1 DEF Places, Causes, Phases
    <2>6. warmed \in 0..Len(doc.probes) /\ tries \in Nat /\ ~(tries > 0)
        BY <1>1, <2>1
    <2>7. result \in Result
        BY <1>1, <2>2
    <2>. QED BY <1>2, <2>3, <2>4, <2>5, <2>6, <2>7 DEF TypeOK
<1>4. \A k \in DOMAIN measured : measured[k] = <<>>
    BY <1>1
<1>5. current = <<>> /\ Len(doc.probes) \in Nat
    BY <1>1, <1>3, MeasuredType DEF current
<1>6. DoneInv
    <2>. SUFFICES ASSUME NEW k \in 0..Len(doc.scenarios)
                  PROVE  measured[k] = <<>> /\ ~(k < cur)
        BY DEF DoneInv
    <2>. QED BY <1>1, <1>3, MeasuredType
<1>7. AcceptedInv /\ PlaceInv /\ FreshInv /\ CauseInv /\ RanInv
    BY <1>1, <1>4, <1>5
       DEF AcceptedInv, PlaceInv, FreshInv, CauseInv, RanInv, Probing, Ending
<1>8. PassMeansRan /\ PassMeansSame
    <2>1. \A k \in DOMAIN measured : DOMAIN measured[k] = {}
        <3>1. DOMAIN <<>> = {}
            OBVIOUS
        <3>. QED BY <1>4, <3>1
    <2>. QED BY <2>1, Zenon DEF PassMeansRan, PassMeansSame
<1>. QED BY <1>3, <1>6, <1>7, <1>8 DEF IInv

-----------------------------------------------------------------------------
(* The verdict of a probe. *)

\* What a verdict adds to the measurements.
LEMMA Recorded ==
    ASSUME IInv, pc = "judge", ~runErr, ~Warming, Record, UNCHANGED <<input, cur>>
    PROVE  /\ measured' \in [0..Len(doc.scenarios) -> Seq(Result)]
           /\ \A k \in 0..Len(doc.scenarios) : k # cur => measured'[k] = measured[k]
           /\ Len(current') = Len(current) + 1
           /\ PassMeansRan' /\ PassMeansSame'
<1>. DEFINE r == Judged(probe, Baseline, result)
            n == Len(doc.scenarios)
            i == Len(current) + 1
<1>0. TypeOK /\ DoneInv /\ PlaceInv /\ RanInv /\ Accepted
    BY DEF IInv, AcceptedInv
<1>1. /\ n \in Nat /\ measured \in [0..n -> Seq(Result)] /\ cur \in 0..n
      /\ current \in Seq(Result) /\ Len(current) \in Nat
      /\ Len(doc.probes) \in Nat /\ DOMAIN doc.probes = 1..Len(doc.probes)
      /\ result \in Result
    BY <1>0, MeasuredType DEF TypeOK
<1>2. /\ r \in Result /\ r.answered = result.answered /\ r.body = result.body
      /\ r.passed /\ probe.expect # "fail" =>
            \A b \in Baseline : \A j \in DOMAIN probe.equals :
                result.body.at[probe.equals[j]] = b.body.at[probe.equals[j]]
    BY <1>1, JudgedFacts
<1>. HIDE DEF r
<1>3. /\ measured' \in [0..n -> Seq(Result)]
      /\ current' = Append(current, r)
      /\ \A k \in 0..n : k # cur => measured'[k] = measured[k]
    <2>1. measured' = [measured EXCEPT ![cur] = Append(current, r)]
        BY DEF Record, r, current
    <2>2. Append(current, r) \in Seq(Result)
        BY <1>1, <1>2
    <2>. QED BY <1>1, <2>1, <2>2 DEF current
<1>4. Len(current') = i /\ i \in Nat
    BY <1>1, <1>2, <1>3
<1>5. i \in 1..Len(doc.probes) /\ probe = doc.probes[i]
    <2>1. Len(current) < Len(doc.probes)
        BY <1>0 DEF PlaceInv, Probing
    <2>. QED BY <2>1, <1>1, <1>4 DEF probe
<1>6. ASSUME NEW k \in DOMAIN measured', NEW l \in DOMAIN measured'[k]
      PROVE  \/ /\ k \in DOMAIN measured /\ l \in DOMAIN measured[k]
                /\ measured'[k][l] = measured[k][l]
             \/ k = cur /\ l = i /\ measured'[k][l] = r
    <2>1. k \in 0..n
        BY <1>3
    <2>2. CASE k # cur
        BY <1>1, <1>3, <2>1, <2>2
    <2>3. CASE k = cur
        <3>1. measured'[k] = Append(current, r) /\ measured[k] = current
            BY <2>3, <1>3 DEF current
        <3>2. l \in DOMAIN Append(current, r)
            BY <3>1
        <3>3. \/ l = i /\ Append(current, r)[l] = r
              \/ l \in DOMAIN current /\ Append(current, r)[l] = current[l]
            BY <3>2, <1>1, <1>2, AppendElements
        <3>. QED BY <2>1, <2>3, <3>1, <3>3, <1>1
    <2>. QED BY <2>2, <2>3
<1>7. PassMeansRan'
    <2>1. result.answered
        BY <1>0 DEF RanInv
    <2>. SUFFICES ASSUME NEW k \in DOMAIN measured', NEW l \in DOMAIN measured'[k],
                         measured'[k][l].passed
                  PROVE  measured'[k][l].answered
        BY DEF PassMeansRan
    <2>. QED BY <1>2, <1>6, <2>1 DEF IInv, PassMeansRan
<1>8. ASSUME cur # 0
      PROVE  Baseline = {measured[0][i]}
    <2>1. {k \in DOMAIN doc.probes : doc.probes[k].name = probe.name} = {i}
        BY <1>0, <1>1, <1>5, AcceptedNames
    <2>2. {m \in {i} : \A other \in {i} : other <= m} = {i}
        BY <1>4
    <2>. QED BY <1>8, <2>1, <2>2 DEF Baseline
<1>9. ASSUME NEW k \in DOMAIN measured', k # 0
      PROVE  k \in 0..n /\ (cur = 0 => DOMAIN measured'[k] = {})
    <2>1. k \in 0..n
        BY <1>3
    <2>2. cur = 0 => k > cur /\ k # cur
        BY <1>1, <1>9, <2>1
    <2>3. cur = 0 => measured'[k] = <<>>
        BY <1>0, <1>3, <2>1, <2>2 DEF DoneInv
    <2>4. DOMAIN <<>> = {}
        OBVIOUS
    <2>. QED BY <2>1, <2>3, <2>4
<1>10. cur # 0 => measured'[0] = measured[0]
    BY <1>1, <1>3
<1>11. PassMeansSame'
    <2>. SUFFICES ASSUME NEW k \in DOMAIN measured' \ {0}, NEW l \in DOMAIN measured'[k],
                         measured'[k][l].passed, doc.probes[l].expect # "fail",
                         NEW j \in DOMAIN doc.probes[l].equals,
                         measured'[0][l].body.at[doc.probes[l].equals[j]] # Missing
                  PROVE  measured'[k][l].body.at[doc.probes[l].equals[j]]
                            = measured'[0][l].body.at[doc.probes[l].equals[j]]
        BY DEF PassMeansSame, input
    <2>1. cur # 0
        BY <1>9, Zenon
    <2>2. measured'[0] = measured[0]
        BY <1>10, <2>1, Zenon
    <2>3. CASE k \in DOMAIN measured /\ l \in DOMAIN measured[k] /\ measured'[k][l] = measured[k][l]
        <3>1. k \in DOMAIN measured \ {0} /\ measured[k][l].passed
            BY <2>3
        <3>2. measured[k][l].body.at[doc.probes[l].equals[j]]
                = measured[0][l].body.at[doc.probes[l].equals[j]]
            <4>1. PassMeansSame
                BY DEF IInv
            <4>2. measured[0][l].body.at[doc.probes[l].equals[j]] # Missing
                BY <2>2
            <4>. QED BY <2>3, <3>1, <4>1, <4>2 DEF PassMeansSame
        <3>. QED BY <2>2, <2>3, <3>2
    <2>4. CASE l = i /\ measured'[k][l] = r
        <3>1. probe = doc.probes[l]
            BY <1>5, <2>4
        <3>2. probe.expect # "fail" /\ r.passed /\ j \in DOMAIN probe.equals
            BY <2>4, <3>1
        <3>3. result.body.at[probe.equals[j]] = measured[0][i].body.at[probe.equals[j]]
            BY <3>2, <2>1, <1>2, <1>8
        <3>. QED BY <3>1, <3>3, <2>2, <2>4, <1>2
    <2>. QED BY <2>3, <2>4, <1>6
<1>. QED BY <1>3, <1>4, <1>7, <1>11

\* The verdicts of measured probes.
LEMMA VerdictsStep == IInv /\ [Next]_vars => PassMeansRan' /\ PassMeansSame'
<1>. SUFFICES ASSUME IInv, [Next]_vars PROVE PassMeansRan' /\ PassMeansSame'
    OBVIOUS
<1>0. UNCHANGED input /\ PassMeansRan /\ PassMeansSame /\ command \in {"doctor", "test"}
    BY InputStays DEF IInv, TypeOK
<1>1. CASE UNCHANGED measured
    <2>1. PassMeansRan'
        BY <1>0, <1>1 DEF PassMeansRan
    <2>2. PassMeansSame' = PassMeansSame
        <3>1. doc' = doc /\ measured' = measured
            BY <1>0, <1>1 DEF input
        <3>. QED BY <3>1 DEF PassMeansSame
    <2>. QED BY <1>0, <2>1, <2>2
<1>2. CASE pc = "judge" /\ ~runErr /\ ~Warming /\ Record /\ UNCHANGED place
    BY <1>0, <1>2, Recorded DEF place
<1>. QED BY <1>0, <1>1, <1>2, MeasuredChanges

-----------------------------------------------------------------------------
(* The steps. *)

\* Where an advance leads to.
LEMMA AdvanceGoes ==
    ASSUME command \in {"doctor", "test"}, NEW from \in Prepared, Advance(from)
    PROVE  \/ pc' \in {"dial", "start", "compile"}
           \/ pc' = "probe" /\ command = "doctor"
           \/ pc' = "reset" /\ command = "test"
<1>1. PICK k \in 1..4 : pc' = Steps[command][k + 1]
    BY DEF Advance
<1>2. k \in {1, 2, 3, 4}
    OBVIOUS
<1>. QED BY <1>1, <1>2 DEF Steps

\* A file that was accepted stays so.
LEMMA AcceptedStep == IInv /\ [Next]_vars => AcceptedInv'
<1>. SUFFICES ASSUME IInv, [Next]_vars PROVE AcceptedInv'
    OBVIOUS
<1>0. AcceptedInv /\ command \in {"doctor", "test"}
    BY DEF IInv, TypeOK
<1>1. Accepted' = Accepted
    BY InputStays DEF input, Accepted
<1>2. CASE Load
    <2>1. pc' # "load" /\ Accepted
        BY <1>0, <1>2, AdvanceGoes DEF Load, Prepared, Accepted
    <2>. QED BY <1>1, <2>1 DEF AcceptedInv
<1>3. CASE Dial \/ Start \/ CompileSchemas
    <2>1. PICK from \in {"dial", "start", "compile"} : Advance(from)
        BY <1>3 DEF Dial, Start, CompileSchemas
    <2>2. pc \in {"dial", "start", "compile"} /\ pc' # "load"
        BY <1>0, <2>1, AdvanceGoes DEF Prepared, Advance
    <2>. QED BY <1>0, <1>1, <2>2 DEF AcceptedInv
<1>4. CASE ~(Load \/ Dial \/ Start \/ CompileSchemas)
    <2>1. /\ pc' \notin {"load", "exited"} => pc \notin {"load", "exited"} \/ proxyUp
          /\ pc' = "load" => pc = "load" /\ proxyUp' = proxyUp
          /\ pc = "exited" => pc' = "exited"
        BY <1>4
           DEF Next, Proceed, vars, Fails, NotReady, At, ResetDone, NoReset, StartReset,
           ResetUnstartable, ResetEnds, Begin, HTTPReturns, NoHTTP, HTTPAnswers, HTTPErrs,
           CommandReturns, NoCommand, StartCommand, Unstartable, CommandEnds, PipeClosed,
           WarmupAnswered, WarmupErrs, Wait, WarmupFails, Judge, OutputFails, ProbeErrs,
           Prepare, NotPrepared, PhaseMeasured, NextScenario, PhasesDone, Audit, Verdict,
           VerdictFails, Shutdown, Deadline, Cancel, Traffic
    <2>. QED BY <1>0, <1>1, <2>1 DEF AcceptedInv
<1>. QED BY <1>2, <1>3, <1>4

\* Nothing is measured on the way to the probes.
LEMMA FreshStep == IInv /\ [Next]_vars => FreshInv'
<1>. SUFFICES ASSUME IInv, [Next]_vars PROVE FreshInv'
    OBVIOUS
<1>0. /\ FreshInv /\ command \in {"doctor", "test"} /\ CauseInv
      /\ pc \notin {"load", "exited"} => Accepted
    BY DEF IInv, TypeOK, AcceptedInv
<1>1. ASSUME pc = "prepare" /\ cur > 0
      PROVE  doc.scenarios[cur].type \in Preparable
    <2>1. cur \in DOMAIN doc.scenarios
        BY <1>1, MeasuredType DEF IInv
    <2>. QED BY <1>0, <1>1, <2>1 DEF Accepted, Validate, TagsHold, Preparable
<1>2. CASE \E from \in Prepared : Advance(from)
    BY <1>0, <1>2 DEF Advance, running, place, FreshInv, CauseInv, outcome, Prepared, Ending
<1>3. ASSUME pc' \notin Prepared, cause' # "config"
      PROVE  FreshInv'
    BY <1>3 DEF FreshInv
<1>4. ASSUME NEW from, NEW why \in {"infra", "output"}, Fails(from, why)
      PROVE  FreshInv'
    BY <1>3, <1>4 DEF Fails, Prepared
<1>5. CASE NotReady
    <2>1. CASE \E from \in {"load", "compile"} : Fails(from, "config")
        BY <1>0, <2>1 DEF Fails, running, FreshInv, Prepared
    <2>. QED BY <1>4, <1>5, <2>1 DEF NotReady
<1>6. CASE ResetUnstartable \/ ProbeErrs \/ WarmupFails \/ VerdictFails
    BY <1>4, <1>6 DEF ResetUnstartable, ProbeErrs, WarmupFails, VerdictFails
<1>7. CASE NotPrepared
    <2>1. cur > 0 /\ pc = "prepare"
        BY <1>7 DEF NotPrepared, Fails
    <2>2. Fails("prepare", "infra")
        BY <1>1, <1>7, <2>1 DEF NotPrepared
    <2>. QED BY <1>4, <2>2
<1>8. CASE NoReset \/ ResetEnds
    <2>1. CASE ResetDone("reset") \/ ResetDone("resetting")
        BY <1>0, <1>3, <2>1 DEF ResetDone, At, outcome, CauseInv, Prepared, Ending
    <2>2. CASE Fails("resetting", "infra")
        BY <1>4, <2>2
    <2>. QED BY <1>8, <2>1, <2>2 DEF NoReset, ResetEnds
<1>9. CASE \/ StartReset \/ Begin \/ StartCommand \/ WarmupAnswered \/ WarmupErrs \/ Wait
          \/ Judge \/ OutputFails \/ Prepare
    BY <1>0, <1>3, <1>9
       DEF StartReset, Begin, StartCommand, WarmupAnswered, WarmupErrs, Wait, Judge, OutputFails,
           Prepare, At, outcome, CauseInv, Prepared, Ending
<1>10. CASE NoHTTP \/ HTTPAnswers \/ HTTPErrs
    BY <1>0, <1>3, <1>10
       DEF NoHTTP, HTTPAnswers, HTTPErrs, HTTPReturns, At, outcome, CauseInv, Prepared, Ending
<1>11. CASE NoCommand \/ Unstartable \/ CommandEnds
    <2>1. pc \in {"command", "running"} /\ pc' = "judge" /\ cause' = cause
        BY <1>11 DEF NoCommand, Unstartable, CommandEnds, CommandReturns, At, outcome
    <2>. QED BY <1>0, <1>3, <2>1 DEF CauseInv, Prepared, Ending
<1>12. CASE NextScenario \/ PhasesDone \/ Audit
    BY <1>0, <1>3, <1>12
       DEF NextScenario, PhasesDone, PhaseMeasured, Audit, At, outcome, CauseInv, Prepared, Ending
<1>13. CASE Verdict
    BY <1>3, <1>13 DEF Verdict, At, Prepared
<1>14. CASE Shutdown
    <2>1. pc' \notin Prepared /\ UNCHANGED <<result, measured, cause>>
        BY <1>14 DEF Shutdown, running, outcome, Prepared
    <2>. QED BY <1>0, <2>1 DEF FreshInv
<1>15. CASE PipeClosed \/ Deadline \/ Cancel \/ Traffic \/ UNCHANGED vars
    <2>1. UNCHANGED <<pc, result, measured, cause>>
        BY <1>15 DEF PipeClosed, Deadline, Cancel, Traffic, vars, running, outcome
    <2>. QED BY <1>0, <2>1 DEF FreshInv
<1>. QED BY <1>2, <1>5, <1>6, <1>7, <1>8, <1>9, <1>10, <1>11, <1>12, <1>13, <1>14, <1>15
         DEF Next, Proceed, Load, Dial, Start, CompileSchemas, Prepared

\* The steps that move on within a phase or to the next one.
LEMMA PlaceChanges ==
    ASSUME [Next]_vars
    PROVE  \/ UNCHANGED place
           \/ UNCHANGED measured /\ (ResetDone("reset") \/ ResetDone("resetting"))
           \/ UNCHANGED measured /\ (WarmupAnswered \/ Wait \/ NextScenario)
<1>1. CASE ResetDone("reset") \/ ResetDone("resetting") \/ WarmupAnswered \/ Wait \/ NextScenario
    BY <1>1 DEF ResetDone, WarmupAnswered, Wait, NextScenario
<1>2. CASE NoReset \/ ResetEnds
    <2>1. CASE Fails("resetting", "infra")
        BY <2>1 DEF Fails
    <2>2. CASE ResetDone("reset") \/ ResetDone("resetting")
        BY <1>1, <2>2
    <2>. QED BY <1>2, <2>1, <2>2 DEF NoReset, ResetEnds
<1>3. CASE ~(NoReset \/ ResetEnds \/ WarmupAnswered \/ Wait \/ NextScenario)
    BY <1>3
       DEF Next, Proceed, vars, Fails, Advance, Load, Dial, Start, CompileSchemas, NotReady,
           At, StartReset, ResetUnstartable, Begin, HTTPReturns, NoHTTP, HTTPAnswers,
           HTTPErrs, CommandReturns, NoCommand, StartCommand, Unstartable, CommandEnds,
           PipeClosed, WarmupErrs, WarmupFails, Judge, OutputFails, ProbeErrs, Prepare,
           NotPrepared, PhasesDone, Audit, Verdict, VerdictFails, Shutdown, Deadline,
           Cancel, Traffic
<1>. QED BY <1>1, <1>2, <1>3

\* The next scenario is the first that remains.
LEMMA DoneStep == IInv /\ [Next]_vars => DoneInv'
<1>. SUFFICES ASSUME IInv, [Next]_vars PROVE DoneInv'
    OBVIOUS
<1>0. /\ DoneInv /\ TypeOK /\ doc' = doc /\ Phases' = Phases
      /\ command \in {"doctor", "test"} /\ cur \in Phases
    BY InputStays DEF IInv, TypeOK, input
<1>1. /\ Len(doc.scenarios) \in Nat /\ cur \in 0..Len(doc.scenarios)
      /\ Phases \subseteq 0..Len(doc.scenarios)
    BY <1>0, MeasuredType
<1>2. CASE cur' = cur /\ measured' = measured
    BY <1>0, <1>2 DEF DoneInv
<1>3. CASE pc = "judge" /\ ~runErr /\ ~Warming /\ Record /\ UNCHANGED place
    <2>1. \A k \in 0..Len(doc.scenarios) : k # cur => measured'[k] = measured[k]
        BY <1>3, Recorded, InputStays DEF place
    <2>2. cur' = cur
        BY <1>3 DEF place
    <2>. QED BY <1>0, <1>1, <2>1, <2>2 DEF DoneInv
<1>4. CASE NextScenario /\ UNCHANGED measured
    <2>1. PICK k \in Remaining : cur' = k /\ \A other \in Remaining : k <= other
        BY <1>4 DEF NextScenario
    <2>2. Len(measured[cur]) = Len(doc.probes)
        BY <1>4 DEF NextScenario, PhaseMeasured, current
    <2>3. k \in 0..Len(doc.scenarios) /\ k > cur
        BY <1>1, <2>1 DEF Remaining
    <2>. SUFFICES ASSUME NEW l \in 0..Len(doc.scenarios)
                  PROVE  /\ l \notin Phases \/ l > k => measured[l] = <<>>
                         /\ l \in Phases /\ l < k => Len(measured[l]) = Len(doc.probes)
        BY <1>0, <1>4, <2>1 DEF DoneInv
    <2>4. l > k => l > cur
        BY <1>1, <2>3
    <2>5. l \in Phases /\ l < k => l <= cur
        <3>1. l \in Phases /\ l < k => l \notin Remaining
            BY <1>1, <2>1, <2>3
        <3>. QED BY <1>1, <3>1 DEF Remaining
    <2>6. l <= cur => l < cur \/ l = cur
        BY <1>1
    <2>. QED BY <1>0, <2>2, <2>4, <2>5, <2>6 DEF DoneInv
<1>5. UNCHANGED place => cur' = cur
    BY DEF place
<1>6. ResetDone("reset") \/ ResetDone("resetting") \/ WarmupAnswered \/ Wait => cur' = cur
    BY DEF ResetDone, WarmupAnswered, Wait
<1>. QED BY <1>0, <1>2, <1>3, <1>4, <1>5, <1>6, MeasuredChanges, PlaceChanges

LEMMA PlaceStep == IInv /\ [Next]_vars => PlaceInv'
<1>. SUFFICES ASSUME IInv, [Next]_vars PROVE PlaceInv'
    OBVIOUS
<1>0. /\ PlaceInv /\ TypeOK /\ doc' = doc /\ cfg' = cfg /\ command' = command
      /\ command \in {"doctor", "test"}
    BY InputStays DEF IInv, TypeOK, input
<1>1. /\ Len(doc.probes) \in Nat /\ Len(current) \in Nat /\ current \in Seq(Result)
      /\ Len(<<>>) = 0
    BY <1>0, MeasuredType
<1>2. UNCHANGED <<cur, measured>> => current' = current
    BY DEF current
<1>3. UNCHANGED place => Warming' = Warming /\ UNCHANGED <<cur, warmed, tries>>
    BY <1>0 DEF place, warmup, Warming
<1>4. CASE UNCHANGED measured /\ (ResetDone("reset") \/ ResetDone("resetting"))
    <2>1. pc \in Resetting /\ pc' \in {"prepare", "probe"} /\ cur' = cur
        BY <1>4 DEF ResetDone, At, Resetting
    <2>2. current' = <<>>
        BY <1>0, <1>2, <1>4, <2>1 DEF PlaceInv
    <2>. QED BY <1>0, <1>1, <2>1, <2>2 DEF PlaceInv, Probing
<1>5. CASE UNCHANGED measured /\ WarmupAnswered
    <2>1. pc = "judge" /\ Warming /\ pc' \in {"prepare", "probe"} /\ cur' = cur
        BY <1>5 DEF WarmupAnswered, At
    <2>2. current' = <<>>
        BY <1>0, <1>2, <1>5, <2>1 DEF PlaceInv, Probing
    <2>. QED BY <1>0, <1>1, <2>1, <2>2 DEF PlaceInv, Probing
<1>6. CASE UNCHANGED measured /\ Wait
    <2>1. pc = "wait" /\ pc' = "probe" /\ cur' = cur
        BY <1>6 DEF Wait, At
    <2>2. current' = <<>>
        BY <1>0, <1>2, <1>6, <2>1 DEF PlaceInv
    <2>. QED BY <1>0, <1>1, <2>1, <2>2 DEF PlaceInv, Probing
<1>7. CASE UNCHANGED measured /\ NextScenario
    <2>1. PICK k \in Remaining : cur' = k /\ pc' = "reset"
        BY <1>7 DEF NextScenario, At
    <2>2. k \in 0..Len(doc.scenarios) /\ k > cur
        BY <1>0, <2>1, MeasuredType DEF Remaining
    <2>3. current' = <<>>
        BY <1>7, <2>1, <2>2 DEF IInv, DoneInv, current
    <2>. QED BY <1>0, <1>1, <2>1, <2>3 DEF PlaceInv, Probing
<1>8. CASE UNCHANGED place /\ pc = "judge" /\ ~runErr /\ ~Warming /\ Record
           /\ pc' \in {"probe", "shutdown"}
    <2>1. Len(current') = Len(current) + 1
        BY <1>3, <1>8, Recorded, InputStays
    <2>2. Len(current) < Len(doc.probes)
        BY <1>0, <1>8 DEF PlaceInv, Probing
    <2>3. Len(current') <= Len(doc'.probes) /\ ~Warming'
        BY <1>0, <1>1, <1>3, <1>8, <2>1, <2>2
    <2>. QED BY <1>8, <2>3 DEF PlaceInv, Probing, Prepared, Resetting
<1>9. CASE UNCHANGED <<place, measured>>
    <2>1. CASE \E from \in Prepared : Advance(from)
        <3>1. /\ pc \in Prepared
              /\ \/ pc' \in {"dial", "start", "compile", "reset"}
                 \/ pc' = "probe"
            BY <1>0, <2>1, AdvanceGoes DEF Advance
        <3>. QED BY <1>0, <1>1, <1>2, <1>3, <1>9, <3>1
                 DEF PlaceInv, Probing, Prepared, Resetting
    <2>2. CASE ~\E from \in Prepared : Advance(from)
        <3>1. /\ pc' \in Probing =>
                    pc \in Probing \/ (pc = "probe" /\ (Warming \/ Len(current) < Len(doc.probes)))
              /\ pc' \in Prepared \cup Resetting \cup {"prepare"} =>
                    \/ pc \in Prepared \cup Resetting \cup {"prepare"}
                    \/ WarmupAnswered \/ NextScenario
              /\ pc' = "wait" =>
                    pc = "wait" \/ (pc = "judge" /\ Warming /\ tries < cfg["warmup_retries"])
              /\ pc' = "probe" /\ Warming =>
                    pc \in Resetting \cup {"probe", "prepare", "wait"} \/ WarmupAnswered
            BY <2>2
               DEF Prepared, Resetting, Probing, Load, Dial, Start, CompileSchemas,
           Next, Proceed, vars, Fails, NotReady, At, ResetDone, NoReset, StartReset,
           ResetUnstartable, ResetEnds, Begin, HTTPReturns, NoHTTP, HTTPAnswers, HTTPErrs,
           CommandReturns, NoCommand, StartCommand, Unstartable, CommandEnds, PipeClosed,
           WarmupAnswered, WarmupErrs, Wait, WarmupFails, Judge, OutputFails, ProbeErrs,
           Prepare, NotPrepared, PhaseMeasured, NextScenario, PhasesDone, Audit, Verdict,
           VerdictFails, Shutdown, Deadline, Cancel, Traffic
        <3>. QED BY <1>0, <1>1, <1>2, <1>3, <1>5, <1>7, <1>9, <3>1 DEF PlaceInv, Probing
    <2>. QED BY <2>1, <2>2
<1>. QED BY <1>0, <1>4, <1>5, <1>6, <1>7, <1>8, <1>9, MeasuredChanges, PlaceChanges

\* The probe that is at work can do what it is to do.
LEMMA ProbeFacts ==
    ASSUME IInv, pc \in Probing
    PROVE  /\ probe \in Probe
           /\ probe.http \in {"none", "valid"}
           /\ (probe.http = "none") # (probe.command = "none")
           /\ probe.command # "none" => Runnable
<1>0. TypeOK /\ PlaceInv /\ Accepted
    BY DEF IInv, AcceptedInv, Probing
<1>1. PICK i \in DOMAIN doc.probes : probe = doc.probes[i]
    <2>1. /\ DOMAIN doc.probes = 1..Len(doc.probes) /\ Len(doc.probes) \in Nat
          /\ warmed \in Nat /\ Len(current) \in Nat
        BY <1>0, MeasuredType
    <2>2. Warming => warmed + 1 \in DOMAIN doc.probes
        BY <2>1 DEF Warming
    <2>3. ~Warming => Len(current) + 1 \in DOMAIN doc.probes
        BY <1>0, <2>1 DEF PlaceInv
    <2>. QED BY <2>2, <2>3 DEF probe
<1>2. probe \in Probe
    BY <1>0, <1>1, DocumentType DEF TypeOK
<1>3. probe.http \in {"none", "valid", "malformed"}
    BY <1>2 DEF Probe
<1>. QED BY <1>0, <1>1, <1>2, <1>3, AcceptedProbe DEF Runnable

\* An HTTP response or the exit of a live command comes before the verdict.
LEMMA RanStep == IInv /\ [Next]_vars => RanInv'
<1>. SUFFICES ASSUME IInv, [Next]_vars PROVE RanInv'
    OBVIOUS
<1>0. /\ doc' = doc /\ command' = command /\ RanInv /\ result \in Result
      /\ command \in {"doctor", "test"}
    BY InputStays DEF input, IInv, TypeOK
<1>1. UNCHANGED <<place, measured>> => probe' = probe
    BY <1>0 DEF place, warmup, probe, current, Warming
<1>2. ASSUME pc' # "http", pc' # "command", pc' # "judge"
      PROVE  RanInv'
    BY <1>2 DEF RanInv
<1>3. ASSUME UNCHANGED <<pc, place, measured, runErr, result>>
      PROVE  RanInv'
    BY <1>0, <1>1, <1>3 DEF RanInv
<1>4. CASE \E from \in Prepared : Advance(from)
    BY <1>0, <1>2, <1>4, AdvanceGoes
<1>5. CASE Begin
    BY <1>5 DEF Begin, At, RanInv
<1>6. ASSUME NEW r, NEW err, HTTPReturns(r, err), probe.http = "valid" /\ ~err => r.answered
      PROVE  RanInv'
    BY <1>1, <1>6 DEF HTTPReturns, At, RanInv
<1>7. CASE NoHTTP
    BY <1>6, <1>7 DEF NoHTTP
<1>8. CASE HTTPAnswers
    <2>1. \A a \in Responses : Answered(result, a.status, a.body, a.latency, a.oversize).answered
        BY <1>0 DEF Answered, FailsWith, Result
    <2>. QED BY <1>6, <1>8, <2>1 DEF HTTPAnswers
<1>9. CASE HTTPErrs
    BY <1>6, <1>9 DEF HTTPErrs
<1>10. ASSUME NEW from, NEW r, NEW err, CommandReturns(from, r, err), ~runErr /\ ~err => r.answered
       PROVE  RanInv'
    BY <1>10 DEF CommandReturns, At, RanInv
<1>11. CASE NoCommand
    <2>1. pc = "command" /\ probe.command = "none" /\ CommandReturns("command", result, FALSE)
        BY <1>11, ProbeFacts DEF NoCommand, Probing
    <2>2. ~runErr => result.answered
        BY <1>0, <2>1, ProbeFacts DEF RanInv, Probing
    <2>. QED BY <1>10, <2>1, <2>2
<1>12. CASE Unstartable
    BY <1>10, <1>12 DEF Unstartable
<1>13. CASE CommandEnds
    <2>1. \A f \in Exits : Exited(result, f.code, f.latency, TRUE).answered
        BY <1>0 DEF Exited, Result
    <2>. QED BY <1>10, <1>13, <2>1 DEF CommandEnds
<1>14. CASE PipeClosed \/ Deadline \/ Cancel \/ Traffic \/ UNCHANGED vars
    BY <1>3, <1>14 DEF PipeClosed, Deadline, Cancel, Traffic, vars, running
<1>15. CASE \/ NotReady \/ ResetUnstartable \/ ProbeErrs \/ WarmupFails \/ NotPrepared
           \/ VerdictFails \/ Shutdown
    BY <1>2, <1>15
       DEF NotReady, ResetUnstartable, ProbeErrs, WarmupFails, NotPrepared, VerdictFails,
           Shutdown, Fails
<1>16. CASE NoReset \/ ResetEnds
    BY <1>2, <1>16 DEF NoReset, ResetEnds, ResetDone, At, Fails
<1>17. CASE \/ StartReset \/ StartCommand \/ WarmupAnswered \/ WarmupErrs \/ Wait \/ Judge
           \/ OutputFails \/ Prepare \/ NextScenario \/ PhasesDone \/ Audit \/ Verdict
    BY <1>2, <1>17
       DEF StartReset, StartCommand, WarmupAnswered, WarmupErrs, Wait, Judge, OutputFails,
           Prepare, NextScenario, PhasesDone, Audit, Verdict, At
<1>. QED BY <1>4, <1>5, <1>7, <1>8, <1>9, <1>11, <1>12, <1>13, <1>14, <1>15, <1>16, <1>17
         DEF Next, Proceed, Load, Dial, Start, CompileSchemas, Prepared

\* Each way out leaves a cause that stands for what was measured.
LEMMA CauseStep == IInv /\ [Next]_vars => CauseInv'
<1>. SUFFICES ASSUME IInv, [Next]_vars PROVE CauseInv'
    OBVIOUS
<1>0. /\ doc' = doc /\ command' = command /\ Phases' = Phases /\ CauseInv
      /\ command \in {"doctor", "test"} /\ proxyUp \in BOOLEAN /\ cause \in Causes
    BY InputStays DEF IInv, TypeOK, input
<1>1. UNCHANGED <<cur, measured>> => Complete' = Complete /\ AllPassed' = AllPassed
    BY <1>0 DEF Complete, Remaining, current, AllPassed
<1>2. UNCHANGED <<traffic, finding>> => Found' = Found
    BY <1>0 DEF Found
<1>3. ASSUME pc \notin Ending, pc' \notin Ending \cup {"audit", "verdict"}, cause' = cause
      PROVE  CauseInv'
    BY <1>0, <1>3 DEF CauseInv, Ending
<1>4. ASSUME NEW from \in Places \ Ending, NEW why \in {"config", "infra", "output"},
             Fails(from, why)
      PROVE  CauseInv'
    BY <1>0, <1>4 DEF Fails, CauseInv, Ending
<1>5. CASE \E from \in Prepared : Advance(from)
    <2>1. /\ pc \in Prepared /\ cause' = cause
          /\ pc' \in {"dial", "start", "compile", "probe", "reset"}
        BY <1>0, <1>5, AdvanceGoes DEF Advance, outcome
    <2>. QED BY <1>3, <2>1 DEF Prepared, Ending
<1>6. CASE \/ NotReady \/ ResetUnstartable \/ ProbeErrs \/ WarmupFails \/ NotPrepared
          \/ VerdictFails
    <2>1. \E from \in Places \ Ending, why \in {"config", "infra", "output"} : Fails(from, why)
        BY <1>6 DEF NotReady, ResetUnstartable, ProbeErrs, WarmupFails, NotPrepared,
                    VerdictFails, Places, Ending
    <2>. QED BY <1>4, <2>1
<1>7. CASE NoReset \/ ResetEnds
    <2>1. CASE ResetDone("reset") \/ ResetDone("resetting")
        BY <1>3, <2>1 DEF ResetDone, At, outcome, Ending
    <2>2. CASE Fails("resetting", "infra")
        BY <1>4, <2>2 DEF Places, Ending
    <2>. QED BY <1>7, <2>1, <2>2 DEF NoReset, ResetEnds
<1>8. CASE \/ StartReset \/ Begin \/ StartCommand \/ WarmupAnswered \/ WarmupErrs \/ Wait
          \/ Judge \/ Prepare \/ NextScenario
    BY <1>3, <1>8
       DEF StartReset, Begin, StartCommand, WarmupAnswered, WarmupErrs, Wait, Judge, Prepare,
           NextScenario, PhaseMeasured, At, outcome, Ending
<1>9. CASE NoHTTP \/ HTTPAnswers \/ HTTPErrs
    BY <1>3, <1>9 DEF NoHTTP, HTTPAnswers, HTTPErrs, HTTPReturns, At, outcome, Ending
<1>10. CASE NoCommand \/ Unstartable \/ CommandEnds
    BY <1>3, <1>10 DEF NoCommand, Unstartable, CommandEnds, CommandReturns, At, outcome, Ending
<1>11. CASE OutputFails
    BY <1>0, <1>11 DEF OutputFails, At, CauseInv, Ending
<1>12. CASE PhasesDone
    <2>1. Complete' /\ cause' = cause /\ pc \notin Ending
        BY <1>1, <1>12 DEF PhasesDone, PhaseMeasured, Complete, place, outcome, Ending
    <2>2. pc' = IF command = "test" THEN "audit" ELSE "verdict"
        BY <1>12 DEF PhasesDone, At
    <2>. QED BY <1>0, <2>1, <2>2 DEF CauseInv, Ending
<1>13. CASE Audit
    <2>1. /\ pc = "audit" /\ pc' = "shutdown" /\ cause' = cause
          /\ UNCHANGED <<cur, measured>>
        BY <1>13 DEF Audit, At, place
    <2>. QED BY <1>0, <1>1, <2>1 DEF CauseInv, Ending
<1>14. CASE Verdict
    <2>1. /\ pc = "verdict" /\ pc' = IF command = "doctor" THEN "shutdown" ELSE "exited"
          /\ cause' = IF AllPassed /\ ~Found THEN "none" ELSE "failed"
          /\ UNCHANGED <<cur, measured, traffic, finding, proxyUp>>
        BY <1>14 DEF Verdict, At, place
    <2>2. Complete' /\ AllPassed' = AllPassed /\ Found' = Found
        BY <1>0, <1>1, <1>2, <2>1 DEF CauseInv
    <2>3. command = "test" => ~proxyUp'
        BY <1>0, <2>1 DEF CauseInv
    <2>. QED BY <1>0, <2>1, <2>2, <2>3 DEF CauseInv, Ending
<1>15. CASE Shutdown
    <2>1. /\ pc = "shutdown" /\ proxyUp' = FALSE /\ UNCHANGED <<cur, measured, cause>>
          /\ pc' = IF command = "test" /\ cause = "none" THEN "verdict" ELSE "exited"
          /\ UNCHANGED <<traffic, finding>>
        BY <1>15 DEF Shutdown, place, outcome
    <2>2. Complete' = Complete /\ AllPassed' = AllPassed /\ Found' = Found
        BY <1>1, <1>2, <2>1
    <2>. QED BY <1>0, <2>1, <2>2 DEF CauseInv, Ending
<1>16. CASE PipeClosed \/ Deadline \/ Cancel \/ UNCHANGED vars
    <2>1. UNCHANGED <<pc, cur, measured, traffic, finding, cause, proxyUp>>
        BY <1>16 DEF PipeClosed, Deadline, Cancel, vars, place, outcome
    <2>2. Complete' = Complete /\ AllPassed' = AllPassed /\ Found' = Found
        BY <1>1, <1>2, <2>1
    <2>. QED BY <1>0, <2>1, <2>2 DEF CauseInv, Ending
<1>17. CASE Traffic
    <2>1. UNCHANGED <<pc, cur, measured, cause, proxyUp>> /\ pc # "shutdown" /\ proxyUp
        BY <1>17 DEF Traffic, place, outcome
    <2>2. pc \notin Ending
        BY <1>0, <2>1 DEF CauseInv, Ending
    <2>. QED BY <1>0, <1>1, <2>1, <2>2 DEF CauseInv, Ending
<1>. QED BY <1>5, <1>6, <1>7, <1>8, <1>9, <1>10, <1>11, <1>12, <1>13, <1>14, <1>15, <1>16, <1>17
         DEF Next, Proceed, Load, Dial, Start, CompileSchemas, Prepared

\* A step keeps the types of everything but the place and the measurements.
LEMMA FieldTypes ==
    ASSUME TypeOK, [Next]_vars
    PROVE  /\ pc' \in Places /\ cause' \in Causes /\ ctxDone' \in BOOLEAN
           /\ expired' \in BOOLEAN /\ runErr' \in BOOLEAN /\ held' \in BOOLEAN
           /\ proxyUp' \in BOOLEAN /\ traffic' \in BOOLEAN /\ finding' \in BOOLEAN
           /\ result' \in Result
<1>0. /\ command \in {"doctor", "test"} /\ pc \in Places /\ cause \in Causes
      /\ ctxDone \in BOOLEAN /\ expired \in BOOLEAN /\ runErr \in BOOLEAN /\ held \in BOOLEAN
      /\ proxyUp \in BOOLEAN /\ traffic \in BOOLEAN /\ finding \in BOOLEAN /\ result \in Result
    BY DEF TypeOK
<1>a. /\ NewResult \in Result /\ \A f \in Failure : FailsWith(result, f) \in Result
      /\ \A a \in Responses :
            Answered(result, a.status, a.body, a.latency, a.oversize) \in Result
      /\ \A e \in Exits : Exited(result, e.code, e.latency, TRUE) \in Result
    BY <1>0, ResultType
<1>1. ASSUME NEW from \in Prepared, Advance(from), proxyUp' \in BOOLEAN
      PROVE  pc' \in Places /\ UNCHANGED <<outcome, ctxDone, running>>
             /\ traffic' = traffic /\ proxyUp' \in BOOLEAN
    <2>1. pc' \in {"dial", "start", "compile", "probe", "reset"}
        BY <1>0, <1>1, AdvanceGoes
    <2>. QED BY <1>1, <2>1 DEF Advance, Places
<1>2. ASSUME NEW from, NEW why \in {"config", "infra", "output"}, Fails(from, why)
      PROVE  /\ pc' \in Places /\ cause' \in Causes
             /\ UNCHANGED <<ctxDone, running, proxyUp, traffic, finding>>
    BY <1>2 DEF Fails, Places, Causes
<1>3. ASSUME NEW r \in Result, NEW err \in BOOLEAN,
             HTTPReturns(r, err) \/ \E from \in Places : CommandReturns(from, r, err)
      PROVE  /\ pc' \in Places /\ result' \in Result /\ runErr' \in BOOLEAN
             /\ UNCHANGED <<outcome, ctxDone, expired, held, proxyUp, traffic>>
    BY <1>0, <1>3 DEF HTTPReturns, CommandReturns, At, Places
<1>4. CASE Load \/ Dial \/ Start \/ CompileSchemas
    BY <1>0, <1>1, <1>4 DEF Load, Dial, Start, CompileSchemas, Prepared, running, outcome
<1>5. CASE \/ NotReady \/ ResetUnstartable \/ ProbeErrs \/ WarmupFails \/ NotPrepared
          \/ VerdictFails
    <2>1. \E from \in Places, why \in {"config", "infra", "output"} : Fails(from, why)
        BY <1>5 DEF NotReady, ResetUnstartable, ProbeErrs, WarmupFails, NotPrepared,
                    VerdictFails, Places
    <2>. QED BY <1>0, <1>2, <2>1 DEF running
<1>6. CASE NoHTTP \/ HTTPAnswers \/ HTTPErrs
    <2>1. PICK r \in Result, err \in BOOLEAN : HTTPReturns(r, err)
        BY <1>0, <1>a, <1>6 DEF NoHTTP, HTTPAnswers, HTTPErrs, Failure
    <2>. QED BY <1>0, <1>3, <2>1 DEF outcome
<1>7. CASE NoCommand
    <2>1. PICK r \in Result : CommandReturns("command", r, FALSE)
        <3>1. CASE probe.command = "none"
            BY <1>0, <1>7, <3>1 DEF NoCommand
        <3>2. CASE probe.command = "shell"
            BY <1>0, <1>a, <1>7, <3>2 DEF NoCommand, Failure
        <3>3. CASE probe.command \notin {"none", "shell"}
            BY <1>0, <1>a, <1>7, <3>3 DEF NoCommand, Failure
        <3>. QED BY <3>1, <3>2, <3>3
    <2>. QED BY <1>0, <1>3, <2>1 DEF Places, outcome
<1>8. CASE Unstartable \/ CommandEnds
    <2>1. PICK from \in Places, r \in Result, err \in BOOLEAN : CommandReturns(from, r, err)
        BY <1>0, <1>a, <1>8 DEF Unstartable, CommandEnds, Places
    <2>. QED BY <1>0, <1>3, <2>1 DEF outcome
<1>9. CASE NoReset \/ ResetEnds
    <2>1. CASE ResetDone("reset") \/ ResetDone("resetting")
        BY <1>0, <2>1 DEF ResetDone, At, running, outcome, Places
    <2>2. CASE Fails("resetting", "infra")
        BY <1>0, <1>2, <2>2 DEF running
    <2>. QED BY <1>9, <2>1, <2>2 DEF NoReset, ResetEnds
<1>10. CASE Begin \/ StartReset \/ StartCommand \/ WarmupAnswered \/ WarmupErrs \/ Wait
    BY <1>0, <1>a, <1>10
       DEF Begin, StartReset, StartCommand, WarmupAnswered, WarmupErrs, Wait, running, outcome,
           At, Places
<1>11. CASE Judge \/ OutputFails \/ Prepare \/ NextScenario
    BY <1>0, <1>11
       DEF Judge, OutputFails, Prepare, NextScenario, running, outcome, At, Places, Causes
<1>12. CASE PhasesDone
    <2>1. pc' \in {"audit", "verdict"} /\ UNCHANGED <<ctxDone, proxyUp, traffic, running, outcome>>
        BY <1>12 DEF PhasesDone, At
    <2>. QED BY <1>0, <2>1 DEF running, outcome, Places
<1>13. CASE Audit
    BY <1>0, <1>13 DEF Audit, At, running, Places
<1>14. CASE Verdict
    BY <1>0, <1>14 DEF Verdict, At, running, Places, Causes
<1>15. CASE Shutdown \/ PipeClosed \/ UNCHANGED vars
    <2>1. CASE Shutdown
        BY <1>0, <2>1 DEF Shutdown, running, outcome, Places
    <2>2. CASE PipeClosed
        BY <1>0, <2>2 DEF PipeClosed, outcome
    <2>3. CASE UNCHANGED vars
        BY <1>0, <2>3 DEF vars, running, outcome
    <2>. QED BY <1>15, <2>1, <2>2, <2>3
<1>16. CASE Deadline \/ Cancel \/ Traffic
    BY <1>0, <1>16 DEF Deadline, Cancel, Traffic, running, outcome
<1>. QED BY <1>4, <1>5, <1>6, <1>7, <1>8, <1>9, <1>10, <1>11, <1>12, <1>13, <1>14, <1>15, <1>16
         DEF Next, Proceed

LEMMA TypeStep == IInv /\ [Next]_vars => TypeOK'
<1>. SUFFICES ASSUME IInv, [Next]_vars PROVE TypeOK'
    OBVIOUS
<1>0. /\ UNCHANGED <<command, allowUnsafe, only, noWarmup, doc>> /\ cfg' = cfg
      /\ Phases' = Phases /\ TypeOK /\ PlaceInv
    BY InputStays DEF IInv, input
<1>1. /\ Len(doc.probes) \in Nat /\ cfg["warmup_retries"] \in Int
      /\ warmed \in 0..Len(doc.probes) /\ tries \in Nat /\ cur \in Phases
      /\ tries > 0 => tries <= cfg["warmup_retries"]
      /\ measured \in [0..Len(doc.scenarios) -> Seq(Result)]
    <2>1. "warmup_retries" \in Setting
        BY DEF Setting, DefaultOf
    <2>. QED BY <1>0, <2>1, SettingType, MeasuredType DEF TypeOK
<1>2. measured' \in [0..Len(doc.scenarios) -> Seq(Result)]
    <2>1. CASE pc = "judge" /\ ~runErr /\ ~Warming /\ Record /\ UNCHANGED place
        BY <2>1, Recorded, InputStays DEF place
    <2>. QED BY <1>0, <1>1, <2>1, MeasuredChanges DEF TypeOK
<1>3. /\ warmed' \in 0..Len(doc.probes) /\ tries' \in Nat /\ cur' \in Phases
      /\ tries' > 0 => tries' <= cfg["warmup_retries"]
    <2>1. CASE UNCHANGED place
        BY <1>1, <2>1 DEF place, warmup
    <2>2. CASE ResetDone("reset") \/ ResetDone("resetting")
        BY <1>1, <2>2 DEF ResetDone
    <2>3. CASE WarmupAnswered
        BY <1>1, <2>3 DEF WarmupAnswered, Warming
    <2>4. CASE Wait
        <3>1. /\ pc = "wait" /\ warmed' = 0 /\ tries' = tries + 1 /\ cur' = cur
            BY <2>4 DEF Wait, At
        <3>2. tries < cfg["warmup_retries"]
            BY <1>0, <3>1 DEF PlaceInv
        <3>. QED BY <1>1, <3>1, <3>2
    <2>5. CASE NextScenario
        BY <1>1, <2>5 DEF NextScenario, Remaining, warmup
    <2>. QED BY <2>1, <2>2, <2>3, <2>4, <2>5, PlaceChanges
<1>4. /\ command' \in {"doctor", "test"} /\ allowUnsafe' \in BOOLEAN /\ only' \in STRING
      /\ noWarmup' \in BOOLEAN /\ doc' \in Document
    BY <1>0 DEF TypeOK
<1>. QED BY <1>0, <1>2, <1>3, <1>4, FieldTypes DEF TypeOK

-----------------------------------------------------------------------------
(* The theorems. *)

\* Whatever the command line, the file, the app and the processes: the phases
\* before the one under way are complete, those that --only skips and those to
\* come are empty, nothing is measured while the warm-up is at work, and the cause
\* of the end stands for what was measured.
THEOREM Invariance == Spec => []IInv
<1>1. IInv /\ [Next]_vars => IInv'
    BY TypeStep, AcceptedStep, DoneStep, PlaceStep, FreshStep, CauseStep, RanStep, VerdictsStep
       DEF IInv
<1>. QED BY <1>1, InitIInv, PTL DEF Spec

\* Every variable keeps its type; there are never more attempts to warm up than
\* warmup.retries allows.
THEOREM TypeCorrect == Spec => []TypeOK
<1>1. IInv => TypeOK
    BY DEF IInv
<1>. QED BY <1>1, Invariance, PTL

\* Whatever file is accepted, a run has what its later phases take for granted:
\* different names, scenarios that can be prepared, patterns that can be deleted
\* by, probes with one thing to do, and the settings that were written.
THEOREM AcceptedCorrect == Spec => []AcceptedRuns
<1>1. IInv => AcceptedRuns
    BY AcceptedMeans DEF IInv
<1>. QED BY <1>1, Invariance, PTL

\* No probe passes unless the app or its command answered.
THEOREM RanCorrect == Spec => []PassMeansRan
<1>1. IInv => PassMeansRan
    BY DEF IInv
<1>. QED BY <1>1, Invariance, PTL

\* A probe that passes in a scenario returned what the baseline's had.
THEOREM SameCorrect == Spec => []PassMeansSame
<1>1. IInv => PassMeansSame
    BY DEF IInv
<1>. QED BY <1>1, Invariance, PTL

\* The exit code says what was measured of the scenarios that --only leaves and
\* what came of it, and the proxy is not left running.
THEOREM ExitCorrect == Spec => []ExitMeaning
<1>1. ASSUME IInv, pc = "exited"
      PROVE  ExitMeaning
    <2>0. /\ cause \in Causes /\ CauseInv /\ DoneInv /\ FreshInv /\ TypeOK
          /\ command \in {"doctor", "test"}
        BY <1>1 DEF IInv, TypeOK
    <2>1. /\ ExitCode \in {0, 1} <=> cause \in {"none", "failed"}
          /\ ExitCode = 1 <=> cause = "failed"
          /\ ExitCode = 2 <=> cause = "config"
        BY <2>0 DEF ExitCode, Causes
    <2>2. /\ cur \in 0..Len(doc.scenarios) /\ Len(doc.scenarios) \in Nat
          /\ DOMAIN measured = 0..Len(doc.scenarios) /\ Len(<<>>) = 0
          /\ cur \in Phases
        BY <2>0, MeasuredType DEF TypeOK
    <2>3. ASSUME cause \in {"none", "failed"}, NEW k \in DOMAIN measured
          PROVE  Len(measured[k]) = IF k \in Phases THEN Len(doc.probes) ELSE 0
        <3>1. Remaining = {} /\ Len(measured[cur]) = Len(doc.probes)
            BY <1>1, <2>0, <2>3 DEF CauseInv, Ending, Complete, current
        <3>2. k \in Phases => k <= cur
            BY <2>2, <3>1 DEF Remaining
        <3>3. k \in Phases => k < cur \/ k = cur
            BY <2>2, <3>2
        <3>. QED BY <2>0, <2>2, <3>1, <3>3 DEF DoneInv
    <2>4. AllPassed <=> ~\E k \in DOMAIN measured : Failed(measured[k])
        BY DEF AllPassed, Failed
    <2>5. Found <=> (command = "doctor" /\ ~traffic) \/ (command = "test" /\ finding)
        BY <2>0 DEF Found
    <2>6. /\ ~proxyUp
          /\ cause = "none" => AllPassed /\ ~Found
          /\ cause = "failed" => ~(AllPassed /\ ~Found)
          /\ cause = "config" =>
                result = NewResult /\ \A k \in DOMAIN measured : measured[k] = <<>>
        BY <1>1, <2>0 DEF CauseInv, FreshInv
    <2>. QED BY <2>1, <2>3, <2>4, <2>5, <2>6 DEF ExitMeaning
<1>2. IInv => ExitMeaning
    BY <1>1 DEF ExitMeaning
<1>. QED BY <1>2, Invariance, PTL
=============================================================================
