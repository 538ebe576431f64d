----------------------------- MODULE ProbeRunner -----------------------------
(***************************************************************************)
(* internal/probe: from what the app answered to a verdict.  The calls     *)
(* themselves, which may fail or not return, are steps of Commands.        *)
(***************************************************************************)
EXTENDS Config

CONSTANTS
    Path,           \* the JSON paths of json_equals_baseline
    Value,          \* the values found there
    Missing,        \* gjson: the path does not exist
    SchemaPaths     \* the paths the JSON schema requires

ASSUME PathAssumption == Missing \notin Value /\ SchemaPaths \subseteq Path

\* The body as the assertions see it: JSON or not, and what is at each path.
Body == [json : BOOLEAN, at : [Path -> Value \cup {Missing}]]
NoBody == [json |-> FALSE, at |-> [path \in Path |-> Missing]]

Failure == {"build", "size", "argv", "shell", "status", "exit", "schema",
            "equals", "latency", "unmet"}

\* "answered" is history: there was a response, or the command ran and ended.
Result == [status : Nat, exitCode : Int, body : Body, latency : Nat,
           failures : SUBSET Failure, answered : BOOLEAN, passed : BOOLEAN]

NewResult ==
    [status |-> 0, exitCode |-> -1, body |-> NoBody, latency |-> 0,
     failures |-> {}, answered |-> FALSE, passed |-> FALSE]

FailsWith(result, failure) ==
    [result EXCEPT !.failures = @ \cup {failure}]

\* runHTTP with a response: a body above the limit is a failed assertion.
Answered(result, status, body, latency, oversize) ==
    LET answered == [result EXCEPT !.status = status, !.latency = latency,
                                   !.answered = TRUE]
    IN  IF oversize THEN FailsWith(answered, "size")
        ELSE [answered EXCEPT !.body = body]

\* runCommand with an exit status; "alive" says whether its context still is.
Exited(result, exitCode, latency, alive) ==
    [result EXCEPT !.exitCode = exitCode, !.latency = latency, !.answered = alive]

SchemaHolds(body) == body.json /\ \A path \in SchemaPaths : body.at[path] # Missing

\* compareGJSON: a path that is missing in both bodies has not changed.
CompareGJSON(body, base, path) == body.at[path] = base.at[path]

LatencyAllowed(base, increase) == base + (base * increase) \div 100

\* Mutant: a path the response does not have is not compared.
FailedOnPresent(probe, baseline, result) ==
    {f \in Failure :
        \/ f = "status" /\ probe.status # 0 /\ result.status # probe.status
        \/ f = "exit" /\ probe.exitCode # Absent /\ result.exitCode # probe.exitCode
        \/ f = "schema" /\ probe.schema /\ ~SchemaHolds(result.body)
        \/ \E base \in baseline :
            \/ /\ f = "equals"
               /\ \E i \in DOMAIN probe.equals :
                    /\ result.body.at[probe.equals[i]] # Missing
                    /\ ~CompareGJSON(result.body, base.body, probe.equals[i])
            \/ /\ f = "latency" /\ probe.increase > 0 /\ base.latency > 0
               /\ result.latency > LatencyAllowed(base.latency, probe.increase)}

\* evaluateAssertions; "baseline" holds the baseline's result or is empty.
FailedAssertions(probe, baseline, result) ==
    {f \in Failure :
        \/ f = "status" /\ probe.status # 0 /\ result.status # probe.status
        \/ f = "exit" /\ probe.exitCode # Absent /\ result.exitCode # probe.exitCode
        \/ f = "schema" /\ probe.schema /\ ~SchemaHolds(result.body)
        \/ \E base \in baseline :
            \/ /\ f = "equals"
               /\ \E i \in DOMAIN probe.equals :
                    ~CompareGJSON(result.body, base.body, probe.equals[i])
            \/ /\ f = "latency" /\ probe.increase > 0 /\ base.latency > 0
               /\ result.latency > LatencyAllowed(base.latency, probe.increase)}

\* The end of Run, once the app has answered.
Judged(probe, baseline, result) ==
    LET failures == result.failures \cup FailedAssertions(probe, baseline, result)
        passed == (failures # {}) = (probe.expect = "fail")
    IN  [result EXCEPT
            !.passed = passed,
            !.failures = IF probe.expect = "fail" /\ ~passed THEN {"unmet"} ELSE failures]
=============================================================================
