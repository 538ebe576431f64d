------------------------------- MODULE Commands -------------------------------
(***************************************************************************)
(* The two commands that run probes, "doctor" and "test", from the         *)
(* configuration file to the exit code: what is accepted, the processes and *)
(* requests that a run waits for, what of them is measured, and what the   *)
(* exit code says of it.  The proxy's engine, the recorder and the reports *)
(* of test are Orchestrator's.                                             *)
(*                                                                         *)
(* The app under test, the processes of command probes and of the reset    *)
(* command, Redis and the file system are external.                        *)
(***************************************************************************)
EXTENDS ProbeRunner

CONSTANTS
    Invocations,    \* the command lines, each with the file it names
    Responses,      \* HTTP answers: [status, body, latency, oversize]
    Exits           \* ends of a process: [code, latency]

ASSUME InvocationsAssumption ==
    Invocations \subseteq [command : {"doctor", "test"}, allowUnsafe : BOOLEAN,
                           only : STRING, noWarmup : BOOLEAN, doc : Document]
ASSUME ResponsesAssumption ==
    Responses \subseteq
        [status : 100..599, body : Body, latency : Nat, oversize : BOOLEAN]
ASSUME ExitsAssumption == Exits \subseteq [code : -1..255, latency : Nat]

VARIABLES
    command,        \* "doctor" or "test"
    allowUnsafe,    \* --allow-unsafe-commands
    only,           \* --only: a name, which no scenario need have, or ""
    noWarmup,       \* --no-warmup
    doc,            \* the file
    pc,
    ctxDone,        \* the root context is cancelled
    expired,        \* the context of the probe or reset under way has ended
    result, runErr, \* of the probe under way
    held,           \* some process keeps the output pipe of the command open
    cur,            \* 0 in the baseline, else the index of the scenario
    warmed,         \* probes this attempt to warm up had an answer to
    tries,          \* attempts to warm up that failed
    measured,       \* the results of each phase, 0 being the baseline
    proxyUp,        \* the proxy is started and not shut down
    traffic,        \* rec.Snapshot().ObservedCommandRows > 0
    finding,        \* test has a finding that counts under --fail-on
    cause           \* what the command failed on, or "none"

input == <<command, allowUnsafe, only, noWarmup, doc>>
running == <<expired, result, runErr, held>>
warmup == <<warmed, tries>>
place == <<cur, warmup>>
outcome == <<finding, cause>>
vars == <<input, pc, ctxDone, running, place, measured, proxyUp, traffic, outcome>>

cfg == ApplyDefaults(doc)
current == measured[cur]

\* runWarmup is at work on the probe after those it had an answer to.
Warming == command = "test" /\ warmed < Len(doc.probes)
probe == doc.probes[IF Warming THEN warmed + 1 ELSE Len(current) + 1]

Chosen(k) == only \in {"", doc.scenarios[k].name}
Phases == {0} \cup {k \in DOMAIN doc.scenarios : command = "test" /\ Chosen(k)}
Remaining == {k \in Phases : k > cur}

Causes == {"none", "config", "infra", "output", "failed"}

\* appx.ExitCode; an error of no kind counts as infrastructure.
ExitCode == CASE cause = "none"   -> 0
              [] cause = "failed" -> 1
              [] cause = "config" -> 2
              [] OTHER            -> 3

Places == {"load", "dial", "start", "compile", "reset", "resetting", "prepare",
           "probe", "http", "command", "running", "judge", "wait", "audit",
           "verdict", "shutdown", "exited"}

TypeOK ==
    /\ command \in {"doctor", "test"} /\ allowUnsafe \in BOOLEAN
    /\ only \in STRING /\ noWarmup \in BOOLEAN
    /\ doc \in Document
    /\ pc \in Places
    /\ ctxDone \in BOOLEAN /\ expired \in BOOLEAN
    /\ result \in Result /\ runErr \in BOOLEAN /\ held \in BOOLEAN
    /\ cur \in Phases
    /\ warmed \in 0..Len(doc.probes)
    /\ tries \in Nat /\ (tries > 0 => tries <= cfg["warmup_retries"])
    /\ measured \in [0..Len(doc.scenarios) -> Seq(Result)]
    /\ proxyUp \in BOOLEAN /\ traffic \in BOOLEAN /\ finding \in BOOLEAN
    /\ cause \in Causes

Init ==
    /\ \E i \in Invocations :
        /\ command = i.command /\ allowUnsafe = i.allowUnsafe
        /\ only = i.only /\ noWarmup = i.noWarmup
        /\ doc = i.doc
    /\ pc = "load"
    /\ ctxDone = FALSE /\ expired = FALSE
    /\ result = NewResult /\ runErr = FALSE /\ held = FALSE
    /\ cur = 0 /\ warmed = 0 /\ tries = 0
    /\ measured = [k \in 0..Len(doc.scenarios) |-> <<>>]
    /\ proxyUp = FALSE /\ traffic = FALSE
    /\ finding = FALSE /\ cause = "none"

-----------------------------------------------------------------------------
(* Getting ready: runDoctor and runTest do the same in a different order. *)

Steps == [doctor |-> <<"load", "dial", "start", "compile", "probe">>,
          test   |-> <<"load", "compile", "dial", "start", "reset">>]

Advance(from) ==
    /\ pc = from
    /\ \E k \in 1..4 : Steps[command][k] = from /\ pc' = Steps[command][k + 1]
    /\ UNCHANGED <<input, ctxDone, running, place, measured, traffic, outcome>>

Fails(from, why) ==
    /\ pc = from
    /\ pc' = IF proxyUp THEN "shutdown" ELSE "exited"
    /\ cause' = why
    /\ UNCHANGED <<input, ctxDone, running, place, measured, proxyUp, traffic, finding>>

Load ==
    /\ ~ctxDone
    /\ Validate(doc, cfg, allowUnsafe)
    /\ Advance("load")
    /\ UNCHANGED proxyUp

Dial == ~ctxDone /\ Advance("dial") /\ UNCHANGED proxyUp

Start == ~ctxDone /\ Advance("start") /\ proxyUp' = TRUE

CompileSchemas == ~ctxDone /\ Advance("compile") /\ UNCHANGED proxyUp

\* Load fails on usage too, and newRunID after it.  The schema file may be gone
\* since Validate looked for it, or be no schema.
NotReady ==
    \/ Fails("load", "config") \/ Fails("load", "infra")
    \/ Fails("dial", "infra")
    \/ Fails("start", "infra")
    \/ /\ ctxDone \/ \E i \in DOMAIN doc.probes : doc.probes[i].schema
       /\ Fails("compile", "config")

-----------------------------------------------------------------------------
(* The reset command, which test runs before the baseline and before every *)
(* scenario.                                                               *)

At(from, to) ==
    /\ pc = from
    /\ pc' = to
    /\ UNCHANGED <<input, ctxDone, proxyUp, traffic>>

\* The warm-up comes next, unless --no-warmup skips it.
ResetDone(from) ==
    /\ At(from, IF noWarmup THEN "prepare" ELSE "probe")
    /\ warmed' = IF noWarmup THEN Len(doc.probes) ELSE 0
    /\ tries' = 0
    /\ UNCHANGED <<running, cur, measured, outcome>>

NoReset == doc.reset = "none" /\ ResetDone("reset")

StartReset ==
    /\ doc.reset \in {"argv", "shell", "both"}
    /\ ~ctxDone
    /\ At("reset", "resetting")
    /\ expired' = FALSE
    /\ held' \in BOOLEAN
    /\ UNCHANGED <<result, runErr, place, measured, outcome>>

ResetUnstartable == doc.reset # "none" /\ Fails("reset", "infra")

\* cmd.Run returns when the process has ended and nobody holds its pipe.  The
\* context is looked at before the exit status.
ResetEnds ==
    /\ ~held
    /\ \/ ~expired /\ (\E e \in Exits : e.code = 0) /\ ResetDone("resetting")
       \/ (expired \/ \E e \in Exits : e.code # 0) /\ Fails("resetting", "infra")

-----------------------------------------------------------------------------
(* One probe, measured or to warm up: runProbeWithTimeout and runner.Run. *)

Begin ==
    /\ Warming \/ Len(current) < Len(doc.probes)
    /\ At("probe", "http")
    /\ result' = NewResult /\ runErr' = FALSE
    /\ expired' = ctxDone
    /\ UNCHANGED <<held, place, measured, outcome>>

\* runHTTP returns r, with or without an error.
HTTPReturns(r, err) ==
    /\ At("http", "command")
    /\ result' = r /\ runErr' = err
    /\ UNCHANGED <<expired, held, place, measured, outcome>>

\* There is none, or it cannot be built, which Validate rejects.
NoHTTP ==
    /\ pc = "http" /\ probe.http # "valid"
    /\ HTTPReturns(IF probe.http = "none" THEN result ELSE FailsWith(result, "build"),
                   FALSE)

\* A response may still win against a context that has just ended.
HTTPAnswers ==
    /\ pc = "http" /\ probe.http = "valid"
    /\ \E a \in Responses :
        HTTPReturns(Answered(result, a.status, a.body, a.latency, a.oversize), FALSE)

HTTPErrs ==
    /\ pc = "http" /\ probe.http = "valid"
    /\ HTTPReturns(result, TRUE)

\* runCommand returns r, with or without an error.
CommandReturns(from, r, err) ==
    /\ At(from, "judge")
    /\ result' = r /\ runErr' = (runErr \/ err)
    /\ UNCHANGED <<expired, held, place, measured, outcome>>

Runnable == probe.command \in {"argv", "both"} \/ (probe.command = "shell" /\ allowUnsafe)

\* There is none, or it may not run, which Validate rejects.
NoCommand ==
    /\ pc = "command" /\ ~Runnable
    /\ CommandReturns("command",
                      CASE probe.command = "none"  -> result
                        [] probe.command = "shell" -> FailsWith(result, "shell")
                        [] OTHER                   -> FailsWith(result, "argv"),
                      FALSE)

StartCommand ==
    /\ pc = "command" /\ Runnable
    /\ ~expired
    /\ At("command", "running")
    /\ held' \in BOOLEAN
    /\ UNCHANGED <<expired, result, runErr, place, measured, outcome>>

Unstartable ==
    /\ pc = "command" /\ Runnable
    /\ CommandReturns("command", result, TRUE)

\* Mutant: an exit status is believed even if the context has ended.
CommandEndsLate ==
    /\ ~held
    /\ pc = "running"
    /\ \E e \in Exits :
        CommandReturns("running", Exited(result, e.code, e.latency, ~expired), FALSE)

\* As of the reset command.
CommandEnds ==
    /\ ~held
    /\ pc = "running"
    /\ IF expired
       THEN CommandReturns("running", result, TRUE)
       ELSE \E e \in Exits :
                CommandReturns("running", Exited(result, e.code, e.latency, TRUE), FALSE)

PipeClosed ==
    /\ held
    /\ held' = FALSE
    /\ UNCHANGED <<input, pc, ctxDone, expired, result, runErr, place, measured,
                   proxyUp, traffic, outcome>>

-----------------------------------------------------------------------------
(* What becomes of the probe. *)

\* Its verdict does not matter to the warm-up.
WarmupAnswered ==
    /\ Warming /\ ~runErr
    /\ At("judge", IF warmed + 1 < Len(doc.probes) THEN "probe" ELSE "prepare")
    /\ warmed' = warmed + 1
    /\ UNCHANGED <<running, cur, tries, measured, outcome>>

\* Mutant: one retry too many.
WarmupErrsAgain ==
    /\ Warming /\ runErr
    /\ tries <= cfg["warmup_retries"]
    /\ At("judge", "wait")
    /\ UNCHANGED <<running, place, measured, outcome>>

WarmupErrs ==
    /\ Warming /\ runErr
    /\ tries < cfg["warmup_retries"]
    /\ At("judge", "wait")
    /\ UNCHANGED <<running, place, measured, outcome>>

\* waitContext: without a delay the context decides, else it may lose.
Wait ==
    /\ cfg["warmup_delay"] <= 0 => ~ctxDone
    /\ At("wait", "probe")
    /\ warmed' = 0 /\ tries' = tries + 1
    /\ UNCHANGED <<running, cur, measured, outcome>>

WarmupFails ==
    \/ Warming /\ runErr /\ tries >= cfg["warmup_retries"] /\ Fails("judge", "infra")
    \/ ctxDone /\ Fails("wait", "infra")

\* The baseline's result of the probe, found by its name.
Baseline ==
    LET same == {k \in DOMAIN doc.probes : doc.probes[k].name = probe.name}
    IN  IF cur = 0 THEN {}
        ELSE {measured[0][k] : k \in {m \in same : \A other \in same : other <= m}}

Record == measured' = [measured EXCEPT ![cur] = Append(@, Judged(probe, Baseline, result))]

Judge ==
    /\ ~Warming /\ ~runErr
    /\ At("judge", "probe")
    /\ Record
    /\ UNCHANGED <<running, place, outcome>>

\* doctor prints the verdict at once.
OutputFails ==
    /\ command = "doctor" /\ ~runErr
    /\ At("judge", "shutdown")
    /\ Record
    /\ cause' = "output"
    /\ UNCHANGED <<running, place, finding>>

ProbeErrs == ~Warming /\ runErr /\ Fails("judge", "infra")

-----------------------------------------------------------------------------
(* The phases of test, and the end of either command. *)

\* prepareScenario's switch.
Preparable == {"random_miss", "redis_unavailable", "cold_cache"}

\* Before the baseline it is SetScenario alone.  Before a scenario pingUpstream
\* and prepareScenario, which for cold_cache looks at allow_key_deletes again.
Prepare ==
    /\ cur > 0 =>
        /\ ~ctxDone
        /\ doc.scenarios[cur].type \in Preparable
        /\ doc.scenarios[cur].type = "cold_cache" => doc.allowKeyDeletes
    /\ At("prepare", "probe")
    /\ UNCHANGED <<running, place, measured, outcome>>

\* An unknown type is a configuration error, after the ping.
NotPrepared ==
    /\ cur > 0
    /\ \E why \in {"infra"} \cup
                  (IF doc.scenarios[cur].type \in Preparable THEN {} ELSE {"config"}) :
        Fails("prepare", why)

PhaseMeasured == pc = "probe" /\ ~Warming /\ Len(current) = Len(doc.probes)

\* Mutant: --only is not looked at.
NextScenarioOfAll ==
    /\ PhaseMeasured
    /\ command = "test" /\ cur < Len(doc.scenarios)
    /\ At("probe", "reset")
    /\ cur' = cur + 1
    /\ UNCHANGED <<running, warmup, measured, outcome>>

\* Those that --only does not name are skipped.
NextScenario ==
    /\ PhaseMeasured
    /\ At("probe", "reset")
    /\ \E k \in Remaining :
        /\ \A other \in Remaining : k <= other
        /\ cur' = k
    /\ UNCHANGED <<running, warmup, measured, outcome>>

PhasesDone ==
    /\ PhaseMeasured
    /\ Remaining = {}
    /\ At("probe", IF command = "test" THEN "audit" ELSE "verdict")
    /\ UNCHANGED <<running, place, measured, outcome>>

\* test's audit; no-redis-traffic of the baseline is among the findings.
Audit ==
    /\ ~ctxDone
    /\ At("audit", "shutdown")
    /\ finding' \in BOOLEAN
    /\ UNCHANGED <<running, place, measured, cause>>

\* Mutant: the verdict of the last probe decides.
LastPassed == current # <<>> /\ current[Len(current)].passed

AllPassed == \A k \in DOMAIN measured : \A i \in DOMAIN measured[k] : measured[k][i].passed

\* The doctor's own finding is that it saw no traffic.
Found == IF command = "doctor" THEN ~traffic ELSE finding

\* doctor judges before the deferred Shutdown, test after it.
Verdict ==
    /\ At("verdict", IF command = "doctor" THEN "shutdown" ELSE "exited")
    /\ cause' = IF AllPassed /\ ~Found THEN "none" ELSE "failed"
    /\ UNCHANGED <<running, place, measured, finding>>

\* The audit, the reports of test, the lines doctor prints.
VerdictFails ==
    \/ Fails("audit", "infra")
    \/ command = "test" /\ Fails("verdict", "infra")
    \/ command = "doctor" /\ Fails("verdict", "output")

\* The deferred Shutdown of the proxy.
Shutdown ==
    /\ pc = "shutdown"
    /\ pc' = IF command = "test" /\ cause = "none" THEN "verdict" ELSE "exited"
    /\ proxyUp' = FALSE
    /\ UNCHANGED <<input, ctxDone, running, place, measured, traffic, outcome>>

-----------------------------------------------------------------------------
(* Time, signals and the app. *)

\* Mutant: probe_timeout is not applied to the reset command.
DeadlineOfProbes ==
    /\ command = "test" /\ cfg["probe_timeout"] > 0
    /\ pc \in {"http", "command", "running"}
    /\ ~expired
    /\ expired' = TRUE
    /\ UNCHANGED <<input, pc, ctxDone, result, runErr, held, place, measured, proxyUp,
                   traffic, outcome>>

\* probe_timeout, if it is positive; doctor runs its probes without it.
Deadline ==
    /\ command = "test" /\ cfg["probe_timeout"] > 0
    /\ pc \in {"resetting", "http", "command", "running"}
    /\ ~expired
    /\ expired' = TRUE
    /\ UNCHANGED <<input, pc, ctxDone, result, runErr, held, place, measured, proxyUp,
                   traffic, outcome>>

Cancel ==
    /\ ~ctxDone /\ pc # "exited"
    /\ ctxDone' = TRUE /\ expired' = TRUE
    /\ UNCHANGED <<input, pc, result, runErr, held, place, measured, proxyUp, traffic,
                   outcome>>

\* A command of the app reaches the recorder before doctor looks.
Traffic ==
    /\ command = "doctor" /\ proxyUp /\ ~traffic
    /\ pc # "shutdown"
    /\ traffic' = TRUE
    /\ UNCHANGED <<input, pc, ctxDone, running, place, measured, proxyUp, outcome>>

\* The steps that wait for no process and no answer of the app.
Proceed ==
    \/ Load \/ Dial \/ Start \/ CompileSchemas \/ NotReady
    \/ NoReset \/ StartReset \/ ResetUnstartable
    \/ Begin \/ NoHTTP \/ NoCommand \/ StartCommand \/ Unstartable
    \/ WarmupAnswered \/ WarmupErrs \/ Wait \/ WarmupFails
    \/ Judge \/ OutputFails \/ ProbeErrs
    \/ Prepare \/ NotPrepared \/ NextScenario \/ PhasesDone
    \/ Audit \/ Verdict \/ VerdictFails \/ Shutdown

Next ==
    \/ Proceed
    \/ ResetEnds \/ HTTPAnswers \/ HTTPErrs \/ CommandEnds \/ PipeClosed
    \/ Deadline \/ Cancel \/ Traffic

Spec == Init /\ [][Next]_vars

\* Proceed: the Redis client bounds each of its calls (client.go:36, 78), SCAN
\* comes to its end, Shutdown to its own (Quiesces of Proxy), and the file system
\* and standard output take what is written.  A process or the app answers when
\* it likes; net/http gives up and os/exec kills the process once the context has
\* ended, and cmd.Run then returns when the pipe is not held.
FairSpec ==
    /\ Spec
    /\ WF_vars(Proceed)
    /\ WF_vars(Deadline)
    /\ WF_vars(expired /\ (ResetEnds \/ HTTPErrs \/ CommandEnds))

-----------------------------------------------------------------------------
(* Properties. *)

\* validateDeletePattern of policy, a copy of config's.
DeletePatternValid(pattern) ==
    ~pattern.bare /\ pattern.prefix >= cfg["min_delete_prefix"]

\* A configuration that was accepted gives the later phases what they take for
\* granted.  Results are told apart by the name of their probe, and the report's
\* rows by the name of their scenario, of which none reads as the baseline's;
\* prepareScenario knows each type; DeleteColdCache's own checks do not refuse
\* after a part of the run; retries and limits are in range for the loops that
\* count to them; each probe and the reset command has one thing to do, and no
\* shell runs that was not allowed.  A setting that is written in the file is the
\* one in force, unless it is zero and not in place (config_test.go:186).
AcceptedRuns ==
    pc \notin {"load", "exited"} =>
        /\ doc.probes # <<>>
        /\ \A i, j \in DOMAIN doc.probes : i # j => doc.probes[i].name # doc.probes[j].name
        /\ \A i \in DOMAIN doc.scenarios :
            /\ doc.scenarios[i].name \notin LikeBaseline
            /\ \A j \in DOMAIN doc.scenarios \ {i} :
                doc.scenarios[i].name # doc.scenarios[j].name
            /\ doc.scenarios[i].type \in Preparable
            /\ doc.scenarios[i].type = "cold_cache" =>
                /\ doc.allowKeyDeletes
                /\ \A k \in DOMAIN doc.profiles :
                    doc.profiles[k].disposable =>
                        \A pattern \in doc.profiles[k].patterns : DeletePatternValid(pattern)
        /\ cfg["warmup_retries"] >= 0 /\ cfg["max_keys_delete"] > 0
        /\ cfg["max_keys_scanned"] > 0 /\ cfg["max_value_bytes"] > 0
        /\ \A i \in DOMAIN doc.probes :
            \/ doc.probes[i].http = "valid" /\ doc.probes[i].command = "none"
            \/ doc.probes[i].http = "none" /\ doc.probes[i].command \in {"argv", "shell"}
        /\ doc.reset \in {"none", "argv", "shell"}
        /\ ~allowUnsafe =>
            "shell" \notin {doc.reset} \cup {doc.probes[i].command : i \in DOMAIN doc.probes}
        /\ \A s \in Setting :
            doc.written[s] # Absent /\ (s \in doc.inPlace \/ doc.written[s] # 0)
                => cfg[s] = doc.written[s]

\* No probe passes, not even one that is expected to fail, unless the app gave
\* an HTTP response or the command ran and ended while its context was alive.
PassMeansRan ==
    \A k \in DOMAIN measured : \A i \in DOMAIN measured[k] :
        measured[k][i].passed => measured[k][i].answered

\* A probe that passes in a scenario returned at each path of
\* json_equals_baseline what the baseline's probe of that name had returned
\* there, if that had anything there.
PassMeansSame ==
    \A k \in DOMAIN measured \ {0} : \A i \in DOMAIN measured[k] :
        measured[k][i].passed /\ doc.probes[i].expect # "fail" =>
            \A j \in DOMAIN doc.probes[i].equals :
                LET path == doc.probes[i].equals[j]
                    was == measured[0][i].body.at[path]
                IN  was # Missing => measured[k][i].body.at[path] = was

\* The exit codes of README.md:139, and a proxy that is not left running.
\* 0 and 1: the baseline and every scenario that --only leaves were measured with
\* every probe, and nothing else was.  0: all of it passed, the doctor saw
\* traffic, and test has no finding that counts.  1: it is not so.  2: nothing
\* was measured and no probe was begun.
Failed(results) == \E i \in DOMAIN results : ~results[i].passed

ExitMeaning ==
    pc = "exited" =>
        /\ ~proxyUp
        /\ ExitCode \in {0, 1} =>
            /\ \A k \in DOMAIN measured :
                Len(measured[k]) = IF k \in Phases THEN Len(doc.probes) ELSE 0
            /\ ExitCode = 1 <=> \/ \E k \in DOMAIN measured : Failed(measured[k])
                                \/ command = "doctor" /\ ~traffic
                                \/ command = "test" /\ finding
        /\ ExitCode = 2 =>
            result = NewResult /\ \A k \in DOMAIN measured : measured[k] = <<>>

\* A test whose probe_timeout is positive ends, whatever the app and the probes
\* do, and so does each command after a signal, unless some process holds the
\* pipe that cmd.Run waits for, for good: a probe's command or the reset command
\* may have left it behind.
Bounded == ctxDone \/ (command = "test" /\ cfg["probe_timeout"] > 0)
Ends == (pc # "load" /\ Bounded) ~> (pc = "exited" \/ []held)
=============================================================================
