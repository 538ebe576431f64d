------------------------------ MODULE CommandsMC ------------------------------
(***************************************************************************)
(* Three families of command lines: every choice of assertions of one HTTP *)
(* probe; plain probes with a change to the rest of the file; and the      *)
(* phases of test, with --only, --no-warmup, a reset command and retries.  *)
(***************************************************************************)
EXTENDS Commands

CONSTANTS v1, v2

MCPath == {"id"}
MCValue == {v1, v2}
MCLikeBaseline == {"baseline", "Baseline", "BASELINE"}

Write(settings) ==
    [s \in Setting |-> IF s \in DOMAIN settings THEN settings[s] ELSE Absent]

HTTPProbe(name) ==
    [name |-> name, http |-> "valid", command |-> "none", expect |-> "pass",
     status |-> 200, schema |-> FALSE, equals |-> <<>>, increase |-> 0,
     exitCode |-> Absent]

CommandProbe(name, kind) ==
    [HTTPProbe(name) EXCEPT !.http = "none", !.command = kind, !.status = 0,
                            !.exitCode = 0]

Misses == [name |-> "misses", type |-> "random_miss", percent |-> 30]
Cold == [name |-> "cold", type |-> "cold_cache", percent |-> 0]

ProfileOf(disposable, prefix) ==
    [disposable |-> disposable, patterns |-> {[prefix |-> prefix, bare |-> prefix = 0]}]

Plain ==
    [written |-> Write([probe_timeout |-> 5]), inPlace |-> Setting, named |-> TRUE,
     passwordSet |-> TRUE, schemaExists |-> TRUE, allowKeyDeletes |-> TRUE,
     profiles |-> <<ProfileOf(TRUE, 3)>>, scenarios |-> <<Misses>>,
     probes |-> <<CommandProbe("cmd", "argv")>>, reset |-> "none"]

\* One probe, and what it asserts.
Asserting ==
    {[Plain EXCEPT !.probes =
        <<[HTTPProbe("p") EXCEPT !.expect = expect, !.status = status,
                                 !.schema = schema, !.equals = equals,
                                 !.increase = increase]>>] :
        expect \in {"", "fail"}, status \in {0, 200}, schema \in BOOLEAN,
        equals \in {<<>>, <<"id">>}, increase \in {0, 100}}

Settings ==
    {[probe_timeout |-> t] : t \in {-1, 0, 5}}
    \cup {[warmup_retries |-> n] : n \in {0, 11}}
    \cup {[max_keys_delete |-> n, min_delete_prefix |-> 2] : n \in {0, 1}}
    \cup {[max_keys_scanned |-> 0], [suspicious_commands |-> 0], [seed |-> 0],
          [listen |-> 0], [upstream |-> 0, listen |-> 2]}

\* Every setting in place, under an alias or a merge key, or some of each.
Configuring ==
    {[Plain EXCEPT !.written = Write(settings), !.inPlace = inPlace] :
        settings \in Settings,
        inPlace \in {Setting, {}, {"min_delete_prefix", "listen"}}}

\* What the scenario that deletes keys needs, and another scenario does not.
Deleting ==
    {[Plain EXCEPT !.written = Write(settings), !.allowKeyDeletes = allow,
                   !.profiles = <<ProfileOf(disposable, prefix)>>,
                   !.scenarios = <<scenario>>] :
        settings \in {<<>>, [min_delete_prefix |-> 2]}, allow \in BOOLEAN,
        disposable \in BOOLEAN, prefix \in {0, 2, 3}, scenario \in {Cold, Misses}}

\* Probes of every form, one or two of them, and rows that break other rules.
Probing ==
    {[Plain EXCEPT !.probes = probes] :
        probes \in {<<>>, <<CommandProbe("a", "argv"), CommandProbe("a", "argv")>>,
                    <<CommandProbe("a", "argv"), CommandProbe("b", "shell")>>}
                   \cup {<<[CommandProbe("c", kind) EXCEPT !.http = http,
                                                           !.expect = expect]>> :
                         kind \in {"none", "neither", "argv", "shell", "both"},
                         http \in {"none", "valid", "malformed"},
                         expect \in {"pass", "fail"}}}
    \cup {[Plain EXCEPT !.scenarios = <<>>],
          [Plain EXCEPT !.scenarios = <<Misses, Cold, Misses>>],
          [Plain EXCEPT !.scenarios = <<[Misses EXCEPT !.name = "BASELINE"]>>],
          [Plain EXCEPT !.scenarios = <<[Misses EXCEPT !.type = "other"]>>],
          [Plain EXCEPT !.reset = "shell"], [Plain EXCEPT !.reset = "neither"],
          [Plain EXCEPT !.passwordSet = FALSE],
          [Plain EXCEPT !.probes = <<[HTTPProbe("p") EXCEPT !.schema = TRUE]>>,
                        !.schemaExists = FALSE]}

\* Two scenarios or two probes, a reset command or none, retries with a delay or
\* without.
Phased ==
    {[Plain EXCEPT !.scenarios = IF Len(probes) = 1 THEN <<Misses, Cold>> ELSE <<Cold>>,
                   !.reset = reset, !.probes = probes,
                   !.written = Write([probe_timeout |-> timeout,
                                      warmup_retries |-> 1, warmup_delay |-> delay])] :
        reset \in {"none", "argv"}, timeout \in {-1, 5}, delay \in {0, 1},
        probes \in {<<CommandProbe("a", "argv")>>,
                    <<CommandProbe("a", "argv"), CommandProbe("b", "argv")>>}}

MCInvocations ==
    [command : {"doctor", "test"}, allowUnsafe : BOOLEAN, only : {""}, noWarmup : {TRUE},
     doc : Configuring \cup Deleting \cup Probing]
    \cup [command : {"doctor", "test"}, allowUnsafe : {FALSE}, only : {""},
          noWarmup : {TRUE}, doc : Asserting]
    \cup [command : {"test"}, allowUnsafe : {FALSE}, only : {"", "misses", "cold", "typo"},
          noWarmup : BOOLEAN, doc : Phased]

HasID(value) == [json |-> TRUE, at |-> [path \in Path |-> value]]

Response(status, body, latency, oversize) ==
    [status |-> status, body |-> body, latency |-> latency, oversize |-> oversize]

MCResponses ==
    {Response(200, body, 1, FALSE) :
        body \in {NoBody, HasID(Missing), HasID(v1), HasID(v2)}}
    \cup {Response(500, HasID(v1), 1, FALSE), Response(200, HasID(v1), 3, FALSE),
          Response(200, NoBody, 1, TRUE)}

MCExits == {[code |-> code, latency |-> 1] : code \in {0, 1}}
=============================================================================
