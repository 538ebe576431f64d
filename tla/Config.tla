-------------------------------- MODULE Config --------------------------------
(***************************************************************************)
(* internal/config: what Load makes of a configuration file.  Defaults are *)
(* filled in where a value is zero and its key is not in the file; Validate *)
(* then accepts the result or rejects it.                                  *)
(*                                                                         *)
(* A setting is a number: a list is its length, an address is 0 when it is *)
(* empty, a duration in the unit of its default.                           *)
(***************************************************************************)
EXTENDS Integers, Sequences, FiniteSets

CONSTANTS
    Absent,         \* a setting whose key is not in the file
    LikeBaseline    \* the names strings.EqualFold takes for "baseline"

ASSUME LikeBaselineAssumption == "baseline" \in LikeBaseline

DefaultOf ==
    [listen |-> 1, upstream |-> 1, seed |-> 1, probe_timeout |-> 30,
     warmup_retries |-> 1, warmup_delay |-> 500, max_keys_delete |-> 10000,
     min_delete_prefix |-> 3, max_value_bytes |-> 1048576,
     max_keys_scanned |-> 5000, suspicious_commands |-> 11]

Setting == DOMAIN DefaultOf

Profile == [disposable : BOOLEAN, patterns : SUBSET [prefix : Nat, bare : BOOLEAN]]

Scenario == [name : STRING, type : STRING, percent : Int]

CommandSpec == {"none", "neither", "argv", "shell", "both"}

Probe ==
    [name : STRING, http : {"none", "valid", "malformed"}, command : CommandSpec,
     expect : {"", "pass", "fail"}, status : Int, schema : BOOLEAN,
     equals : Seq(STRING), increase : Int, exitCode : Int \cup {Absent}]

\* The file: the settings the YAML decoder finds in it, those of them whose key
\* is written in place, and the parts without defaults.  A setting is not in
\* place if it comes through a merge key, or if its section is an alias of another
\* node.  "named" stands for the version and the form of names, methods and URLs.
Document ==
    [written : [Setting -> Int \cup {Absent}], inPlace : SUBSET Setting,
     named : BOOLEAN, passwordSet : BOOLEAN, schemaExists : BOOLEAN,
     allowKeyDeletes : BOOLEAN, profiles : Seq(Profile), scenarios : Seq(Scenario),
     probes : Seq(Probe), reset : CommandSpec]

-----------------------------------------------------------------------------
(* Load. *)

Decoded(doc, s) == IF doc.written[s] = Absent THEN 0 ELSE doc.written[s]

\* hasYAMLKey goes by the nodes as written: it follows neither the alias of a
\* section nor a merge key.
HasYAMLKey(doc, s) == doc.written[s] # Absent /\ s \in doc.inPlace

ApplyDefaults(doc) ==
    [s \in Setting |->
        IF Decoded(doc, s) = 0 /\ ~HasYAMLKey(doc, s)
        THEN DefaultOf[s]
        ELSE Decoded(doc, s)]

-----------------------------------------------------------------------------
(* Validate. *)

Required == {"listen", "upstream", "max_keys_delete", "min_delete_prefix",
             "max_value_bytes", "max_keys_scanned"}

\* The validate tags.  probe_timeout is required, so not zero, and no more.
TagsHold(doc, cfg) ==
    /\ doc.named
    /\ \A s \in Required : cfg[s] >= 1
    /\ cfg["probe_timeout"] # 0
    /\ cfg["warmup_retries"] \in 0..10
    /\ \A i \in DOMAIN doc.profiles : doc.profiles[i].patterns # {}
    /\ \A i \in DOMAIN doc.scenarios :
        /\ doc.scenarios[i].type \in {"random_miss", "redis_unavailable", "cold_cache"}
        /\ doc.scenarios[i].percent \in 0..100
    /\ Len(doc.probes) >= 1
    /\ \A i \in DOMAIN doc.probes :
        LET probe == doc.probes[i] IN
        /\ probe.http # "malformed"
        /\ probe.status = 0 \/ probe.status \in 100..599
        /\ probe.increase >= 0
        /\ probe.exitCode = Absent \/ probe.exitCode \in 0..255

\* Mutant: only neighbours are compared.
UniqueNeighbours(rows) ==
    \A i \in 2..Len(rows) : rows[i].name # rows[i - 1].name

UniqueNames(rows) ==
    \A i, j \in DOMAIN rows : rows[i].name = rows[j].name => i = j

\* DeleteColdCache has a copy of its own, DeletePatternValid of Commands.
ValidateDeletePattern(pattern, minPrefix) ==
    ~pattern.bare /\ pattern.prefix >= minPrefix

PatternsDeletable(doc, minPrefix) ==
    \A i \in DOMAIN doc.profiles :
        doc.profiles[i].disposable =>
            \A pattern \in doc.profiles[i].patterns :
                ValidateDeletePattern(pattern, minPrefix)

\* Mutant: the patterns are left to policy to reject.
ScenarioValidButPatterns(doc, cfg, scenario) ==
    /\ scenario.name \notin LikeBaseline
    /\ scenario.type = "cold_cache" =>
        /\ \E i \in DOMAIN doc.profiles : doc.profiles[i].disposable
        /\ doc.allowKeyDeletes

ScenarioValid(doc, cfg, scenario) ==
    /\ scenario.name \notin LikeBaseline
    /\ scenario.type = "cold_cache" =>
        /\ \E i \in DOMAIN doc.profiles : doc.profiles[i].disposable
        /\ doc.allowKeyDeletes
        /\ PatternsDeletable(doc, cfg["min_delete_prefix"])

\* Exactly one of argv and shell, and shell only with --allow-unsafe-commands.
CommandValid(command, allowUnsafe) ==
    /\ command \in {"argv", "shell"}
    /\ command = "shell" => allowUnsafe

ProbeValid(doc, probe, allowUnsafe) ==
    /\ (probe.http = "none") # (probe.command = "none")
    /\ probe.command # "none" => CommandValid(probe.command, allowUnsafe)
    /\ \A i, j \in DOMAIN probe.equals : probe.equals[i] = probe.equals[j] => i = j
    /\ probe.schema => doc.schemaExists

Validate(doc, cfg, allowUnsafe) ==
    /\ TagsHold(doc, cfg)
    /\ UniqueNames(doc.probes) /\ UniqueNames(doc.scenarios)
    /\ \A i \in DOMAIN doc.scenarios : ScenarioValid(doc, cfg, doc.scenarios[i])
    /\ doc.passwordSet
    /\ \A i \in DOMAIN doc.probes : ProbeValid(doc, doc.probes[i], allowUnsafe)
    /\ doc.reset # "none" => CommandValid(doc.reset, allowUnsafe)
=============================================================================
