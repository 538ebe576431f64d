------------------------------- MODULE Recorder -------------------------------
(***************************************************************************)
(* internal/recorder: what the handlers of the proxy tell the recorder     *)
(* about the commands they read.  Each operation holds the lock, so it is  *)
(* one function from the recorder's state to the next.                     *)
(*                                                                         *)
(* An argument is a model value with a size; args[i] is Args[i] of the     *)
(* code, whose Args[0] is the name.  Keys are told apart by their hash.    *)
(***************************************************************************)
EXTENDS Integers, Sequences, FiniteSetsExt

CONSTANTS
    Name,           \* names of commands, upper case
    Arg, Size,      \* arguments, and their length in bytes
    Scenarios,      \* the names the orchestrator sets, in order
    MaxValueBytes

ASSUME ArgAssumption == Size \in [Arg -> Nat]
ASSUME MaxValueAssumption == MaxValueBytes \in Nat
ASSUME NameAssumption == IsFiniteSet(Name) /\ Scenarios \in Seq(STRING)

CommandType == [name : Name, args : Seq(Arg)]
ScenarioName == {"unknown"} \cup {Scenarios[i] : i \in DOMAIN Scenarios}

RecorderType ==
    [scenario : ScenarioName, rows : Nat, counts : [Name -> Nat],
     byScenario : [ScenarioName -> [Name -> Nat]], keys : SUBSET Arg,
     maxValueSeen : Nat, bigValues : Nat]

New ==
    [scenario |-> "unknown", rows |-> 0, counts |-> [n \in Name |-> 0],
     byScenario |-> [s \in ScenarioName |-> [n \in Name |-> 0]], keys |-> {},
     maxValueSeen |-> 0, bigValues |-> 0]

KeyPosition ==
    {"GET", "SET", "SETEX", "SETNX", "PSETEX", "GETEX", "GETDEL", "DEL", "UNLINK",
     "EXPIRE", "PEXPIRE", "TTL", "PTTL", "PERSIST", "INCR", "DECR", "INCRBY", "APPEND",
     "STRLEN", "HGET", "HSET", "HDEL", "HGETALL", "HMGET", "LPUSH", "RPUSH", "LPOP",
     "RPOP", "LRANGE", "LLEN", "SADD", "SREM", "SMEMBERS", "ZADD", "ZRANGE", "ZSCORE",
     "XADD", "EXISTS", "TYPE", "DUMP"}

KeyOf(cmd) == IF cmd.name \in KeyPosition /\ cmd.args # <<>> THEN {cmd.args[1]} ELSE {}

\* Where the values of a command are.
ValuePosition(cmd) ==
    DOMAIN cmd.args \cap
        CASE cmd.name \in {"SET", "APPEND"}     -> {2}
          [] cmd.name \in {"SETEX", "PSETEX"}   -> {3}
          [] cmd.name = "HSET"                  -> {i \in DOMAIN cmd.args : i >= 3 /\ i % 2 = 1}
          [] OTHER                              -> {}

\* valueSize; a command without a value has size 0, which counts for nothing.
ValueSize(cmd) == Max({0} \cup {Size[cmd.args[i]] : i \in ValuePosition(cmd)})

SetScenario(rec, name) == [rec EXCEPT !.scenario = name]

Observed(rec, cmd) ==
    LET size == ValueSize(cmd)
    IN  [rec EXCEPT
            !.rows = @ + 1,
            !.counts[cmd.name] = @ + 1,
            !.byScenario[rec.scenario][cmd.name] = @ + 1,
            !.keys = @ \cup KeyOf(cmd),
            !.maxValueSeen = Max({@, size}),
            !.bigValues = IF MaxValueBytes > 0 /\ size > MaxValueBytes
                          THEN @ + 1 ELSE @]

\* Every command is counted once by name and once by scenario.
AddsUp(rec) ==
    /\ rec.rows = SumFunction(rec.counts)
    /\ \A n \in Name :
        rec.counts[n] = SumFunction([s \in ScenarioName |-> rec.byScenario[s][n]])
=============================================================================
