----------------------------- MODULE FaultEngine -----------------------------
(***************************************************************************)
(* The fault engines of internal/fault and the verdict internal/proxy      *)
(* reaches with them for one command.                                      *)
(*                                                                         *)
(* A command is a record: its upper-case name and the key Command.Key      *)
(* finds in it (NoKey when it has none).  shouldMiss hashes the seed and   *)
(* the key, and nothing else that changes during a run; the keys it        *)
(* selects are therefore the constant set MissKeys.                        *)
(***************************************************************************)
CONSTANTS
    Key,       \* the keys commands name
    NoKey,     \* Command.Key found no key
    MissKeys   \* the keys shouldMiss answers true for

ASSUME KeyAssumption == NoKey \notin Key /\ MissKeys \subseteq Key

PassThrough == "pass-through"
RandomMiss  == "random-miss"
Unavailable == "redis-unavailable"
Engine == {PassThrough, RandomMiss, Unavailable}

CommandType == [name : STRING, key : Key \cup {NoKey}]

readCommands == {"GET", "GETEX", "GETDEL", "HGET"}

unsupportedUnderFault ==
    {"SUBSCRIBE", "PSUBSCRIBE", "PUBLISH", "BLPOP", "BRPOP", "BZPOPMIN",
     "BZPOPMAX", "MONITOR", "MULTI", "EXEC", "WATCH", "UNWATCH", "EVAL",
     "EVALSHA"}

RefuseConnections(e) == e = Unavailable

\* RandomMiss.Decide replaces a read of a selected key.
Selected(cmd) == cmd.name \in readCommands /\ cmd.key \in MissKeys

Decide(e, cmd) ==
    CASE e = PassThrough -> "forward"
      [] e = RandomMiss  -> IF Selected(cmd) THEN "miss" ELSE "forward"
      [] e = Unavailable -> "drop"

\* What the handler does with a command under the engine it has just read:
\* hang up, refuse the command with an error, or what Decide says.
Verdict(e, cmd) ==
    CASE RefuseConnections(e) -> "drop"
      [] ~RefuseConnections(e) /\ e # PassThrough /\ cmd.name \in unsupportedUnderFault -> "reject"
      [] OTHER -> Decide(e, cmd)
=============================================================================
