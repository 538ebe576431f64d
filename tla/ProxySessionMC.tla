--------------------------- MODULE ProxySessionMC ---------------------------
(***************************************************************************)
(* Small vocabularies for ProxySession.                                    *)
(***************************************************************************)
EXTENDS ProxySession

Cmd(name, key, version) == [name |-> name, key |-> key, version |-> version]

\* Transactions, protocol versions, a subscription; GET misses, SET does not.
MCCommands ==
    {Cmd("GET", "k1", 0), Cmd("SET", "k1", 0), Cmd("MULTI", NoKey, 0),
     Cmd("EXEC", NoKey, 0), Cmd("DISCARD", NoKey, 0), Cmd("RESET", NoKey, 0), Cmd("HELLO", NoKey, 2),
     Cmd("HELLO", NoKey, 3), Cmd("SUBSCRIBE", NoKey, 0)}

MCPubSub == {Cmd("SET", "k1", 0), Cmd("SUBSCRIBE", NoKey, 0)}
=============================================================================
