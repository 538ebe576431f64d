------------------------------- MODULE ProxyMC -------------------------------
(***************************************************************************)
(* Proxy on a few connections.  One command for each verdict an engine can *)
(* reach: a read that misses, one that must be refused under a fault, and  *)
(* one that every engine but "redis-unavailable" forwards.                 *)
(***************************************************************************)
EXTENDS Proxy, TLC

MCCommands == {[name |-> "GET", key |-> "k1"],
               [name |-> "MULTI", key |-> NoKey],
               [name |-> "SET", key |-> "k1"]}

\* Forwarded by every engine that lets a connection live.
MCForwarded == {[name |-> "SET", key |-> "k1"]}

Symmetry == Permutations(Conn)
=============================================================================
