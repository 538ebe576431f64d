---------------------------- MODULE PolicyAuditMC ----------------------------
(***************************************************************************)
(* The traffic and the keys meet in the report alone: the instance varies  *)
(* the traffic over a Redis without keys, or the keys without it.          *)
(***************************************************************************)
EXTENDS PolicyAudit, TTLAuditMC

CONSTANTS small, big, c1, c2

MCName == {"GET", "HSET", "XADD"}
MCArg == {small, big}
MCSize == [a \in MCArg |-> IF a = big THEN 3 ELSE 1]
MCScenarios == <<"baseline", "misses">>

\* A read; a suspicious command with a big value, whose values are not sized; and
\* of one that is, a big value behind a small one, and a field as long, which is none.
MCCommands ==
    {[name |-> "GET",  args |-> <<small>>],
     [name |-> "XADD", args |-> <<small, small, big, big>>],
     [name |-> "HSET", args |-> <<small, big, small, small, small>>],
     [name |-> "HSET", args |-> <<small, small, small, small, big>>]}

Bounded == sent' # {} => \A k \in Key : ttl'[k] = Absent

MCSpec == AuditInit /\ [][AuditNext /\ Bounded]_auditVars
=============================================================================
