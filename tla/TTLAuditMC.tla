----------------------------- MODULE TTLAuditMC -----------------------------
(***************************************************************************)
(* A strict profile and a lax one over the same two keys.                  *)
(***************************************************************************)
EXTENDS TTLAudit

CONSTANTS k1, k2

MCKey == {k1, k2}
MCTimes == {1500, 3000}

\* max_ttl in whole seconds.
MCPatterns ==
    <<[keys |-> {k1, k2}, mustExpire |-> TRUE,  maxTTL |-> 2000],
      [keys |-> {k2},     mustExpire |-> FALSE, maxTTL |-> 0]>>

\* max_ttl: "1900ms".
MCFractionPatterns ==
    <<[keys |-> {k1, k2}, mustExpire |-> TRUE,  maxTTL |-> 1900]>>
=============================================================================
