--------------------------- MODULE OrchestratorMC ---------------------------
(***************************************************************************)
(* Three scenarios, one of each type.                                      *)
(***************************************************************************)
EXTENDS Orchestrator

MCScenarios ==
    <<[name |-> "misses", type |-> "random_miss"],
      [name |-> "down",   type |-> "redis_unavailable"],
      [name |-> "cold",   type |-> "cold_cache"]>>

MCTwoScenarios == Tail(MCScenarios)
=============================================================================
