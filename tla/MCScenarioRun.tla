---------------------------- MODULE MCScenarioRun ----------------------------
(* A small instance of ScenarioRun for TLC: the scenarios of               *)
(* configs/default.yaml, their fail rates rounded to never, sometimes and  *)
(* always.                                                                 *)
EXTENDS ScenarioRun

MCRate == 1 :> 2 @@ 2 :> 1
MCCallCost == 1 :> {2} @@ 2 :> {1}

Both(primary, backup) == 1 :> primary @@ 2 :> backup

MCFailRate ==
  "all_healthy"         :> Both("never", "never") @@
  "primary_timeout_100" :> Both("always", "sometimes") @@
  "primary_flaky_50"    :> Both("sometimes", "sometimes") @@
  "primary_recovers"    :> Both("always", "never")

MCScenarios == DOMAIN MCFailRate

MCRecoverAfter ==
  [s \in MCScenarios |-> IF s = "primary_recovers" THEN 2 ELSE 0]

(* Asked of primary_recovers only. *)
MCRecoveredRate == [s \in MCScenarios |-> Both("never", "never")]

ASSUME ConfiguredRates == AsConfigured

Symmetric == Permutations(Threads)
=============================================================================
