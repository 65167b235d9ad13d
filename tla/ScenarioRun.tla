---------------------------- MODULE ScenarioRun ----------------------------
(***************************************************************************)
(* chaos.py's run_scenario: a fresh gateway, its pool of workers, and a    *)
(* scenario that says how the providers behave.  A scenario with a         *)
(* recovery point runs its requests in two batches; between them the       *)
(* providers are repaired and the runner sleeps past the reset timeout.    *)
(* In the end the responses, the breakers' logs and the latencies become   *)
(* metrics and a verdict (RunMetrics).                                     *)
(*                                                                         *)
(* The gateway is the module Gateway without a budget; a step of a worker  *)
(* is a step there, watched here for the outcome that the provider drew    *)
(* when it was called, for the log and for the response.                   *)
(***************************************************************************)
EXTENDS Gateway, RunMetrics

CONSTANTS
  Scenarios,      \* names of scenarios
  FailRate,       \* FailRate[s][p]: p's fail_rate, provider_overrides applied
  RecoverAfter,   \* RecoverAfter[s]: recover_after_requests; 0 for None
  RecoveredRate,  \* RecoveredRate[s][p]: recovered_provider_overrides applied
  Latencies,      \* what the latency of a provider's answer may be
  MaxTicks        \* how long the batches may take together

ASSUME ScenarioAssumption ==
  /\ IsFiniteSet(Providers) /\ Providers = 1..Cardinality(Providers)
  /\ FailRate \in [Scenarios -> [Providers -> {"never", "sometimes", "always"}]]
  /\ RecoveredRate \in [Scenarios -> [Providers -> {"never", "sometimes", "always"}]]
  /\ RecoverAfter \in [Scenarios -> Nat]
  /\ Latencies \subseteq Nat
  /\ MaxTicks \in Nat /\ MaxRequests > 0

VARIABLES
  scenario,    \* the scenario that is run
  phase,       \* "first" batch of two, "last" or only batch, or "done"
  now,         \* the clock
  doomed,      \* workers in a provider's callable that is going to fail
  attempted,   \* attempted[t]: attempted_providers of worker t's request
  responses,   \* the responses so far
  log,         \* log[p]: the transition_log of p's breaker
  latencies    \* provider_latencies_ms, when the run is done

gateway == vars
run == <<scenario, phase, now, doomed, attempted, responses, log, latencies>>

Splits(s) == RecoverAfter[s] \in 1..(MaxRequests - 1)

Response == [route : Route, attempted : SUBSET Providers, cost : 0..DearestCall]
LogEntry == [to : CircuitState, ts : Nat]

RunTypeOK ==
  /\ TypeOK
  /\ scenario \in Scenarios
  /\ phase \in {"first", "last", "done"}
  /\ now \in 0..(MaxTicks + ResetTimeout)
  /\ doomed \subseteq {t \in Threads : At(t, "calling")}
  /\ attempted \in [Threads -> SUBSET Providers]
  /\ IsABag(responses) /\ DOMAIN responses \subseteq Response
  /\ By(responses, Route) <= MaxRequests
  /\ log \in [Providers -> Seq(LogEntry)]
  /\ latencies \in Seq(Latencies)

(* build_gateway. *)
RunInit ==
  /\ Init
  /\ scenario \in Scenarios
  /\ phase = IF Splits(scenario) THEN "first" ELSE "last"
  /\ now = 0
  /\ doomed = {}
  /\ attempted = [t \in Threads |-> {}]
  /\ responses = EmptyBag
  /\ log = [p \in Providers |-> <<>>]
  /\ latencies = <<>>
-----------------------------------------------------------------------------
(* Requests of this batch that no worker has taken. *)
LeftInBatch ==
  IF phase = "first" THEN left - (MaxRequests - RecoverAfter[scenario]) ELSE left

AllIdle == \A t \in Threads : At(t, "idle")

(* Whether a call of provider p may draw a failure, whether it may not. *)
Draws(p) ==
  LET rate == IF phase = "last" /\ Splits(scenario)
              THEN RecoveredRate[scenario][p] ELSE FailRate[scenario][p]
  IN CASE rate = "never" -> {FALSE} [] rate = "always" -> {TRUE}
       [] rate = "sometimes" -> BOOLEAN

(* A provider draws its outcome when it is called, which tells how the     *)
(* call ends.                                                              *)
DrawOutcome(t) ==
  IF pc'[t] = "calling"
  THEN \E fails \in Draws(serving'[t]) :
         doomed' = IF fails THEN doomed \cup {t} ELSE doomed
  ELSE /\ At(t, "calling") => (pc'[t] = "attempt" <=> t \in doomed)
       /\ doomed' = doomed \ {t}

(* attempted_providers, of denied providers too. *)
(* Mutant: only the providers that were really called. *)
AttemptCalls(t) ==
  attempted' = [attempted EXCEPT
                  ![t] = IF pc'[t] = "idle" THEN {}
                         ELSE IF At(t, "attempt") THEN @ \cup ({serving'[t]} \ {Nothing})
                         ELSE @]
Attempt(t) ==
  attempted' = [attempted EXCEPT
                  ![t] = IF pc'[t] = "idle" THEN {}
                         ELSE IF At(t, "attempt") THEN @ \cup (chain[t] \ chain'[t])
                         ELSE @]

(* The response a worker returns, told from the point it returns from. *)
ResponseOf(t) ==
  [route     |-> CASE pc[t] \in {"lookup", "relookup"} -> "cache_hit"
                   [] pc[t] = "attempt" -> "static_fallback"
                   [] pc[t] = "charge"  -> IF Max(attempted[t]) = 1
                                           THEN "primary" ELSE "fallback",
   attempted |-> attempted[t],
   cost      |-> cost[t]]

AddResponse(t) ==
  responses' = IF pc'[t] = "idle"
               THEN responses (+) SetToBag({ResponseOf(t)})
               ELSE responses

(* _transition appends to the breaker's log. *)
LogTransitions ==
  log' = [p \in Providers |->
            IF breakers'[p].state = breakers[p].state
            THEN log[p]
            ELSE Append(log[p], [to |-> breakers'[p].state, ts |-> now])]

TakeRequest(t) ==
  /\ LeftInBatch > 0
  /\ Take(t)
  /\ UNCHANGED run

Proceed(t) ==
  /\ Work(t)
  /\ DrawOutcome(t)
  /\ Attempt(t)
  /\ AddResponse(t)
  /\ LogTransitions
  /\ UNCHANGED <<scenario, phase, now, latencies>>

ExpireAnswer(q) == Expire(q) /\ UNCHANGED run

TimePasses ==
  /\ now < MaxTicks + (IF Splits(scenario) /\ phase = "last"
                       THEN ResetTimeout ELSE 0)
  /\ phase # "done"
  /\ AgeBreakers
  /\ now' = now + 1
  /\ UNCHANGED <<scenario, phase, doomed, attempted, responses, log, latencies>>

(* Between the batches the fail rates change, and the runner sleeps for    *)
(* reset_timeout_seconds and a little more.                                *)
Repair ==
  /\ phase' = "last"
  /\ now' = now + ResetTimeout
  /\ breakers' = [p \in Providers |->
                    [breakers[p] EXCEPT !.opened_age =
                       IF @ = NotOpened THEN @ ELSE ResetTimeout]]
  /\ UNCHANGED <<left, pc, prompt, chain, call, stored, spent, executing>>
  /\ UNCHANGED <<scenario, doomed, attempted, responses, log, latencies>>

(* The first batch is over, which the runner waits for. *)
(* Mutants: it does not wait; it does not sleep.        *)
RecoverEarly ==
  /\ phase = "first" /\ LeftInBatch = 0
  /\ Repair
RecoverHastily ==
  /\ phase = "first" /\ LeftInBatch = 0 /\ AllIdle
  /\ phase' = "last"
  /\ UNCHANGED gateway
  /\ UNCHANGED <<scenario, now, doomed, attempted, responses, log, latencies>>
Recover ==
  /\ phase = "first" /\ LeftInBatch = 0 /\ AllIdle
  /\ Repair

(* The responses are counted.  How long each answer took is up to the      *)
(* clock.                                                                  *)
Collect ==
  /\ phase = "last" /\ LeftInBatch = 0 /\ AllIdle
  /\ phase' = "done"
  /\ latencies' \in [1..By(responses, {"primary", "fallback"}) -> Latencies]
  /\ UNCHANGED gateway
  /\ UNCHANGED <<scenario, now, doomed, attempted, responses, log>>

RunNext ==
  \/ \E t \in Threads : TakeRequest(t) \/ Proceed(t)
  \/ \E q \in Prompts : ExpireAnswer(q)
  \/ TimePasses
  \/ Recover
  \/ Collect

RunSpec == RunInit /\ [][RunNext]_<<gateway, run>>
-----------------------------------------------------------------------------
(* What run_scenario returns. *)
metrics == Metrics(responses, log)

(* The books balance however the workers' requests overlap: every request  *)
(* is a success or a failure; one that the cache did not answer has        *)
(* attempted the primary, denied or not, and every other provider unless   *)
(* an earlier one answered; and the cost that the responses report is what *)
(* the gateway has charged.                                                *)
AccountsBalance ==
  phase = "done" /\ ~Budgeted =>
    LET fallbacks == Cardinality(Providers \ {1})
        missed    == MaxRequests - metrics.cache_hits
    IN /\ metrics.total_requests = MaxRequests
       /\ metrics.successful_requests + metrics.failed_requests = MaxRequests
       /\ metrics.successful_requests =
            metrics.primary_successes + metrics.fallback_successes + metrics.cache_hits
       /\ 1 \in Providers => metrics.primary_attempts = missed
       /\ metrics.fallback_attempts >=
            metrics.fallback_successes + metrics.static_fallbacks * fallbacks
       /\ metrics.fallback_attempts <=
            (missed - metrics.primary_successes) * fallbacks
       /\ metrics.estimated_cost = spent

(* The requests that a provider was attempted for and did not answer.      *)
Unanswered(p) ==
  {r \in DOMAIN responses :
     p \in r.attempted /\ (r.route = "static_fallback" \/ p # Max(r.attempted))}

(* circuit_open_count is covered by the responses: a breaker that has      *)
(* opened n times has at least n requests there, and threshold less one    *)
(* more, that tried its provider and were not answered by it.  Those that  *)
(* the breaker denied count among them: a response does not tell a denial  *)
(* from a failure.                                                         *)
OpensAreExplained ==
  phase = "done" =>
    \A p \in Providers :
      LET opens == Entered("open", log[p])
      IN opens > 0 =>
           HowMany(responses, Unanswered(p)) >= opens + FailureThreshold - 1

(* recovery_time_ms is the mean over all recoveries: every closing of a    *)
(* circuit is measured, and none took less than the reset timeout, though  *)
(* the probes that failed before it restart the measurement.               *)
RecoveriesTakeTheTimeout ==
  \A p \in Providers :
    LET times == RecoveryTimes(log[p])
    IN /\ Len(times) = Entered("closed", log[p])
       /\ \A i \in DOMAIN times : times[i] >= ResetTimeout

(* The fail rates of the two scenarios whose verdicts do not depend on     *)
(* chance: no provider of all_healthy ever fails, and in primary_recovers  *)
(* only the primary does, always and in the first batch.                   *)
Reliable(s, p) ==
  FailRate[s][p] = "never" /\ (Splits(s) => RecoveredRate[s][p] = "never")
Repaired(s, p) ==
  Splits(s) /\ FailRate[s][p] = "always" /\ RecoveredRate[s][p] = "never"

AsConfigured ==
  /\ ~Budgeted /\ Providers # {}
  /\ "all_healthy" \in Scenarios =>
       \A p \in Providers : Reliable("all_healthy", p)
  /\ "primary_recovers" \in Scenarios =>
       /\ Providers # {1} /\ Repaired("primary_recovers", 1)
       /\ \A p \in Providers \ {1} : Reliable("primary_recovers", p)

(* The verdicts that no choice of the providers' can spoil: all_healthy is *)
(* passed; and primary_recovers is passed if the circuit has opened in the *)
(* first batch and the cache leaves a request of the second to the         *)
(* providers, however late the first batch ends.                           *)
VerdictsAreEarned ==
  phase = "done" =>
    /\ scenario = "all_healthy" => Passed(scenario, metrics)
    /\ /\ scenario = "primary_recovers" /\ SuccessThreshold = 1
       /\ metrics.circuit_open_count > 0
       /\ metrics.cache_hits < MaxRequests - RecoverAfter[scenario]
       => Passed(scenario, metrics)

(* The recovery is clean: nothing of the first batch reaches the second,   *)
(* so the circuit of a provider that no longer fails does not open again.  *)
RecoveredStayRecovered ==
  [][\A p \in Providers :
       /\ phase = "last" /\ Splits(scenario)
       /\ RecoveredRate[scenario][p] = "never"
       => Entered("open", log'[p]) = Entered("open", log[p])]_<<gateway, run>>

(* The reported percentiles are in order and within the measured values,   *)
(* for lists of every length, and the branch of its own that the median    *)
(* has agrees with the interpolation.                                      *)
PercentilesInOrder ==
  LET measured == {100 * latencies[i] : i \in DOMAIN latencies}
      p(q)     == Percentile(latencies, q)
  IN /\ p(50) <= p(95) /\ p(95) <= p(99)
     /\ measured # {} =>
          /\ p(50) >= Min(measured) /\ p(99) <= Max(measured)
          /\ p(50) = Interpolated(Sorted(latencies), 50)
=============================================================================
