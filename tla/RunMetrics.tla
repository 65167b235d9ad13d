----------------------------- MODULE RunMetrics -----------------------------
(***************************************************************************)
(* What a scenario run reports (metrics.py, and the counting in            *)
(* chaos.py): the metrics are computed once, from the responses of the     *)
(* run, the transition logs of its breakers and the measured latencies,    *)
(* and the verdict from the metrics.                                       *)
(*                                                                         *)
(* Responses are a bag, for no count depends on their order.  A response   *)
(* is its route, the positions of the providers that were attempted and    *)
(* its cost; a log is a sequence of the states a breaker has entered, each *)
(* with its time.  Percentiles are in hundredths of the unit of latency.   *)
(***************************************************************************)
EXTENDS Integers, SequencesExt, FiniteSetsExt, Bags

Route == {"cache_hit", "primary", "fallback", "static_fallback"}

(* How many responses there are out of some set of them, and the sum of an *)
(* amount that each has.                                                   *)
HowMany(responses, those) == SumFunctionOnSet(responses, those)
SumOver(responses, amount) ==
  SumFunction([r \in DOMAIN responses |-> amount[r] * responses[r]])

By(responses, routes) ==
  HowMany(responses, {r \in DOMAIN responses : r.route \in routes})
-----------------------------------------------------------------------------
(* calculate_recovery_time_ms: the loop over one breaker's log.            *)
NotOpen == -1

(* Mutant: a probe restarts the measurement as an opening does. *)
MeasureFromProbe(loop, entry) ==
  CASE entry.to # "closed" -> [loop EXCEPT !.opened_at = entry.ts]
    [] entry.to = "closed" /\ loop.opened_at # NotOpen ->
         [opened_at |-> NotOpen,
          times     |-> Append(loop.times, entry.ts - loop.opened_at)]
    [] OTHER -> loop
Measure(loop, entry) ==
  CASE entry.to = "open" -> [loop EXCEPT !.opened_at = entry.ts]
    [] entry.to = "closed" /\ loop.opened_at # NotOpen ->
         [opened_at |-> NotOpen,
          times     |-> Append(loop.times, entry.ts - loop.opened_at)]
    [] OTHER -> loop

MeasureAll(log) ==
  LET loop[n \in 0..Len(log)] ==
        IF n = 0 THEN [opened_at |-> NotOpen, times |-> <<>>]
        ELSE Measure(loop[n - 1], log[n])
  IN loop[Len(log)]

RecoveryTimes(log) == MeasureAll(log).times

(* How often a breaker entered a state. *)
Entered(state, log) == Cardinality({i \in DOMAIN log : log[i].to = state})
EnteredByAny(state, logs) ==
  SumFunction([p \in DOMAIN logs |-> Entered(state, logs[p])])
-----------------------------------------------------------------------------
(* run_scenario: the counting of the results. *)
SuccessfulRoutes == Route \ {"static_fallback"}

Metrics(responses, logs) ==
  [total_requests      |-> By(responses, Route),
   successful_requests |-> By(responses, SuccessfulRoutes),
   failed_requests     |-> By(responses, {"static_fallback"}),
   primary_successes   |-> By(responses, {"primary"}),
   fallback_successes  |-> By(responses, {"fallback"}),
   static_fallbacks    |-> By(responses, {"static_fallback"}),
   cache_hits          |-> By(responses, {"cache_hit"}),
   primary_attempts    |-> SumOver(responses, [r \in DOMAIN responses |->
                                                 Cardinality(r.attempted \cap {1})]),
   fallback_attempts   |-> SumOver(responses, [r \in DOMAIN responses |->
                                                 Cardinality(r.attempted \ {1})]),
   estimated_cost      |-> SumOver(responses, [r \in DOMAIN responses |-> r.cost]),
   circuit_open_count  |-> EnteredByAny("open", logs),
   circuit_close_count |-> EnteredByAny("closed", logs),
   recovered           |-> \E p \in DOMAIN logs : RecoveryTimes(logs[p]) # <<>>]

(* The property availability, in per cent and compared with a bound. *)
AvailableAtLeast(percent, m) ==
  m.total_requests > 0 /\ m.successful_requests * 100 >= percent * m.total_requests

(* _scenario_passed. *)
Passed(name, m) ==
  CASE name = "primary_timeout_100" ->
         /\ AvailableAtLeast(99, m)
         /\ m.primary_attempts > 0 /\ m.primary_successes = 0
         /\ m.fallback_successes > 0 /\ m.static_fallbacks = 0
         /\ m.circuit_open_count > 0
    [] name = "all_healthy" ->
         /\ AvailableAtLeast(100, m)
         /\ m.primary_successes > 0 /\ m.fallback_successes = 0
         /\ m.static_fallbacks = 0 /\ m.circuit_open_count = 0
    [] name = "primary_flaky_50" ->
         /\ AvailableAtLeast(99, m)
         /\ m.primary_successes > 0 /\ m.fallback_successes > 0
         /\ m.circuit_open_count > 0
    [] name = "primary_degraded_80" ->
         /\ AvailableAtLeast(99, m)
         /\ m.fallback_successes > 0 /\ m.circuit_open_count > 0
    [] name = "primary_recovers" ->
         /\ AvailableAtLeast(99, m)
         /\ m.recovered
         /\ m.circuit_open_count > 0 /\ m.circuit_close_count > 0
         /\ m.primary_successes > 0 /\ m.fallback_successes > 0
    [] OTHER -> AvailableAtLeast(95, m)
-----------------------------------------------------------------------------
(* percentile: the value between its neighbours in the sorted list, by     *)
(* weight; the median has a branch of its own.                             *)
(* Mutant: the weights are swapped. *)
InterpolatedSwapped(s, q) ==
  LET k     == (Len(s) - 1) * q
      lower == k \div 100 + 1
      upper == IF lower < Len(s) THEN lower + 1 ELSE Len(s)
  IN s[lower] * (k % 100) + s[upper] * (100 - (k % 100))
Interpolated(s, q) ==
  LET k     == (Len(s) - 1) * q
      lower == k \div 100 + 1
      upper == IF lower < Len(s) THEN lower + 1 ELSE Len(s)
  IN s[lower] * (100 - (k % 100)) + s[upper] * (k % 100)

Median(s) ==
  LET half == Len(s) \div 2
  IN IF Len(s) % 2 = 1 THEN 100 * s[half + 1] ELSE 50 * (s[half] + s[half + 1])

(* The value at position i of the sorted list: fewer than i are below it,  *)
(* and at least i are not above it.                                        *)
Sorted(values) ==
  [i \in DOMAIN values |->
     CHOOSE v \in {values[j] : j \in DOMAIN values} :
       /\ Cardinality({j \in DOMAIN values : values[j] < v}) < i
       /\ Cardinality({j \in DOMAIN values : values[j] <= v}) >= i]

Percentile(values, q) ==
  LET s == Sorted(values)
  IN CASE s = <<>>           -> 0
       [] s # <<>> /\ q = 50 -> Median(s)
       [] OTHER              -> Interpolated(s, q)
=============================================================================
