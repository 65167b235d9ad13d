# The reliability gateway in TLA+

This directory specifies the reliability lab under `src/src/reliability_lab/`:
a gateway that answers prompts from a response cache, then from a list of
providers, each behind a circuit breaker, then with a static degraded answer.
The modules are read from that code; TLC checks them on small instances and
TLAPS proves all but one of the safety properties for every instance. `PROJECT.json`
lists the components, runs, mutants, hazards, findings and theorems, and for
every definition that models code the lines it stands for.

## 1. The system

| Component | State it keeps | Operations that change it | Source |
|---|---|---|---|
| CircuitBreaker | state, failure and success counts, opened_at, probe flag, all under one lock | allow_request, record_success, record_failure; call takes the lock twice and runs the callable in between without it | `circuit_breaker.py` |
| SharedRedisCircuitBreaker | the same in Redis keys with TTLs, and a transition lock key | the same methods, each a sequence of Redis commands; constructor, flush | `redis_circuit_breaker.py` |
| ReliabilityGateway | the money spent; a budget lock around everything after the first lookup | complete | `gateway.py` |
| ResponseCache | a list of entries under a lock | lookup, set, clear | `cache.py` |
| SharedRedisCache | Redis hashes with a TTL and a local ResponseCache as a fallback | lookup, set, flush | `cache.py` |
| FakeLLMProvider | a random generator | complete: an answer at a cost, or ProviderError | `providers.py` |
| Chaos runner | the scenario, a pool of worker threads, the counters of the run | run_scenario, run_simulation | `chaos.py` |
| RunMetrics | the counters and latencies of a run | derived rates, percentiles, reports | `metrics.py` |
| Configuration, scripts | nothing of their own | start-up, files | `config.py`, `scripts/` |

**Interaction.** The chaos runner's workers call `ReliabilityGateway.complete`
concurrently, in one batch or in two with a repair of the providers between
them. `complete` calls the cache, and `breaker.call(provider.complete)`
for one provider after the other. In-memory breakers and caches are shared by
the threads of a process, the Redis ones by processes.

**What is hard here.** A breaker forgets whose outcome it records: calls
admitted before an outage return in the middle of the recovery. The Redis
methods read, decide and write in separate commands, and a process may die
between two of them. The gateway checks its budget long before it charges an
answer. Lookup reads the clock before it waits for its lock. A lookup in the
shared cache is several Redis commands, between which others write, and any of
them may fail. The runner's numbers come from three places, responses, logs and
providers, that overlapping requests fill in different orders. `PROJECT.json`
gives every such hazard with its line and the properties that would catch it, or
why none does.

**What makes each component correct.**
- Breakers: only the edges CLOSED -> OPEN -> HALF_OPEN -> CLOSED or OPEN;
  nothing is admitted by an OPEN circuit before the reset timeout; one probe at
  a time; a circuit closes on evidence gathered in its recovery; no state
  denies for ever.
- Gateway: the budget is overrun by less than one answer; the soft limit
  restricts the call and not only the plan; nothing is bought that is in the
  cache; every request is answered; every provider stays protected.
- Caches: what is served is similar, about the same numbers, alive, not
  private; a query finds its own answer; nothing alive is lost. In Redis also:
  an answer comes with its own metadata, an outage leaves a replica what it has
  stored, a flush leaves nothing that was there before.
- Runner and metrics: every request is counted once, attempts and openings are
  explained by the responses, recovery times are those of the breakers, the
  batches do not mix, verdicts follow from what happened.

## 2. Modules

| Module | What it is |
|---|---|
| `CircuitContract` | abstract: what a circuit promises its callers, without thresholds, counters or probe |
| `BreakerState` | the data of an in-memory breaker; one function from breaker to breaker per method |
| `CircuitBreaker` | one breaker under several threads; implements `CircuitContract` |
| `BreakerStateLemmas`, `CircuitBreakerProofs` | what each method does to a sound breaker; the theorems about one breaker |
| `SharedRedisCircuitBreaker` | the breaker in Redis, one action per Redis command; implements `CircuitContract` while methods do not overlap |
| `SharedRedisBreakerProofs` | its theorems: interleaved, and with methods that run alone |
| `Gateway` | `complete` as a pool of workers runs it, over one `BreakerState` breaker per provider and a cache; every provider's breaker implements `CircuitContract` |
| `GatewayProofs` | its theorems: the budget, the breakers, the counts |
| `CacheMatching` | how both caches match a query with an entry: similarity, threshold, guard, time to live |
| `CacheMatchingLemmas` | what a lookup in a list of entries finds, prunes and keeps |
| `ResponseCache`, `ResponseCacheProofs` | the in-memory cache and its theorems |
| `SharedRedisCache`, `SharedRedisCacheProofs` | the cache in Redis, one action per Redis command, with the replicas' fallbacks, and its theorems |
| `RunMetrics` | pure: the counting of responses and log entries, recovery times, percentiles, verdicts |
| `ScenarioRun` | composes `Gateway` and `RunMetrics`: a scenario from a fresh gateway to its verdict |
| `ScenarioRunProofs` | its theorems, and what one more response or log entry does to the metrics |
| `MC...` | constants and symmetry for TLC |

**CircuitBreaker.** `cb` is the object; `calls[t]` says whether thread t is in
a callable, admitted by a CLOSED circuit ("normal") or as a probe. An action is
one locked method: `AllowRequest` (a denial changes nothing), `RecordSuccess`,
`RecordFailure`; `Tick` is the monotonic clock. `AfterAllow`, `AfterSuccess`
and `AfterFailure` are the whole methods, `_transition` and `_open` included.
`overtaken` and `healthy` are history variables that only properties read.
`opened_at` is its age up to the reset timeout, and counters stop at
`CountCap`: the code asks nothing else of them.

**SharedRedisCircuitBreaker.** `db` holds the keys, a key with a TTL as its
age; `pc[c]` is the next command of client c, `held[c]` the state it keeps in a
local variable, `calls[c]` as above. A MULTI pipeline is one action.
`_transition` is `ReadOldState` and `SetState`, followed by whatever its caller
does next. `Abort` is a RedisError or a crash before any command, with or
without the `finally` that deletes the transition lock; `Resume` ends it;
`Construct` is a process that starts and touches the state key; `Tick` and
`ExpireCounters` are Redis expiring keys. `Overlap` and `SlowMethods` choose
between methods that run alone and methods whose commands interleave and take
time. A missing opened_at reads as the present time, a missing state as CLOSED.
The state TTL is assumed longer than the reset timeout (3600 s by default).

**Gateway.** `pc[t]` is the point of `complete` a worker is at: the first
lookup, the wait for the budget lock, the second lookup, `_provider_chain`
(`Plan`), the loop over providers (`Admit`, `Deny`, `Degrade`), the provider's
callable (`ProviderFails`, `ProviderSucceeds`), `cache.set` (`Store`) and the
charge. With no budget the lock and the second lookup are skipped. Providers
are positions, so "the next one" is the least left in `chain[t]`. The cache is
reduced to the number of live entries of each prompt; private prompts are
neither found nor stored.

**ResponseCache.** `Enter` reads the clock, `Lookup` and `Set` are the locked
sections; `waited[t]` is how old the clock a thread has read is. `Best` is the
loop that keeps the first strictly better entry, `Hits` adds the threshold and
the guard to the one entry found. `answer` is what a lookup has just returned.

**SharedRedisCache.** `db[k]` is the Redis hash under a key, `fallback[r]` the
list in replica r's local `ResponseCache`, `pc[t]` the command a thread sends
next. `lookup` is `HgetResponse`, then `HgetMetadata` on a hit, or `Scan` and one
`Hgetall` per key; `FallBack` is the RedisError of any of these. `set` writes the
fallback (`BeginSet`) and then the transaction (`Multi`; `MultiFails`, in which
the server has done nothing, is swallowed). `flush` is `BeginFlush`, `FlushScan`
and one `Delete` per key; `FlushFails` ends it anywhere. A command that failed
may have been carried out: the replies of a client are no evidence against it.
An answer and its metadata are identified by the number of the set call that
brought them. `promised`, `overtaken` and `rewritten` are history that only
properties read. A SCAN is taken to return all keys at once, which it does for
a cache of one cursor's length; for a longer one, keys written meanwhile may be
returned as well.

**ScenarioRun.** A step of a worker is a step of `Gateway`, watched for what the
runner counts: `DrawOutcome` draws a provider's outcome at the beginning of the
call, by the fail rate it has then (`doomed`); `Attempt` keeps
`attempted_providers`; `AddResponse` and `LogTransitions` keep the response and
the breaker's `transition_log`. `Recover` is everything between the two
batches: the wait for the pool, the new fail rates and the sleep past the reset
timeout. `Collect` ends the run and makes up the latencies. Responses are a bag,
because no number depends on their order. `RunMetrics` is translated operator by
operator: `Metrics` is the loop over the results, `Measure` the body of the loop
over a log, `Percentile` the function in `metrics.py` in hundredths. The runner
has no state while the workers run, so the metrics are a function of the final
state.

What the code does by a loop or a library call is written so that it can be
reasoned about: the provers know nothing of `SelectSeq`, of folds over sequences
or of `SortSeq`. `Measure` is iterated by a recursive function (`MeasureAll`),
openings are a cardinality (`Entered`), pruning builds the list that is kept
(`CacheMatching`), and `Sorted` gives position i the value that fewer than i
values are below and at least i are not above, which is what a sorted list has
there.

## 3. Runs

| Run | Module, instance | What it shows |
|---|---|---|
| `breaker_calls` | `CircuitBreaker`: 4 threads, thresholds 3 and 2, timeout 2 | types, counters, timed opening, no leaked probe flag, single probe unless overtaken; the contract; closing on evidence; recovery and its end |
| `breaker_single_probe` | 3 threads | **violated**: two probes in flight |
| `redis_serial` | `SharedRedisCircuitBreaker`: 3 clients, thresholds 2, methods alone | the contract, also when a method is cut short at any command; an OPEN circuit keeps its opened_at |
| `redis_overlap` | 2 clients, thresholds 1, everything interleaves | types, single probe unless overtaken; recovery and tripping whatever the keys have been left in |
| `redis_edges` | 2 clients, interleaved | **violated**: OPEN goes straight to CLOSED |
| `redis_untimed` | 2 clients, interleaved | **violated**: an OPEN circuit loses its opened_at |
| `gateway_budget` | `Gateway`: 3 workers, 5 requests, budget 4, soft limit 2, costs 1 and 2 | budget, limits, no double purchase, single probes; every request answered |
| `gateway_concurrent` | 3 workers, 4 requests, no budget | duplicates bounded, no leaked probe, the contract for each provider |
| `cache_guards` | `ResponseCache`: 2 threads, 5 queries, at most 3 entries, TTL 1 | what is served, found and kept |
| `cache_shadowed` | the same | **violated**: an acceptable entry is hidden by a rejected one |
| `redis_cache_replicas` | `SharedRedisCache`: 2 replicas, 4 queries of which one is private, 3 keys, 2 sets, TTL 1 | what is served by any path, found again in an outage, paired with its metadata, removed by a flush |
| `scenario_chaos` | `ScenarioRun`: 4 scenarios of `configs/default.yaml`, 2 workers, 4 requests, recovery after 2, failure threshold 2 | the books balance, openings and recoveries are accounted for, verdicts are earned, percentiles in order, a clean second batch |

**Bounds.** Four threads let a late call, a probe, a second probe and a third
outcome coexist; the violation of the single probe needs three at most.
Thresholds above one make counters accumulate across interleavings, and
`CountCap` exceeds them, so that "more than the threshold" occurs. A timeout of
two ticks separates "just opened", "not yet" and "cool". Two Redis clients
suffice for a method overtaken by another one; a third is used where methods do
not overlap. The gateway's budget is one that a batch exhausts from both sides
of the soft limit, and batches are longer than the pool, so that workers return
for more. Three cache entries are a match, a better one that the guard rejects,
and a duplicate. Two sets are enough for a torn read, for an entry that appears
between a scan and its deletion, and for a match of each kind (the same query,
a similar one, one that the guard rejects); no two queries of the instance
share a key. Four requests are two that open the primary's circuit and two that
fail to close it and close it, or two batches of two; the two workers let a call
of the first batch outlast its last request. Fail rates are rounded to never,
sometimes and always, so `primary_degraded_80` is covered by
`primary_flaky_50`. Provider latencies are lists of nought to four values.
`CountCap`, `MaxRequests`, `MaxEntries`, `MaxWait`, `MaxSets` and `MaxTicks` are
bounds of the models and not of the code.

**Deadlock** is checked except in the runs of the gateway and of the scenario,
where the batch ends.

**Fairness.** The clock ticks; a call that was admitted ends (a provider is a
bounded sleep and then returns or raises); a thread whose `allow_request` stays
possible calls it, i.e. the circuit is under load. In Redis a client goes on
with its commands and recovers from its errors; no failure is ever forced. In
the gateway every worker's own steps are weakly fair; `RLock` is not a fair
lock, but the batch is finite, so that the lock is free for good once the others
are done. The liveness properties of the breakers have premises, "from some
time on no call fails" and the like. For these it matters that a failing step
is told apart from a harmless one: `Abort` leaves the client "down", because a
denial and an error would otherwise be the same change of state and the premise
would exclude both.

**Mutants.** Next to a definition stand the mutants that a run must catch: each
is the definition with a plausible mistake (a threshold off by one, SET without
NX or EX, a forgotten flag, a lock not taken, a batch not waited for).

## 4. Findings

- `breaker_single_probe` (`circuit_breaker.py:89`): any outcome lowers the
  probe flag. A call admitted while CLOSED that returns during HALF_OPEN lets a
  second probe in. `SingleProbeUnlessOvertaken` says that this is the only way.
- `redis_edges` (`redis_circuit_breaker.py:109`): `record_success` decides on a
  state it read several commands earlier, and closes a circuit that has been
  opened in between.
- `redis_untimed` (`redis_circuit_breaker.py:110`): the DEL of opened_at comes
  after the SET of CLOSED and may hit the next outage. The circuit then denies
  every call until its state expires; `RecoversOnceHealthy` holds only because
  it does.
- `cache_shadowed` (`cache.py:101`): the guard is applied to the best match
  only.

Seen in the code and allowed by the models, but not singled out by a run: in
HALF_OPEN the outcome of any call decides, not only of a probe, so that a late
success closes the circuit (`circuit_breaker.py:91`) and a late failure re-opens
it (`:106`) under a probe that has not answered; the Redis breaker does not read
opened_at again under its transition lock and may try a circuit that has just
been opened again (`redis_circuit_breaker.py:80`); its probe key may expire
under a slow probe (`:142`), and a late outcome deletes another client's even
when methods do not overlap (`:106`, `:117`): these are the only ways to a
second probe (`SingleProbeUnlessOvertaken`); its transition lock may expire
under its holder, who then deletes its successor's (`:85`); and its constructor
refreshes the TTL of the state but not of opened_at (`:48`), so that frequent
restarts can keep a circuit OPEN that denies every call. A hit in Redis may
carry another answer's metadata, or none, if the entry changes between the two
HGETs (`cache.py:208`), and then the saved cost that is reported is not that of
the answer; `PairedUnlessOvertaken` says that this is the only way. While Redis
answers, nothing prunes the fallback that every set appends to (`cache.py:262`).
After an outage or a flush by another replica the fallback may serve what Redis
no longer has (`cache.py:234`), until it expires.

## 5. Proofs

**Assumptions**, each with the module that declares the constants:
`ThresholdsAssumption` (what `__post_init__` enforces, and a cap no lower than
the thresholds), `SharedBreakerAssumption` (positive times to live, the probe
key's no shorter and the state's longer than the reset timeout), `GatewayAssumption` (what `__init__` enforces, a
finite pool, a greatest cost of an answer), `CacheAssumption` (a threshold no
higher than an exact match, a positive time to live; queries that match exactly
have the same numbers), `SharedAssumption` (a hash is a function; queries with
the same key have the same numbers: the key is a digest of the normalised
query), `ScenarioAssumption` (providers are positions from 1, so their list is
finite; fail rates are one of the three), and that the value for "nothing" is
none of the entries. Two hypotheses stand in the theorems that need them:
`Serial` and `AsConfigured`, below. Every run evaluates those of its modules.

Each theorem is proved from an inductive invariant that TLC has checked on the
run first. They are listed by module.

**CircuitBreakerProofs** (any threads, thresholds, timeout). `IInv` says: the
breaker is sound between two methods (`SoundBreaker`: typed, a CLOSED one below
its threshold, opened_at set exactly when not CLOSED); the probe flag is raised
only in HALF_OPEN with a probe in flight; unless overtaken, a probe in flight
is alone and holds the flag; during a recovery `success_count` is the number of
successes recorded in it. The single-probe rule is not inductive by itself: it
does not say why `allow_request` cannot admit a second probe, which the flag
does. `BreakerStateLemmas` says what each method does to a sound breaker, once.
From `IInv` follow `TypeCorrect`, `ClosedIsBelowThreshold`, `OpenIsTimed`,
`ProbeFlagIsNotLeaked`, `SingleProbe`, `ClosingNeedsEvidence`, and
`ImplementsContract` with the refinement mapping of `CircuitBreaker`.

**SharedRedisBreakerProofs** (any clients, thresholds, times to live). With
commands interleaved, a method cut short anywhere and keys expiring, `IInv` says
where a client has no admitted call (`Outside`), and that the probe key exists
while a probe is in flight and nobody has taken the key away (`ProbeHoldsKey`).
A client on its way through `allow_request` must not count as a probe yet,
because the lock's `finally` would make it one. This gives `TypeCorrect` and
`SingleProbe`. The contract fails when methods overlap (`redis_edges`), so
`SerialImplementsContract` and `SerialKeepsOpenedAt` are theorems under the
hypothesis that they do not (`Serial`, the constants of `redis_serial`). Their
invariant says that only one client is inside a method, that what it has read
still holds of the keys (`UpToDate`: the race that the findings exploit), that a
call counts as running until its outcome has taken effect, and that the state of
an OPEN circuit does not expire before it has cooled down (`OpenedFirst`).

**GatewayProofs** (any workers, providers, prices, budget, batch). A worker past
the budget lock is alone there (`Alone`), so what it has decided stays true:
the providers left in its chain are affordable (`WithinLimits`) and its prompt
is not in the cache (`Missed`). A step inside the lock finds everybody else
outside, where nothing is required of them; a step outside changes nothing that
the one inside relies on. From this follow `BudgetHolds`,
`LimitsHoldAtTheCall`, `NoAnswerIsBoughtTwice` and `BudgetedProbesAreSingle`.
`CInv` adds that every breaker is sound and that a worker is in a callable
exactly while it is calling; with the lemmas on `BreakerState` it gives
`ProbeFlagIsNotLeaked` and, provider by provider, `EveryProviderIsProtected`.
`NInv` counts: requests left and workers busy never exceed the batch, what is
spent never exceeds the answers that are paid for, and what is stored of a
prompt plus the workers about to store it never exceeds the pool. A worker
misses only while nothing is stored, which is why that count is inductive. It
gives `DuplicatesAreBounded` and `TypeCorrect`.

**ResponseCacheProofs, SharedRedisCacheProofs** (any threads, replicas, queries,
similarities). `CacheMatchingLemmas` says of a lookup in any list that what it
returns is in the list, alive, acceptable and among the best, that pruning
removes only what has expired, and that an own answer that is alive makes the
lookup hit. In memory the invariant needs to add only that no thread is in a
method with a private query: `WhatIsServedIsAcceptable`, `OwnAnswersAreFound`,
`NothingLiveIsLost`. In Redis it says what a thread between two commands knows:
what it holds may be served (`Holds`), the key it has read is as it was unless it
has been overtaken (`Untouched`), what it has not deleted yet is on its list or
was written since (`Flushing`), and a replica's promises are kept by its fallback
(`Mirrored`). From these follow `WhatIsServedIsAcceptable`, `MetadataIsPaired`,
`OutagesAreSurvived` and `FlushesForget`.

**ScenarioRunProofs** (any pool, list of providers, scenarios, thresholds). The
gateway's invariants survive the repair (`GInv`). On them rest: `MInv`, a
breaker's timer and the measurement of its log tell the same time, for
`RecoveryTimesAreRight`; `DInv`, no call of a repaired provider is bound to fail,
for `RepairedProvidersStayUp`; `PInv`, a request tries the providers in order and
skips none; `BInv`, the responses and the requests due are the batch and the
books over the responses balance with what was charged, for `BooksBalance`;
`OInv`, the requests that a provider was tried for and did not answer, over or
still under way, explain every opening, for `OpeningsAreExplained`. That one is
not inductive over the responses alone: a failure is recorded long before its
response. Sums over bags and the loop over a log are recursive functions. That
one more element adds its amount is proved from the smallest counterexample
there could be, a subset by `FS_StrictSubsetOrderingWellFounded` or a natural
number. `PercentilesAreInOrder` is about lists alone: every rank of a list is
taken by one of its values, a sorted list ascends, and going up in hundredths of
a position the interpolated value never goes down, from one pair of neighbours
to the next included.

`VerdictsAreEarnedAsConfigured` is a theorem under the hypothesis `AsConfigured`:
no budget, no provider of all_healthy ever fails, and in primary_recovers only
the primary does, always and until the repair (`configs/default.yaml:42`; the
run's `ASSUME ConfiguredRates` evaluates it on the instance). What happens in the
other scenarios is up to chance. It rests on three more invariants. `HInv`: a
provider that never fails passes no request on, because a circuit opens only
after requests that it did not answer (`OInv`), so it never opens. `KInv`: what
the cache has to give was bought, so a run that is not empty has an answer of a
provider. `VInv` follows the circuit of the repaired primary: in the first batch
it cannot close again (`Struck`); when the second starts, it has never opened or
it has cooled down (`Waiting`), and until a request comes to it every response
since is a cache hit; that request probes it (`Probed`), and as the probe does
not fail, the circuit closes and stays closed (`Healed`). A second batch that the
cache answers alone never leaves `Waiting`, and its scenario fails: that is why
the property asks for fewer hits than the second batch has requests.

**Only model-checked:** liveness (`RecoversOnceHealthy` of both breakers,
`RecoveryIsDecided`, `TripsOnceFailing`, `EveryRequestAnswered`): fairness and
ENABLED are beyond the prover. Every invariant and every action property of the
passing runs has a theorem.

## 6. Not modelled

- `run_simulation`, which adds up the metrics of the scenarios field by field,
  and `load_queries`; the scenario with a budget (off in the configuration),
  with Redis behind it, or with wall and monotonic clock apart
  (`circuit_breaker.py:125`); the saved cost, which needs the entry that was
  hit and not only its number.
- Of `RunMetrics` the rates, rounding, throughput and the exports.
- A Redis that loses data, runs out of memory or fails over, under the cache as
  under the breaker.
- `SharedRedisCircuitBreaker.flush` and `close`, used by tests and at the end
  of a run.
- The gateway over the Redis breaker or cache; in particular a RedisError,
  which `complete` does not catch (`gateway.py:124`).
- A callable that raises a BaseException that is no Exception: `call`
  (`circuit_breaker.py:77`) records no outcome then, and the probe flag stays up.
- Texts, route labels, latencies, token counts, the audit and transition logs.
- Configuration parsing, scripts and report files: no state of their own.

## 7. Plan

1. The Redis breaker with overlapping methods: which of the contract's edges
   survive, beyond the single probe.
2. The gateway over the shared breaker and cache, with the RedisError that it
   does not catch.
