------------------------------ MODULE Gateway ------------------------------
(***************************************************************************)
(* ReliabilityGateway.complete run by a pool of worker threads             *)
(* (gateway.py; the pool is chaos.py's execute) over one in-memory breaker *)
(* per provider and one response cache.  An action is what a thread does   *)
(* between two points where another thread can get in: a cache method, a   *)
(* breaker method or a section under one of the gateway's locks.           *)
(*                                                                         *)
(* Abstractions of data: a provider is its position in the list, from 1;   *)
(* a prompt matches itself only, or nothing when it is private; of a       *)
(* cache's entries for a prompt only their number matters; money is whole  *)
(* units, so SoftLimit is soft_limit_ratio * max_cost rounded up.          *)
(***************************************************************************)
EXTENDS BreakerState, FiniteSets

CONSTANTS
  Threads,
  Prompts,
  Private,        \* the prompts that _is_uncacheable
  Caching,        \* whether the gateway has a cache
  Providers,      \* the positions in the list of providers
  Rate,           \* Rate[p]: cost_per_1k_tokens of provider p
  CallCost,       \* CallCost[p]: what one answer of p may cost
  DearestCall,    \* no answer costs more
  MaxCost,        \* max_cost; 0 stands for None, which is no legal budget
  SoftLimit,      \* what must be spent before only the cheapest are asked
  MaxRequests     \* the length of the batch

ASSUME GatewayAssumption ==
  /\ IsFiniteSet(Threads)
  /\ Private \subseteq Prompts
  /\ Caching \in BOOLEAN
  /\ Providers \subseteq Nat \ {0}
  /\ Rate \in [Providers -> Nat]
  /\ CallCost \in [Providers -> SUBSET Nat]
  /\ DearestCall \in Nat
  /\ \A p \in Providers : \A amount \in CallCost[p] : amount <= DearestCall
  /\ MaxCost \in Nat /\ SoftLimit \in Nat
  /\ MaxCost # 0 => 0 < SoftLimit /\ SoftLimit <= MaxCost
  /\ MaxRequests \in Nat

VARIABLES
  left,        \* requests of the batch that no worker has taken
  pc,          \* pc[t]: where worker t is in complete
  prompt,      \* prompt[t]: the prompt of its request
  chain,       \* chain[t]: the providers it has still to try
  serving,     \* serving[t]: the provider whose callable it is in
  probing,     \* probing[t]: it is there as the breaker's probe
  cost,        \* cost[t]: what the answer it has got costs
  breakers,    \* breakers[p]: the circuit breaker of provider p
  stored,      \* stored[q]: the number of live cache entries for prompt q
  spent,       \* _cumulative_cost
  executing    \* the threads inside _budget_execution_lock

vars == <<left, pc, prompt, chain, serving, probing, cost, breakers, stored,
          spent, executing>>

(* No prompt, no provider. *)
Nothing == 0

Budgeted == MaxCost # 0

Cacheable(q) == Caching /\ q \notin Private

(* The points of complete at which other threads can get in. *)
Executing == {"relookup", "plan", "attempt", "calling", "store", "charge"}
Point == {"idle", "lookup", "enter"} \cup Executing

TypeOK ==
  /\ left \in 0..MaxRequests
  /\ pc \in [Threads -> Point]
  /\ prompt \in [Threads -> Prompts \cup {Nothing}]
  /\ chain \in [Threads -> SUBSET Providers]
  /\ serving \in [Threads -> Providers \cup {Nothing}]
  /\ probing \in [Threads -> BOOLEAN]
  /\ cost \in [Threads -> 0..DearestCall]
  /\ breakers \in [Providers -> Breaker]
  /\ stored \in [Prompts -> 0..MaxRequests]
  /\ spent \in 0..(MaxRequests * DearestCall)
  /\ executing \in SUBSET Threads

Init ==
  /\ left = MaxRequests
  /\ pc = [t \in Threads |-> "idle"]
  /\ prompt = [t \in Threads |-> Nothing]
  /\ chain = [t \in Threads |-> {}]
  /\ serving = [t \in Threads |-> Nothing]
  /\ probing = [t \in Threads |-> FALSE]
  /\ cost = [t \in Threads |-> 0]
  /\ breakers = [p \in Providers |-> NewBreaker]
  /\ stored = [q \in Prompts |-> 0]
  /\ spent = 0
  /\ executing = {}
-----------------------------------------------------------------------------
At(t, point) == pc[t] = point
Go(t, point) == pc' = [pc EXCEPT ![t] = point]

call == <<serving, probing, cost>>
shared == <<breakers, stored, spent>>

(* The worker returns a response: the request is over, and with it the     *)
(* stay in the budget lock. *)
Respond(t) ==
  /\ Go(t, "idle")
  /\ prompt' = [prompt EXCEPT ![t] = Nothing]
  /\ chain' = [chain EXCEPT ![t] = {}]
  /\ executing' = executing \ {t}

Take(t) ==
  /\ At(t, "idle")
  /\ left > 0
  /\ left' = left - 1
  /\ \E q \in Prompts : prompt' = [prompt EXCEPT ![t] = q]
  /\ Go(t, "lookup")
  /\ UNCHANGED <<chain, call, shared, executing>>

(* _cached_response has an answer for the prompt. *)
(* Mutant: the cache is never of use. *)
CachedNever(q) == FALSE
Cached(q) == Cacheable(q) /\ stored[q] > 0

Lookup(t) ==
  /\ At(t, "lookup")
  /\ IF Cached(prompt[t])
     THEN Respond(t)
     ELSE /\ Go(t, IF Budgeted THEN "enter" ELSE "plan")
          /\ UNCHANGED <<prompt, chain, executing>>
  /\ UNCHANGED <<left, call, shared>>

(* Mutant: the lock is not taken. *)
EnterBudgetLockAnyway(t) ==
  /\ At(t, "enter")
  /\ executing' = executing \cup {t}
  /\ Go(t, "relookup")
  /\ UNCHANGED <<left, prompt, chain, call, shared>>
EnterBudgetLock(t) ==
  /\ At(t, "enter")
  /\ executing = {}
  /\ executing' = {t}
  /\ Go(t, "relookup")
  /\ UNCHANGED <<left, prompt, chain, call, shared>>

(* Mutants: what another thread stored meanwhile is not looked for; the    *)
(* lock is kept by the early return.                                       *)
RelookupBlind(t) ==
  /\ At(t, "relookup")
  /\ Go(t, "plan")
  /\ UNCHANGED <<left, prompt, chain, executing, call, shared>>
RelookupKeepingLock(t) ==
  /\ At(t, "relookup")
  /\ Go(t, IF Cached(prompt[t]) THEN "idle" ELSE "plan")
  /\ UNCHANGED <<left, prompt, chain, executing, call, shared>>
Relookup(t) ==
  /\ At(t, "relookup")
  /\ IF Cached(prompt[t])
     THEN Respond(t)
     ELSE Go(t, "plan") /\ UNCHANGED <<prompt, chain, executing>>
  /\ UNCHANGED <<left, call, shared>>

(* _provider_chain. *)
Cheapest == {p \in Providers : \A q \in Providers : Rate[p] <= Rate[q]}
(* Mutant: off by one at the budget. *)
ProviderChainPastBudget ==
  CASE ~Budgeted \/ spent < SoftLimit -> Providers
    [] Budgeted /\ spent > MaxCost    -> {}
    [] OTHER                          -> Cheapest
ProviderChain ==
  CASE ~Budgeted \/ spent < SoftLimit -> Providers
    [] Budgeted /\ spent >= MaxCost   -> {}
    [] OTHER                          -> Cheapest

Plan(t) ==
  /\ At(t, "plan")
  /\ chain' = [chain EXCEPT ![t] = ProviderChain]
  /\ Go(t, "attempt")
  /\ UNCHANGED <<left, prompt, call, shared, executing>>

(* The provider whose turn it is. *)
First(providers, p) == p \in providers /\ \A q \in providers : p <= q

(* breaker.call up to the provider: allow_request lets the call through. *)
(* Mutant: the provider is called without asking its breaker. *)
AdmitAnyway(t) ==
  /\ At(t, "attempt")
  /\ \E p \in chain[t] :
       /\ First(chain[t], p)
       /\ chain' = [chain EXCEPT ![t] = @ \ {p}]
       /\ serving' = [serving EXCEPT ![t] = p]
       /\ UNCHANGED <<breakers, probing>>
  /\ Go(t, "calling")
  /\ UNCHANGED <<left, prompt, cost, stored, spent, executing>>
Admit(t) ==
  /\ At(t, "attempt")
  /\ \E p \in chain[t] :
       /\ First(chain[t], p)
       /\ Allows(breakers[p])
       /\ breakers' = [breakers EXCEPT ![p] = AfterAllow(@)]
       /\ chain' = [chain EXCEPT ![t] = @ \ {p}]
       /\ serving' = [serving EXCEPT ![t] = p]
       /\ probing' = [probing EXCEPT ![t] = breakers[p].state # "closed"]
  /\ Go(t, "calling")
  /\ UNCHANGED <<left, prompt, cost, stored, spent, executing>>

(* CircuitOpenError: on to the next provider. *)
Deny(t) ==
  /\ At(t, "attempt")
  /\ \E p \in chain[t] :
       /\ First(chain[t], p)
       /\ ~Allows(breakers[p])
       /\ chain' = [chain EXCEPT ![t] = @ \ {p}]
  /\ UNCHANGED <<left, pc, prompt, call, shared, executing>>

(* No provider is left: the static fallback. *)
Degrade(t) ==
  /\ At(t, "attempt")
  /\ chain[t] = {}
  /\ Respond(t)
  /\ UNCHANGED <<left, call, shared>>

(* The callable is over, and the breaker has seen the outcome. *)
Leave(t) ==
  /\ At(t, "calling")
  /\ serving' = [serving EXCEPT ![t] = Nothing]
  /\ probing' = [probing EXCEPT ![t] = FALSE]

(* ProviderError: on to the next provider. *)
ProviderFails(t) ==
  /\ Leave(t)
  /\ breakers' = [breakers EXCEPT ![serving[t]] = AfterFailure(@)]
  /\ Go(t, "attempt")
  /\ UNCHANGED <<left, prompt, chain, cost, stored, spent, executing>>

ProviderSucceeds(t) ==
  /\ Leave(t)
  /\ breakers' = [breakers EXCEPT ![serving[t]] = AfterSuccess(@)]
  /\ \E amount \in CallCost[serving[t]] : cost' = [cost EXCEPT ![t] = amount]
  /\ Go(t, "store")
  /\ UNCHANGED <<left, prompt, chain, stored, spent, executing>>

Store(t) ==
  /\ At(t, "store")
  /\ stored' = IF Cacheable(prompt[t])
               THEN [stored EXCEPT ![prompt[t]] = @ + 1]
               ELSE stored
  /\ Go(t, "charge")
  /\ UNCHANGED <<left, prompt, chain, call, breakers, spent, executing>>

Charge(t) ==
  /\ At(t, "charge")
  /\ spent' = spent + cost[t]
  /\ cost' = [cost EXCEPT ![t] = 0]
  /\ Respond(t)
  /\ UNCHANGED <<left, serving, probing, breakers, stored>>

(* The oldest entries of a prompt pass their time to live. *)
Expire(q) ==
  /\ stored[q] > 0
  /\ \E n \in 0..(stored[q] - 1) : stored' = [stored EXCEPT ![q] = n]
  /\ UNCHANGED <<left, pc, prompt, chain, call, breakers, spent, executing>>

(* The clock advances; a tick that no breaker notices is no step. *)
AgeBreakers ==
  /\ breakers' = [p \in Providers |-> Aged(breakers[p])]
  /\ UNCHANGED <<left, pc, prompt, chain, call, stored, spent, executing>>

Tick == AgeBreakers /\ breakers' # breakers

(* What complete does once a worker has taken a request. *)
Work(t) ==
  \/ Lookup(t) \/ EnterBudgetLock(t) \/ Relookup(t) \/ Plan(t)
  \/ Admit(t) \/ Deny(t) \/ Degrade(t)
  \/ ProviderFails(t) \/ ProviderSucceeds(t)
  \/ Store(t) \/ Charge(t)

Next ==
  \/ \E t \in Threads : Take(t) \/ Work(t)
  \/ \E q \in Prompts : Expire(q)
  \/ Tick

Spec == Init /\ [][Next]_vars

(* A worker that can go on does: a provider call is a bounded sleep.       *)
(* Locks are not fair, but the batch ends and with it the competition.     *)
Fairness == \A t \in Threads : WF_vars(Take(t) \/ Work(t))

FairSpec == Spec /\ Fairness
-----------------------------------------------------------------------------
(* The budget is overrun by less than one answer: the check in             *)
(* _provider_chain and the charge are far apart, and only                  *)
(* _budget_execution_lock keeps other calls from spending in between.      *)
OverrunBelowOneAnswer ==
  Budgeted => spent < MaxCost + DearestCall

(* From the soft limit on only a cheapest provider is called, and from the *)
(* budget on none: what is decided in _provider_chain still holds of the   *)
(* money spent when the call is made.                                      *)
CallsWithinLimits ==
  \A t \in Threads :
    Budgeted /\ At(t, "calling") =>
      /\ spent < MaxCost
      /\ spent >= SoftLimit => serving[t] \in Cheapest

(* With a budget no answer is bought that the cache already has, though it *)
(* was stored while the thread waited for the lock.                        *)
NothingBoughtTwice ==
  \A t \in Threads :
    Budgeted /\ At(t, "calling") => ~Cached(prompt[t])

(* With a budget the probes of every provider are single, which the        *)
(* breaker alone does not ensure (CircuitBreaker's AtMostOneProbe).        *)
ProbesAreSingle ==
  Budgeted => \A t, u \in Threads :
    probing[t] /\ probing[u] /\ serving[t] = serving[u] => t = u

(* Without a budget concurrent misses store an answer more than once, but  *)
(* no more often than there are workers.                                   *)
DuplicatesBounded ==
  \A q \in Prompts : stored[q] <= Cardinality(Threads)

(* The flag of a provider's probe is raised only while a worker is in      *)
(* there as its probe, on every path through complete.                     *)
NoLeakedProbe ==
  \A p \in Providers :
    breakers[p].probe_in_flight =>
      \E t \in Threads : serving[t] = p /\ probing[t]

(* Every provider is protected by a circuit that keeps the contract,       *)
(* whatever becomes of the others: this is \A p : Circuit(p)!Spec.         *)
Circuit(p) == INSTANCE CircuitContract WITH
  Callers <- Threads,
  Forgets <- FALSE,
  state   <- breakers[p].state,
  cooled  <- breakers[p].state = "open" /\ CooledDown(breakers[p]),
  running <- {t \in Threads : serving[t] = p}

ProvidersAreProtected ==
  /\ \A p \in Providers : Circuit(p)!Init
  /\ [][\A p \in Providers : [Circuit(p)!Next]_(Circuit(p)!vars)]_vars

(* Every request of the batch is answered. *)
EveryRequestAnswered ==
  <>[](left = 0 /\ \A t \in Threads : At(t, "idle"))
=============================================================================
