---------------------------- MODULE GatewayProofs ----------------------------
(***************************************************************************)
(* The gateway, for any pool of workers, any providers and prices and any  *)
(* budget or none.                                                         *)
(*                                                                         *)
(* First, what the budget lock ensures.  The inductive invariant says that *)
(* a worker past the lock is alone there; hence nobody else changes what   *)
(* it has decided on: the money spent, and the absence of its prompt from  *)
(* the cache.                                                              *)
(*                                                                         *)
(* Then, what the gateway makes of the breakers and of the cache: every    *)
(* provider's circuit keeps the contract, the probe flag of a breaker      *)
(* never outlives its probe, and a prompt is stored no more often than     *)
(* there are workers to have missed it together.                           *)
(***************************************************************************)
EXTENDS Gateway, BreakerStateLemmas, FiniteSetTheorems, TLAPS

Types ==
  /\ pc \in [Threads -> Point]
  /\ prompt \in [Threads -> Prompts \cup {Nothing}]
  /\ chain \in [Threads -> SUBSET Providers]
  /\ serving \in [Threads -> Providers \cup {Nothing}]
  /\ probing \in [Threads -> BOOLEAN]
  /\ cost \in [Threads -> 0..DearestCall]
  /\ stored \in [Prompts -> Nat]
  /\ spent \in Nat
  /\ executing \in SUBSET Threads

(* What concerns one worker. *)
Consistent(t) ==
  /\ pc[t] # "idle" => prompt[t] \in Prompts
  /\ probing[t] => pc[t] = "calling"
  /\ pc[t] = "calling" => serving[t] \in Providers

Alone(t) == pc[t] \in Executing => executing = {t}

(* The providers that may be called with so much spent. *)
Affordable == {p \in Providers : /\ spent < MaxCost
                                 /\ spent >= SoftLimit => p \in Cheapest}

WithinLimits(t) ==
  /\ pc[t] \in {"attempt", "calling"} => chain[t] \subseteq Affordable
  /\ pc[t] = "calling" => serving[t] \in Affordable
  /\ pc[t] \in {"store", "charge"} => spent < MaxCost

Missed(t) == pc[t] \in {"plan", "attempt", "calling"} => ~Cached(prompt[t])

Guarded(t) == Alone(t) /\ WithinLimits(t) /\ Missed(t)

IInv ==
  /\ Types
  /\ \A t \in Threads : Consistent(t)
  /\ Budgeted =>
       /\ spent < MaxCost + DearestCall
       /\ \A t \in Threads : Guarded(t)

LEMMA InitIInv == Init => IInv
BY GatewayAssumption
   DEF Init, IInv, Types, Consistent, Guarded, Alone, WithinLimits, Missed,
       Point, Executing, Budgeted

(* A worker past the lock finds every other one outside of it, where       *)
(* nothing is required of it.                                              *)
LEMMA OthersAreOutside ==
  ASSUME IInv, Budgeted, NEW t \in Threads, pc[t] \in Executing
  PROVE  \A u \in Threads \ {t} : pc[u] \notin Executing
BY DEF IInv, Guarded, Alone

LEMMA NothingIsAskedOutside ==
  ASSUME NEW u \in Threads, pc[u] \notin Executing
  PROVE  Guarded(u)
BY DEF Guarded, Alone, WithinLimits, Missed, Executing

(* A step that a worker takes past the lock, given what it does to that    *)
(* worker, leaves the others as they are.                                  *)
LEMMA StepInside ==
  ASSUME IInv, NEW t \in Threads,
         \A u \in Threads \ {t} :
            /\ pc'[u] = pc[u] /\ prompt'[u] = prompt[u]
            /\ probing'[u] = probing[u] /\ serving'[u] = serving[u],
         Types', Consistent(t)',
         Budgeted => pc[t] \in Executing /\ Guarded(t)'
                     /\ spent' < MaxCost + DearestCall
  PROVE  IInv'
<1>1. \A u \in Threads : Consistent(u)'
  BY DEF IInv, Consistent
<1>2. ASSUME Budgeted, NEW u \in Threads \ {t} PROVE Guarded(u)'
  <2>1. pc'[u] \notin Executing
    BY <1>2, OthersAreOutside
  <2>2. QED
    BY <2>1 DEF Guarded, Alone, WithinLimits, Missed, Executing
<1>3. QED
  BY <1>1, <1>2 DEF IInv, Budgeted

(* A step that a worker takes outside of the lock, and that keeps it there *)
(* or lets it pass as the first.                                           *)
LEMMA StepOutside ==
  ASSUME IInv, NEW t \in Threads, pc[t] \notin Executing,
         \A u \in Threads \ {t} :
            /\ pc'[u] = pc[u] /\ prompt'[u] = prompt[u] /\ probing'[u] = probing[u],
         UNCHANGED <<serving, spent, stored>>,
         \A u \in Threads \ {t} : chain'[u] = chain[u],
         Types', Consistent(t)',
         Budgeted => Guarded(t)',
         \/ executing' \in {executing, executing \ {t}}
         \/ executing = {} /\ executing' = {t}
  PROVE  IInv'
<1>1. \A u \in Threads : Consistent(u)'
  BY DEF IInv, Consistent
<1>2. ASSUME Budgeted, NEW u \in Threads \ {t} PROVE Guarded(u)'
  <2>0. Guarded(u)
    BY <1>2 DEF IInv
  <2>1. Alone(u)'
    BY <2>0, <1>2 DEF Guarded, Alone
  <2>2. WithinLimits(u)'
    BY <2>0 DEF Guarded, WithinLimits, Affordable
  <2>3. Missed(u)'
    BY <2>0 DEF Guarded, Missed, Cached
  <2>4. QED
    BY <2>1, <2>2, <2>3 DEF Guarded
<1>3. QED
  BY <1>1, <1>2 DEF IInv, Budgeted
-----------------------------------------------------------------------------
(* The requests that end. *)
LEMMA RespondFacts ==
  ASSUME IInv, NEW t \in Threads, Respond(t)
  PROVE  /\ pc' \in [Threads -> Point] /\ pc'[t] = "idle"
         /\ prompt' \in [Threads -> Prompts \cup {Nothing}]
         /\ chain' \in [Threads -> SUBSET Providers]
         /\ executing' \in SUBSET Threads
         /\ executing' = executing \ {t}
         /\ \A u \in Threads \ {t} :
              pc'[u] = pc[u] /\ prompt'[u] = prompt[u] /\ chain'[u] = chain[u]
         /\ Guarded(t)'
<1>1. pc' \in [Threads -> Point] /\ pc'[t] = "idle"
  BY DEF IInv, Types, Respond, Go, Point
<1>2. Guarded(t)'
  BY <1>1 DEF Guarded, Alone, WithinLimits, Missed, Executing
<1>3. QED
  BY <1>1, <1>2 DEF IInv, Types, Respond, Go

LEMMA TakeIInv ==
  ASSUME IInv, NEW t \in Threads, Take(t)
  PROVE  IInv'
<1>1. pc' \in [Threads -> Point] /\ pc'[t] = "lookup" /\ prompt'[t] \in Prompts
  BY DEF IInv, Types, Take, Go, Point
<1>2. Types'
  BY <1>1 DEF IInv, Types, Take, call, shared
<1>3. Guarded(t)'
  BY <1>1 DEF Guarded, Alone, WithinLimits, Missed, Executing
<1>4. Consistent(t)'
  BY <1>1 DEF Consistent, IInv, Take, At, call
<1>5. QED
  BY <1>1, <1>2, <1>3, <1>4, StepOutside
     DEF Take, At, Go, call, shared, Executing, IInv, Types

LEMMA LookupIInv ==
  ASSUME IInv, NEW t \in Threads, Lookup(t)
  PROVE  IInv'
<1>0. pc[t] = "lookup" /\ ~probing[t] /\ prompt[t] \in Prompts
  BY DEF Lookup, At, IInv, Consistent
<1>1. CASE Cached(prompt[t])
  <2>1. Respond(t) /\ UNCHANGED <<left, call, shared>>
    BY <1>1 DEF Lookup
  <2>2. Types' /\ Consistent(t)'
    BY <1>0, <2>1, RespondFacts DEF IInv, Types, Consistent, call, shared
  <2>3. QED
    BY <1>0, <2>1, <2>2, RespondFacts, StepOutside DEF call, shared, Executing
<1>2. CASE ~Cached(prompt[t])
  <2>1. /\ Go(t, IF Budgeted THEN "enter" ELSE "plan")
        /\ UNCHANGED <<left, prompt, chain, executing, call, shared>>
    BY <1>2 DEF Lookup
  <2>2. pc' \in [Threads -> Point] /\ pc'[t] = IF Budgeted THEN "enter" ELSE "plan"
    BY <2>1 DEF IInv, Types, Go, Point, Executing
  <2>3. Types' /\ Consistent(t)'
    BY <1>0, <2>1, <2>2 DEF IInv, Types, Consistent, call, shared
  <2>4. Budgeted => Guarded(t)'
    BY <2>2 DEF Guarded, Alone, WithinLimits, Missed, Executing
  <2>5. QED
    BY <1>0, <2>1, <2>3, <2>4, StepOutside
       DEF Go, call, shared, Executing, IInv, Types
<1>3. QED
  BY <1>1, <1>2

LEMMA EnterIInv ==
  ASSUME IInv, NEW t \in Threads, EnterBudgetLock(t)
  PROVE  IInv'
<1>0. pc[t] = "enter" /\ ~probing[t] /\ prompt[t] \in Prompts
  BY DEF EnterBudgetLock, At, IInv, Consistent
<1>1. pc' \in [Threads -> Point] /\ pc'[t] = "relookup"
  BY DEF IInv, Types, EnterBudgetLock, Go, Point, Executing
<1>2. Types' /\ Consistent(t)'
  BY <1>0, <1>1 DEF IInv, Types, Consistent, EnterBudgetLock, call, shared
<1>3. Guarded(t)'
  BY <1>1 DEF Guarded, Alone, WithinLimits, Missed, EnterBudgetLock
<1>4. QED
  BY <1>0, <1>2, <1>3, StepOutside
     DEF EnterBudgetLock, Go, call, shared, Executing, IInv, Types

LEMMA RelookupIInv ==
  ASSUME IInv, NEW t \in Threads, Relookup(t)
  PROVE  IInv'
<1>0. pc[t] = "relookup" /\ ~probing[t] /\ prompt[t] \in Prompts
  BY DEF Relookup, At, IInv, Consistent
<1>1. CASE Cached(prompt[t])
  <2>1. Respond(t) /\ UNCHANGED <<left, call, shared>>
    BY <1>1 DEF Relookup
  <2>2. Types' /\ Consistent(t)'
    BY <1>0, <2>1, RespondFacts DEF IInv, Types, Consistent, call, shared
  <2>3. QED
    BY <1>0, <2>1, <2>2, RespondFacts, StepInside
       DEF call, shared, Executing, IInv
<1>2. CASE ~Cached(prompt[t])
  <2>1. /\ Go(t, "plan")
        /\ UNCHANGED <<left, prompt, chain, executing, call, shared>>
    BY <1>2 DEF Relookup
  <2>2. pc' \in [Threads -> Point] /\ pc'[t] = "plan"
    BY <2>1 DEF IInv, Types, Go, Point, Executing
  <2>3. Types' /\ Consistent(t)'
    BY <1>0, <2>1, <2>2 DEF IInv, Types, Consistent, call, shared
  <2>4. Budgeted => Guarded(t)'
    BY <1>0, <1>2, <2>1, <2>2
       DEF Guarded, Alone, WithinLimits, Missed, Executing, Cached, IInv, shared
  <2>5. QED
    BY <1>0, <2>1, <2>3, <2>4, StepInside
       DEF Go, call, shared, Executing, IInv, Types
<1>3. QED
  BY <1>1, <1>2

LEMMA PlanIInv ==
  ASSUME IInv, NEW t \in Threads, Plan(t)
  PROVE  IInv'
<1>0. pc[t] = "plan" /\ ~probing[t] /\ prompt[t] \in Prompts
  BY DEF Plan, At, IInv, Consistent
<1>1. pc' \in [Threads -> Point] /\ pc'[t] = "attempt"
  BY DEF IInv, Types, Plan, Go, Point, Executing
<1>2. /\ ProviderChain \subseteq Providers
      /\ Budgeted => ProviderChain \subseteq Affordable
  BY GatewayAssumption
     DEF ProviderChain, Affordable, Cheapest, Budgeted, IInv, Types
<1>3. chain' \in [Threads -> SUBSET Providers] /\ chain'[t] = ProviderChain
  BY <1>2 DEF IInv, Types, Plan
<1>4. Types' /\ Consistent(t)'
  BY <1>0, <1>1, <1>3 DEF IInv, Types, Consistent, Plan, call, shared
<1>5. Budgeted => Guarded(t)'
  <2> SUFFICES ASSUME Budgeted PROVE Guarded(t)'
    OBVIOUS
  <2>1. Guarded(t)
    BY DEF IInv
  <2>2. Alone(t)' /\ Missed(t)'
    BY <1>0, <1>1, <2>1
       DEF Guarded, Alone, Missed, Executing, Cached, Plan, shared
  <2>3. Affordable' = Affordable
    BY DEF Affordable, Plan, shared
  <2>4. QED
    BY <1>1, <1>2, <1>3, <2>2, <2>3 DEF Guarded, WithinLimits
<1>6. QED
  BY <1>0, <1>4, <1>5, StepInside
     DEF Plan, Go, call, shared, Executing, IInv, Types
-----------------------------------------------------------------------------
LEMMA AdmitIInv ==
  ASSUME IInv, NEW t \in Threads, Admit(t)
  PROVE  IInv'
<1>0. pc[t] = "attempt" /\ prompt[t] \in Prompts
  BY DEF Admit, At, IInv, Consistent
<1>1. pc' \in [Threads -> Point] /\ pc'[t] = "calling"
  BY DEF IInv, Types, Admit, Go, Point, Executing
<1>2. PICK p \in chain[t] :
        /\ chain' = [chain EXCEPT ![t] = @ \ {p}]
        /\ serving' = [serving EXCEPT ![t] = p]
        /\ probing' = [probing EXCEPT ![t] = breakers[p].state # "closed"]
  BY DEF Admit
<1>3. p \in Providers
  BY <1>2 DEF IInv, Types
<1>4. Types' /\ Consistent(t)'
  BY <1>0, <1>1, <1>2, <1>3 DEF IInv, Types, Consistent, Admit
<1>5. Budgeted => Guarded(t)'
  <2> SUFFICES ASSUME Budgeted PROVE Guarded(t)'
    OBVIOUS
  <2>1. Guarded(t)
    BY DEF IInv
  <2>2. Alone(t)' /\ Missed(t)'
    BY <1>0, <1>1, <2>1 DEF Guarded, Alone, Missed, Executing, Cached, Admit
  <2>3. Affordable' = Affordable
    BY DEF Affordable, Admit
  <2>4. chain'[t] \subseteq chain[t] /\ serving'[t] = p
    BY <1>2 DEF IInv, Types
  <2>5. QED
    BY <1>0, <1>1, <2>1, <2>2, <2>3, <2>4 DEF Guarded, WithinLimits
<1>6. QED
  BY <1>0, <1>2, <1>4, <1>5, StepInside
     DEF Admit, Go, Executing, IInv, Types

LEMMA DenyIInv ==
  ASSUME IInv, NEW t \in Threads, Deny(t)
  PROVE  IInv'
<1>0. pc[t] = "attempt" /\ pc' = pc
  BY DEF Deny, At
<1>1. /\ chain' \in [Threads -> SUBSET Providers]
      /\ chain'[t] \subseteq chain[t]
  BY DEF IInv, Types, Deny
<1>2. Types' /\ Consistent(t)'
  BY <1>0, <1>1 DEF IInv, Types, Consistent, Deny, call, shared
<1>3. Budgeted => Guarded(t)'
  BY <1>0, <1>1
     DEF IInv, Guarded, Alone, WithinLimits, Missed, Affordable, Cached, Deny,
         call, shared
<1>4. QED
  BY <1>0, <1>2, <1>3, StepInside
     DEF Deny, call, shared, Executing, IInv

LEMMA DegradeIInv ==
  ASSUME IInv, NEW t \in Threads, Degrade(t)
  PROVE  IInv'
<1>0. pc[t] = "attempt" /\ ~probing[t]
  BY DEF Degrade, At, IInv, Consistent
<1>1. Respond(t) /\ UNCHANGED <<left, call, shared>>
  BY DEF Degrade
<1>2. Types' /\ Consistent(t)'
  BY <1>0, <1>1, RespondFacts DEF IInv, Types, Consistent, call, shared
<1>3. QED
  BY <1>0, <1>1, <1>2, RespondFacts, StepInside
     DEF call, shared, Executing, IInv

LEMMA FailIInv ==
  ASSUME IInv, NEW t \in Threads, ProviderFails(t)
  PROVE  IInv'
<1>0. pc[t] = "calling" /\ prompt[t] \in Prompts
  BY DEF ProviderFails, Leave, At, IInv, Consistent
<1>1. /\ pc' \in [Threads -> Point] /\ pc'[t] = "attempt"
      /\ probing' \in [Threads -> BOOLEAN] /\ ~probing'[t]
      /\ serving' \in [Threads -> Providers \cup {Nothing}]
  BY DEF IInv, Types, ProviderFails, Leave, Go, Point, Executing
<1>2. Types' /\ Consistent(t)'
  BY <1>0, <1>1 DEF IInv, Types, Consistent, ProviderFails
<1>3. Budgeted => Guarded(t)'
  BY <1>0, <1>1
     DEF IInv, Guarded, Alone, WithinLimits, Missed, Affordable, Cached,
         Executing, ProviderFails
<1>4. QED
  BY <1>0, <1>2, <1>3, StepInside
     DEF ProviderFails, Leave, Go, Executing, IInv, Types

LEMMA SucceedIInv ==
  ASSUME IInv, NEW t \in Threads, ProviderSucceeds(t)
  PROVE  IInv'
<1>0. pc[t] = "calling" /\ prompt[t] \in Prompts
  BY DEF ProviderSucceeds, Leave, At, IInv, Consistent
<1>1. /\ pc' \in [Threads -> Point] /\ pc'[t] = "store"
      /\ probing' \in [Threads -> BOOLEAN] /\ ~probing'[t]
      /\ serving' \in [Threads -> Providers \cup {Nothing}]
  BY DEF IInv, Types, ProviderSucceeds, Leave, Go, Point, Executing
<1>2. cost' \in [Threads -> 0..DearestCall]
  <2>1. PICK amount \in CallCost[serving[t]] :
          cost' = [cost EXCEPT ![t] = amount]
    BY DEF ProviderSucceeds
  <2>2. serving[t] \in Providers
    BY <1>0 DEF IInv, Consistent
  <2>3. amount \in 0..DearestCall
    <3>1. CallCost[serving[t]] \in SUBSET Nat
      BY <2>2, GatewayAssumption
    <3>2. amount \in Nat /\ amount <= DearestCall
      BY <2>1, <2>2, <3>1, GatewayAssumption
    <3>3. QED
      BY <3>2, GatewayAssumption
  <2>4. QED
    BY <2>1, <2>3 DEF IInv, Types
<1>3. Types' /\ Consistent(t)'
  BY <1>0, <1>1, <1>2 DEF IInv, Types, Consistent, ProviderSucceeds
<1>4. Budgeted => Guarded(t)'
  BY <1>0, <1>1
     DEF IInv, Guarded, Alone, WithinLimits, Missed, Affordable,
         Executing, ProviderSucceeds
<1>5. QED
  BY <1>0, <1>3, <1>4, StepInside
     DEF ProviderSucceeds, Leave, Go, Executing, IInv, Types

LEMMA StoreIInv ==
  ASSUME IInv, NEW t \in Threads, Store(t)
  PROVE  IInv'
<1>0. pc[t] = "store" /\ prompt[t] \in Prompts /\ ~probing[t]
  BY DEF Store, At, IInv, Consistent
<1>1. pc' \in [Threads -> Point] /\ pc'[t] = "charge"
  BY DEF IInv, Types, Store, Go, Point, Executing
<1>2. stored' \in [Prompts -> Nat]
  BY <1>0 DEF IInv, Types, Store
<1>3. Types' /\ Consistent(t)'
  BY <1>0, <1>1, <1>2 DEF IInv, Types, Consistent, Store, call
<1>4. Budgeted => Guarded(t)'
  BY <1>0, <1>1
     DEF IInv, Guarded, Alone, WithinLimits, Missed, Executing, Store
<1>5. QED
  BY <1>0, <1>3, <1>4, StepInside
     DEF Store, Go, call, Executing, IInv, Types

LEMMA ChargeIInv ==
  ASSUME IInv, NEW t \in Threads, Charge(t)
  PROVE  IInv'
<1>0. pc[t] = "charge" /\ ~probing[t]
  BY DEF Charge, At, IInv, Consistent
<1>1. cost[t] \in 0..DearestCall /\ spent \in Nat /\ spent' = spent + cost[t]
  BY DEF IInv, Types, Charge
<1>2. cost' \in [Threads -> 0..DearestCall] /\ spent' \in Nat
  BY <1>1, GatewayAssumption DEF IInv, Types, Charge
<1>3. Types' /\ Consistent(t)'
  BY <1>0, <1>2, RespondFacts DEF IInv, Types, Consistent, Charge
<1>4. Budgeted => spent' < MaxCost + DearestCall
  BY <1>0, <1>1, GatewayAssumption DEF IInv, Guarded, WithinLimits
<1>5. QED
  BY <1>0, <1>3, <1>4, RespondFacts, StepInside DEF Charge, Executing

LEMMA ExpireIInv ==
  ASSUME IInv, NEW q \in Prompts, Expire(q)
  PROVE  IInv'
<1>1. PICK n \in 0..(stored[q] - 1) : stored' = [stored EXCEPT ![q] = n]
  BY DEF Expire
<1>2. Types' /\ \A p \in Prompts : stored'[p] <= stored[p]
  BY <1>1 DEF IInv, Types, Expire, call
<1>3. \A t \in Threads : Missed(t) => Missed(t)'
  <2> SUFFICES ASSUME NEW t \in Threads, Missed(t),
                      pc[t] \in {"plan", "attempt", "calling"}
               PROVE  ~Cached(prompt[t])'
    BY DEF Missed, Expire
  <2>1. prompt[t] \in Prompts /\ ~Cached(prompt[t])
    BY DEF IInv, Consistent, Missed
  <2>2. stored[prompt[t]] \in Nat /\ stored'[prompt[t]] \in Nat
    BY <1>2, <2>1 DEF IInv, Types
  <2>3. QED
    BY <1>2, <2>1, <2>2 DEF Cached, Expire
<1>4. QED
  BY <1>2, <1>3
     DEF IInv, Consistent, Guarded, Alone, WithinLimits, Affordable, Budgeted,
         Expire, call

LEMMA NextIInv == IInv /\ [Next]_vars => IInv'
<1> SUFFICES ASSUME IInv, [Next]_vars PROVE IInv'
  OBVIOUS
<1>1. ASSUME NEW t \in Threads, Take(t) \/ Work(t) PROVE IInv'
  BY <1>1, TakeIInv, LookupIInv, EnterIInv, RelookupIInv, PlanIInv, AdmitIInv,
     DenyIInv, DegradeIInv, FailIInv, SucceedIInv, StoreIInv, ChargeIInv
     DEF Work
<1>2. ASSUME NEW q \in Prompts, Expire(q) PROVE IInv'
  BY <1>2, ExpireIInv
<1>3. CASE Tick
  BY <1>3 DEF Tick, AgeBreakers, call, IInv, Types, Consistent, Budgeted, Guarded, Alone,
              WithinLimits, Affordable, Missed, Cached
<1>4. CASE UNCHANGED vars
  BY <1>4 DEF vars, IInv, Types, Consistent, Budgeted, Guarded, Alone,
              WithinLimits, Affordable, Missed, Cached
<1>5. QED
  BY <1>1, <1>2, <1>3, <1>4 DEF Next

(* The inductive invariant holds in every reachable state. *)
THEOREM Invariance == Spec => []IInv
BY InitIInv, NextIInv, PTL DEF Spec

(* The budget is overrun by less than one answer, however many workers     *)
(* there are.                                                              *)
THEOREM BudgetHolds == Spec => []OverrunBelowOneAnswer
<1>1. IInv => OverrunBelowOneAnswer
  BY DEF IInv, OverrunBelowOneAnswer
<1>2. QED
  BY <1>1, Invariance, PTL

(* The limits decided on in _provider_chain still hold when the call is    *)
(* made.                                                                   *)
THEOREM LimitsHoldAtTheCall == Spec => []CallsWithinLimits
<1>1. IInv => CallsWithinLimits
  BY DEF IInv, CallsWithinLimits, Guarded, WithinLimits, Affordable, At
<1>2. QED
  BY <1>1, Invariance, PTL

(* With a budget no answer is bought that the cache already has. *)
THEOREM NoAnswerIsBoughtTwice == Spec => []NothingBoughtTwice
<1>1. IInv => NothingBoughtTwice
  BY DEF IInv, NothingBoughtTwice, Guarded, Missed, At
<1>2. QED
  BY <1>1, Invariance, PTL

(* With a budget every provider has at most one probe in flight. *)
THEOREM BudgetedProbesAreSingle == Spec => []ProbesAreSingle
<1>1. IInv => ProbesAreSingle
  BY DEF IInv, ProbesAreSingle, Consistent, Guarded, Alone, Executing
<1>2. QED
  BY <1>1, Invariance, PTL

-----------------------------------------------------------------------------
(***************************************************************************)
(* The breakers, and the answers in the cache counted.                     *)
(***************************************************************************)

(* A worker is in a provider's callable exactly while it is calling, and   *)
(* the flag of a probe is held by a worker that is in there as one.        *)
CInv ==
  /\ breakers \in [Providers -> Breaker]
  /\ \A p \in Providers : SoundBreaker(breakers[p])
  /\ \A t \in Threads : pc[t] # "calling" => serving[t] = Nothing
  /\ NoLeakedProbe

LEMMA InitCInv == Init => CInv
<1> SUFFICES ASSUME Init PROVE CInv
  OBVIOUS
<1>1. NewBreaker \in Breaker /\ SoundBreaker(NewBreaker)
  BY NewBreakerSound DEF SoundBreaker
<1>2. ~NewBreaker.probe_in_flight
  BY DEF NewBreaker
<1>3. QED
  BY <1>1, <1>2 DEF Init, CInv, NoLeakedProbe

(* No provider is nobody. *)
LEMMA NothingIsNoProvider == Nothing \notin Providers
BY GatewayAssumption DEF Nothing

(* A worker that is let through a breaker. *)
LEMMA AdmitCInv ==
  ASSUME IInv, CInv, NEW t \in Threads, Admit(t)
  PROVE  CInv'
<1>1. PICK p \in chain[t] :
        /\ Allows(breakers[p])
        /\ breakers' = [breakers EXCEPT ![p] = AfterAllow(@)]
        /\ serving' = [serving EXCEPT ![t] = p]
        /\ probing' = [probing EXCEPT ![t] = breakers[p].state # "closed"]
  BY DEF Admit
<1>2. p \in Providers /\ pc[t] = "attempt" /\ pc' = [pc EXCEPT ![t] = "calling"]
  BY DEF IInv, Types, Admit, At, Go
<1>3. /\ SoundBreaker(breakers[p]) /\ SoundBreaker(AfterAllow(breakers[p]))
      /\ AfterAllow(breakers[p]) \in Breaker
      /\ breakers[p].state = "closed" => AfterAllow(breakers[p]) = breakers[p]
  BY <1>1, <1>2, AllowSound DEF CInv, SoundBreaker
<1>4. /\ breakers' \in [Providers -> Breaker]
      /\ \A q \in Providers : SoundBreaker(breakers'[q])
  BY <1>1, <1>2, <1>3 DEF CInv
<1>5. \A u \in Threads : pc'[u] # "calling" => serving'[u] = Nothing
  BY <1>1, <1>2 DEF CInv, IInv, Types
<1>6. ASSUME NEW q \in Providers, breakers'[q].probe_in_flight
      PROVE  \E u \in Threads : serving'[u] = q /\ probing'[u]
  <2>1. CASE q = p /\ breakers[p].state # "closed"
    BY <1>1, <2>1 DEF IInv, Types
  <2>2. CASE ~(q = p /\ breakers[p].state # "closed")
    <3>1. breakers[q].probe_in_flight
      BY <1>1, <1>2, <1>3, <1>6, <2>2 DEF CInv
    <3>2. PICK u \in Threads : serving[u] = q /\ probing[u]
      BY <3>1 DEF CInv, NoLeakedProbe
    <3>3. u # t
      BY <1>2, <3>2 DEF IInv, Consistent
    <3>4. QED
      BY <1>1, <3>2, <3>3 DEF IInv, Types
  <2>3. QED
    BY <2>1, <2>2
<1>7. QED
  BY <1>4, <1>5, <1>6 DEF CInv, NoLeakedProbe

(* A worker whose call has ended, given what the breaker makes of it. *)
LEMMA LeaveCInv ==
  ASSUME IInv, CInv, NEW t \in Threads, Leave(t), NEW b,
         SoundBreaker(b), ~b.probe_in_flight,
         breakers' = [breakers EXCEPT ![serving[t]] = b],
         \A u \in Threads \ {t} : pc'[u] = pc[u]
  PROVE  CInv'
<1>1. /\ serving' = [serving EXCEPT ![t] = Nothing]
      /\ probing' = [probing EXCEPT ![t] = FALSE]
      /\ serving[t] \in Providers
  BY DEF Leave, IInv, Consistent, At
<1>2. /\ breakers' \in [Providers -> Breaker]
      /\ \A q \in Providers : SoundBreaker(breakers'[q])
  BY <1>1 DEF CInv, SoundBreaker
<1>3. \A u \in Threads : pc'[u] # "calling" => serving'[u] = Nothing
  BY <1>1 DEF CInv, IInv, Types
<1>4. ASSUME NEW q \in Providers, breakers'[q].probe_in_flight
      PROVE  \E u \in Threads : serving'[u] = q /\ probing'[u]
  <2>1. q # serving[t] /\ breakers[q].probe_in_flight
    BY <1>1, <1>4 DEF CInv
  <2>2. PICK u \in Threads : serving[u] = q /\ probing[u]
    BY <2>1 DEF CInv, NoLeakedProbe
  <2>3. QED
    BY <1>1, <2>1, <2>2 DEF IInv, Types
<1>5. QED
  BY <1>2, <1>3, <1>4 DEF CInv, NoLeakedProbe

LEMMA OutcomeCInv ==
  ASSUME IInv, CInv, NEW t \in Threads, ProviderFails(t) \/ ProviderSucceeds(t)
  PROVE  CInv'
<1>1. /\ Leave(t) /\ serving[t] \in Providers
      /\ \A u \in Threads \ {t} : pc'[u] = pc[u]
  BY DEF ProviderFails, ProviderSucceeds, Leave, At, Go, IInv, Types, Consistent
<1>2. SoundBreaker(breakers[serving[t]])
  BY <1>1 DEF CInv
<1>3. CASE ProviderFails(t)
  <2>1. breakers' = [breakers EXCEPT ![serving[t]] = AfterFailure(breakers[serving[t]])]
    BY <1>3 DEF ProviderFails
  <2>2. QED
    BY <1>1, <1>2, <2>1, FailureSound, LeaveCInv
<1>4. CASE ProviderSucceeds(t)
  <2>1. breakers' = [breakers EXCEPT ![serving[t]] = AfterSuccess(breakers[serving[t]])]
    BY <1>4 DEF ProviderSucceeds
  <2>2. QED
    BY <1>1, <1>2, <2>1, SuccessSound, LeaveCInv
<1>5. QED
  BY <1>3, <1>4

(* The other steps of a worker leave the breakers and the calls alone. *)
OffTheBreakers(t) ==
  \/ Take(t) \/ Lookup(t) \/ EnterBudgetLock(t) \/ Relookup(t) \/ Plan(t)
  \/ Deny(t) \/ Degrade(t) \/ Store(t) \/ Charge(t)

LEMMA OffTheBreakersFacts ==
  ASSUME IInv, NEW t \in Threads, OffTheBreakers(t)
  PROVE  /\ UNCHANGED <<breakers, serving, probing>>
         /\ pc[t] # "calling" /\ pc'[t] # "calling"
         /\ \A u \in Threads \ {t} : pc'[u] = pc[u]
BY DEF OffTheBreakers, Take, Lookup, EnterBudgetLock, Relookup, Plan, Deny, Degrade,
       Store, Charge, Respond, Go, At, call, shared, IInv, Types

LEMMA NextCInv == IInv /\ CInv /\ [Next]_vars => CInv'
<1> SUFFICES ASSUME IInv, CInv, [Next]_vars PROVE CInv'
  OBVIOUS
<1>1. ASSUME NEW t \in Threads, OffTheBreakers(t) PROVE CInv'
  BY <1>1, OffTheBreakersFacts DEF CInv, NoLeakedProbe
<1>2. ASSUME NEW t \in Threads, Take(t) \/ Work(t) PROVE CInv'
  BY <1>1, <1>2, AdmitCInv, OutcomeCInv DEF Work, OffTheBreakers
<1>3. ASSUME NEW q \in Prompts, Expire(q) PROVE CInv'
  BY <1>3 DEF Expire, call, CInv, NoLeakedProbe
<1>4. CASE Tick
  <2>1. \A p \in Providers :
          /\ SoundBreaker(Aged(breakers[p])) /\ Aged(breakers[p]) \in Breaker
          /\ Aged(breakers[p]).probe_in_flight = breakers[p].probe_in_flight
    BY AgedSound DEF CInv, SoundBreaker
  <2>2. QED
    BY <1>4, <2>1 DEF Tick, AgeBreakers, call, CInv, NoLeakedProbe
<1>5. CASE UNCHANGED vars
  BY <1>5 DEF vars, CInv, NoLeakedProbe
<1>6. QED
  BY <1>2, <1>3, <1>4, <1>5 DEF Next

(* CInv holds in every reachable state. *)
THEOREM CircuitInvariance == Spec => []CInv
BY InitCInv, NextCInv, Invariance, PTL DEF Spec

(* On every path through complete, and whichever thread's outcome lowers   *)
(* it, the flag of a provider's probe is up only while a worker is in that *)
(* provider's callable as its probe.                                       *)
THEOREM ProbeFlagIsNotLeaked == Spec => []NoLeakedProbe
<1>1. CInv => NoLeakedProbe
  BY DEF CInv
<1>2. QED
  BY <1>1, CircuitInvariance, PTL
-----------------------------------------------------------------------------
(* Every provider's circuit refines the contract. *)
LEMMA AdmitStep ==
  ASSUME IInv, CInv, NEW t \in Threads, Admit(t), NEW p \in Providers
  PROVE  [Circuit(p)!Next]_(Circuit(p)!vars)
<1> DEFINE running == {u \in Threads : serving[u] = p}
<1>1. PICK q \in chain[t] :
        /\ Allows(breakers[q])
        /\ breakers' = [breakers EXCEPT ![q] = AfterAllow(@)]
        /\ serving' = [serving EXCEPT ![t] = q]
  BY DEF Admit
<1>2. q \in Providers /\ serving[t] = Nothing
  BY DEF IInv, Types, Admit, At, CInv
<1>3. CASE q # p
  <2>1. breakers'[p] = breakers[p]
    BY <1>1, <1>3 DEF CInv
  <2>2. running' = running
    BY <1>1, <1>2, <1>3, NothingIsNoProvider DEF IInv, Types
  <2>3. QED
    BY <2>1, <2>2 DEF Circuit!vars
<1>4. CASE q = p
  <2>1. t \notin running /\ running' = running \cup {t}
    BY <1>1, <1>2, <1>4, NothingIsNoProvider DEF IInv, Types
  <2>2. SoundBreaker(breakers[p]) /\ breakers'[p] = AfterAllow(breakers[p])
    BY <1>1, <1>4 DEF CInv
  <2>3. CASE breakers[p].state = "closed"
    <3>1. breakers'[p] = breakers[p]
      BY <1>1, <1>4, <2>2, <2>3, AllowSound
    <3>2. Circuit(p)!Admit(t)
      BY <2>1, <2>3, <3>1 DEF Circuit!Admit
    <3>3. QED
      BY <3>2 DEF Circuit!Next
  <2>4. CASE breakers[p].state # "closed"
    <3>1. breakers'[p].state = "half_open"
      BY <1>1, <1>4, <2>2, <2>4, AllowSound
    <3>2. \/ breakers[p].state = "half_open"
          \/ breakers[p].state = "open" /\ CooledDown(breakers[p])
      BY <1>1, <1>4, <2>4 DEF Allows
    <3>3. Circuit(p)!Try(t)
      BY <2>1, <3>1, <3>2 DEF Circuit!Try
    <3>4. QED
      BY <3>3 DEF Circuit!Next
  <2>5. QED
    BY <2>3, <2>4
<1>5. QED
  BY <1>3, <1>4
LEMMA OutcomeStep ==
  ASSUME IInv, CInv, NEW t \in Threads, ProviderFails(t) \/ ProviderSucceeds(t),
         NEW p \in Providers
  PROVE  [Circuit(p)!Next]_(Circuit(p)!vars)
<1> DEFINE running == {u \in Threads : serving[u] = p}
           cooled  == breakers[p].state = "open" /\ CooledDown(breakers[p])
<1>1. /\ serving' = [serving EXCEPT ![t] = Nothing] /\ serving[t] \in Providers
      /\ \/ breakers' = [breakers EXCEPT ![serving[t]] = AfterFailure(@)]
         \/ breakers' = [breakers EXCEPT ![serving[t]] = AfterSuccess(@)]
  BY DEF ProviderFails, ProviderSucceeds, Leave, At, IInv, Consistent
<1>2. CASE serving[t] # p
  <2>1. breakers'[p] = breakers[p] /\ running' = running
    BY <1>1, <1>2, NothingIsNoProvider DEF CInv, IInv, Types
  <2>2. QED
    BY <2>1 DEF Circuit!vars
<1>3. CASE serving[t] = p
  <2>1. t \in running /\ running' = running \ {t}
    BY <1>1, <1>3, NothingIsNoProvider DEF IInv, Types
  <2>2. /\ SoundBreaker(breakers[p])
        /\ \/ breakers'[p] = AfterFailure(breakers[p])
           \/ breakers'[p] = AfterSuccess(breakers[p])
    BY <1>1, <1>3 DEF CInv
  <2>3. \/ /\ breakers'[p].state = breakers[p].state
           /\ breakers'[p].opened_age = breakers[p].opened_age
        \/ /\ breakers[p].state \in {"closed", "half_open"}
           /\ breakers'[p].state = "open"
           /\ breakers'[p].opened_age = 0
        \/ breakers[p].state = "half_open" /\ breakers'[p].state = "closed"
    BY <2>2, FailureSound, SuccessSound
  <2>4. \/ breakers'[p].state = breakers[p].state /\ cooled' = cooled
        \/ /\ breakers[p].state \in {"closed", "half_open"}
           /\ breakers'[p].state = "open" /\ ~cooled'
        \/ /\ breakers[p].state = "half_open" /\ breakers'[p].state = "closed"
           /\ cooled' = cooled
    BY <2>3, ThresholdsAssumption DEF CooledDown
  <2>5. Circuit(p)!End(t)
    BY <2>1, <2>4 DEF Circuit!End
  <2>6. QED
    BY <2>5 DEF Circuit!Next
<1>4. QED
  BY <1>2, <1>3

LEMMA TickStep ==
  ASSUME CInv, Tick, NEW p \in Providers
  PROVE  [Circuit(p)!Next]_(Circuit(p)!vars)
<1> DEFINE cooled == breakers[p].state = "open" /\ CooledDown(breakers[p])
<1>1. /\ breakers'[p] = Aged(breakers[p]) /\ serving' = serving
      /\ SoundBreaker(breakers[p]) /\ breakers[p] \in Breaker
  BY DEF Tick, AgeBreakers, call, CInv
<1>2. breakers'[p].state = breakers[p].state
  BY <1>1, AgedSound
<1>3. cooled => cooled'
  BY <1>1, <1>2, ThresholdsAssumption DEF Aged, CooledDown, Breaker, NotOpened
<1>4. CASE cooled'
  <2>1. Circuit(p)!Cool
    BY <1>1, <1>2, <1>4 DEF Circuit!Cool
  <2>2. QED
    BY <2>1 DEF Circuit!Next
<1>5. CASE ~cooled'
  BY <1>1, <1>2, <1>3, <1>5 DEF Circuit!vars
<1>6. QED
  BY <1>4, <1>5

LEMMA StepRefinesContracts ==
  IInv /\ CInv /\ [Next]_vars =>
    \A p \in Providers : [Circuit(p)!Next]_(Circuit(p)!vars)
<1> SUFFICES ASSUME IInv, CInv, [Next]_vars, NEW p \in Providers
             PROVE  [Circuit(p)!Next]_(Circuit(p)!vars)
  OBVIOUS
<1>1. ASSUME UNCHANGED <<breakers, serving>>
      PROVE  UNCHANGED Circuit(p)!vars
  BY <1>1 DEF Circuit!vars, CooledDown
<1>2. ASSUME NEW t \in Threads, OffTheBreakers(t)
      PROVE  UNCHANGED Circuit(p)!vars
  BY <1>1, <1>2, OffTheBreakersFacts
<1>3. ASSUME NEW t \in Threads, Take(t) \/ Work(t)
      PROVE  [Circuit(p)!Next]_(Circuit(p)!vars)
  BY <1>2, <1>3, AdmitStep, OutcomeStep DEF Work, OffTheBreakers
<1>4. ASSUME NEW q \in Prompts, Expire(q)
      PROVE  UNCHANGED Circuit(p)!vars
  BY <1>1, <1>4 DEF Expire, call
<1>5. CASE UNCHANGED vars
  BY <1>1, <1>5 DEF vars
<1>6. QED
  BY <1>3, <1>4, <1>5, TickStep DEF Next

(* Whatever the requests, the other providers and the cache do, each       *)
(* provider is called through a circuit that keeps the contract: no call   *)
(* while it is OPEN and has not cooled down, and legal edges only.         *)
THEOREM EveryProviderIsProtected == Spec => ProvidersAreProtected
<1>1. Init => \A p \in Providers : Circuit(p)!Init
  BY NothingIsNoProvider DEF Init, Circuit!Init, NewBreaker
<1>2. QED
  BY <1>1, StepRefinesContracts, Invariance, CircuitInvariance, PTL
     DEF Spec, ProvidersAreProtected
-----------------------------------------------------------------------------
(* What is stored and spent is bounded by counting the workers that still  *)
(* may store or spend.                                                     *)
Busy == {t \in Threads : pc[t] # "idle"}

(* Workers that have not yet stored what they may buy. *)
Unstored == {t \in Threads : pc[t] \notin {"idle", "charge"}}

(* Workers that have missed the cache with prompt q.  A worker misses only *)
(* where nothing is stored, so each stored duplicate is a worker's who has *)
(* missed before the first was stored.                                     *)
Buying(q) ==
  {t \in Threads : /\ prompt[t] = q
                   /\ pc[t] \notin {"idle", "lookup", "charge"}}

Due == left + Cardinality(Busy)

DueBound == left \in Nat /\ Due <= MaxRequests

SpentBound == spent <= (MaxRequests - Due) * DearestCall

StoredBound(q) ==
  /\ stored[q] + left + Cardinality(Unstored) <= MaxRequests
  /\ stored[q] + Cardinality(Buying(q)) <= Cardinality(Threads)
  /\ ~Cacheable(q) => stored[q] = 0

NInv == DueBound /\ SpentBound /\ \A q \in Prompts : StoredBound(q)

LEMMA CountFacts ==
  ASSUME NEW S \in SUBSET Threads
  PROVE  /\ IsFiniteSet(S)
         /\ Cardinality(S) \in Nat
         /\ Cardinality(S) <= Cardinality(Threads)
         /\ Cardinality(Threads) \in Nat
         /\ \A t \in Threads :
              /\ Cardinality(S \cup {t}) <= Cardinality(S) + 1
              /\ Cardinality(S \ {t}) <= Cardinality(S)
              /\ t \in S => Cardinality(S \ {t}) = Cardinality(S) - 1
<1>1. IsFiniteSet(Threads)
  BY GatewayAssumption
<1>2. IsFiniteSet(S) /\ Cardinality(S) <= Cardinality(Threads)
  BY <1>1, FS_Subset
<1>3. Cardinality(S) \in Nat /\ Cardinality(Threads) \in Nat
  BY <1>1, <1>2, FS_CardinalityType
<1>4. ASSUME NEW t \in Threads
      PROVE  /\ Cardinality(S \cup {t}) <= Cardinality(S) + 1
             /\ Cardinality(S \ {t}) <= Cardinality(S)
             /\ t \in S => Cardinality(S \ {t}) = Cardinality(S) - 1
  <2>1. Cardinality(S \cup {t}) = IF t \in S THEN Cardinality(S) ELSE Cardinality(S) + 1
    BY <1>2, FS_AddElement
  <2>2. Cardinality(S \ {t}) = IF t \in S THEN Cardinality(S) - 1 ELSE Cardinality(S)
    BY <1>2, FS_RemoveElement
  <2>3. QED
    BY <1>3, <2>1, <2>2
<1>5. QED
  BY <1>2, <1>3, <1>4

LEMMA CountTypes ==
  /\ Cardinality(Busy) \in Nat
  /\ Cardinality(Unstored) \in Nat
  /\ \A q : Cardinality(Buying(q)) \in Nat /\ Cardinality(Buying(q)) <= Cardinality(Threads)
  /\ Cardinality(Threads) \in Nat
BY CountFacts DEF Busy, Unstored, Buying

LEMMA CountTypesNext ==
  /\ Cardinality(Busy') \in Nat
  /\ Cardinality(Unstored') \in Nat
  /\ \A q : Cardinality(Buying(q)') \in Nat /\ Cardinality(Buying(q)') <= Cardinality(Threads)
BY CountFacts DEF Busy, Unstored, Buying

(* The price of a number of answers. *)
LEMMA Prices ==
  ASSUME NEW n \in Nat, NEW m \in Nat, n <= m, NEW price \in Nat
  PROVE  /\ n * price \in Nat
         /\ n * price <= m * price
         /\ (n + 1) * price = n * price + price
OBVIOUS

(* What is spent stays within the price of the requests that are over when *)
(* there are more of them, also if the last of these has been paid for.    *)
LEMMA SpentWithin ==
  ASSUME NEW due \in Nat, due <= MaxRequests, NEW amount \in Nat,
         amount <= (MaxRequests - due) * DearestCall,
         NEW less \in Nat, less <= due
  PROVE  /\ amount <= (MaxRequests - less) * DearestCall
         /\ \A price \in 0..DearestCall :
              less < due => amount + price <= (MaxRequests - less) * DearestCall
<1> DEFINE n == MaxRequests - due
           m == MaxRequests - less
<1>1. /\ n \in Nat /\ m \in Nat /\ n <= m /\ DearestCall \in Nat
      /\ less < due => n + 1 \in Nat /\ n + 1 <= m
  BY GatewayAssumption
<1>2. amount <= n * DearestCall
  OBVIOUS
<1> HIDE DEF n, m
<1>3. /\ n * DearestCall \in Nat /\ m * DearestCall \in Nat
      /\ n * DearestCall <= m * DearestCall
      /\ (n + 1) * DearestCall = n * DearestCall + DearestCall
  BY <1>1, Prices
<1>4. less < due => (n + 1) * DearestCall <= m * DearestCall
  BY <1>1, Prices
<1>5. /\ amount <= m * DearestCall
      /\ \A price \in 0..DearestCall : less < due => amount + price <= m * DearestCall
  BY <1>1, <1>2, <1>3, <1>4
<1>6. QED
  BY <1>5 DEF m

(* A step that keeps the counts, or takes a worker out of them. *)
LEMMA FewerNInv ==
  ASSUME IInv, IInv', NInv, left' = left, spent' = spent,
         Cardinality(Busy') <= Cardinality(Busy),
         Cardinality(Unstored') <= Cardinality(Unstored),
         \A q \in Prompts :
           /\ stored'[q] <= stored[q]
           /\ \/ Cardinality(Buying(q)') <= Cardinality(Buying(q))
              \/ stored[q] = 0
  PROVE  NInv'
<1>0. /\ \A q \in Prompts : stored[q] \in Nat /\ stored'[q] \in Nat
      /\ MaxRequests \in Nat /\ DearestCall \in Nat /\ spent \in Nat
  BY GatewayAssumption DEF IInv, Types
<1>1. Due' <= Due /\ Due \in Nat /\ Due' \in Nat /\ DueBound'
  BY <1>0, CountTypes, CountTypesNext DEF NInv, DueBound, Due
<1>2. SpentBound'
  <2>1. Due <= MaxRequests /\ spent <= (MaxRequests - Due) * DearestCall
    BY DEF NInv, DueBound, SpentBound
  <2>2. spent <= (MaxRequests - Due') * DearestCall
    BY <1>0, <1>1, <2>1, SpentWithin
  <2>3. QED
    BY <2>2 DEF SpentBound
<1>3. ASSUME NEW q \in Prompts
      PROVE  StoredBound(q)'
  BY <1>0, CountTypes, CountTypesNext DEF NInv, DueBound, StoredBound, Cacheable
<1>4. QED
  BY <1>1, <1>2, <1>3 DEF NInv

(* A worker that responds leaves every count. *)
LEMMA RespondCounts ==
  ASSUME IInv, NEW t \in Threads, Respond(t)
  PROVE  /\ Busy' = Busy \ {t}
         /\ Unstored' = Unstored \ {t}
         /\ \A q \in Prompts : Buying(q)' = Buying(q) \ {t}
BY DEF IInv, Types, Respond, Go, Busy, Unstored, Buying

(* A worker that goes on between its cache miss and its answer. *)
GoesOn(t) ==
  \/ EnterBudgetLock(t) \/ (Relookup(t) /\ ~Cached(prompt[t])) \/ Plan(t)
  \/ Admit(t) \/ Deny(t) \/ ProviderFails(t) \/ ProviderSucceeds(t)

LEMMA GoesOnFacts ==
  ASSUME IInv, NEW t \in Threads, GoesOn(t)
  PROVE  /\ Busy' = Busy /\ Unstored' = Unstored
         /\ \A q \in Prompts : Buying(q)' = Buying(q)
         /\ UNCHANGED <<left, spent, stored>>
<1>1. /\ UNCHANGED <<left, spent, stored, prompt>>
      /\ pc[t] \notin {"idle", "lookup", "charge"}
      /\ pc'[t] \notin {"idle", "lookup", "charge"}
      /\ \A u \in Threads \ {t} : pc'[u] = pc[u]
  BY DEF GoesOn, EnterBudgetLock, Relookup, Plan, Admit, Deny, ProviderFails,
         ProviderSucceeds, Leave, At, Go, call, shared, IInv, Types
<1>2. QED
  BY <1>1 DEF Busy, Unstored, Buying

LEMMA FewerSteps ==
  ASSUME IInv, IInv', NInv, NEW t \in Threads,
         GoesOn(t) \/ Lookup(t) \/ Relookup(t) \/ Degrade(t)
  PROVE  NInv'
<1>0. \A q \in Prompts : stored[q] \in Nat
  BY DEF IInv, Types
<1>1. CASE GoesOn(t)
  BY <1>0, <1>1, GoesOnFacts, FewerNInv, CountTypes
<1>2. CASE Respond(t) /\ UNCHANGED <<left, spent, stored>>
  <2>1. /\ Cardinality(Busy') <= Cardinality(Busy)
        /\ Cardinality(Unstored') <= Cardinality(Unstored)
        /\ \A q \in Prompts : Cardinality(Buying(q)') <= Cardinality(Buying(q))
    BY <1>2, RespondCounts, CountFacts DEF Busy, Unstored, Buying
  <2>2. QED
    BY <1>0, <1>2, <2>1, FewerNInv
<1>3. CASE Lookup(t) /\ ~Cached(prompt[t])
  <2>1. /\ pc[t] = "lookup" /\ pc'[t] \in {"enter", "plan"}
        /\ prompt[t] \in Prompts
        /\ \A u \in Threads \ {t} : pc'[u] = pc[u]
        /\ UNCHANGED <<left, spent, stored, prompt>>
    BY <1>3 DEF Lookup, At, Go, call, shared, IInv, Types, Consistent
  <2>2. Busy' = Busy /\ Unstored' = Unstored
    BY <2>1 DEF Busy, Unstored
  <2>3. \A q \in Prompts : q # prompt[t] => Buying(q)' = Buying(q)
    BY <2>1 DEF Buying
  <2>4. stored[prompt[t]] = 0
    BY <1>0, <1>3, <2>1 DEF Cached, NInv, StoredBound
  <2>5. QED
    BY <1>0, <2>1, <2>2, <2>3, <2>4, FewerNInv, CountTypes
<1>4. QED
  BY <1>1, <1>2, <1>3
     DEF Lookup, Relookup, Degrade, GoesOn, shared

LEMMA TakeNInv ==
  ASSUME IInv, NInv, NEW t \in Threads, Take(t)
  PROVE  NInv'
<1>0. /\ \A q \in Prompts : stored[q] \in Nat
      /\ spent \in Nat /\ left \in Nat /\ left > 0
  BY DEF IInv, Types, NInv, DueBound, Take
<1>1. /\ pc[t] = "idle" /\ pc'[t] = "lookup"
      /\ \A u \in Threads \ {t} : pc'[u] = pc[u] /\ prompt'[u] = prompt[u]
      /\ left' = left - 1 /\ UNCHANGED <<spent, stored>>
  BY DEF Take, At, Go, shared, IInv, Types
<1>2. /\ Busy' = Busy \cup {t} /\ t \notin Busy
      /\ Unstored' = Unstored \cup {t}
      /\ \A q \in Prompts : Buying(q)' = Buying(q)
  BY <1>1 DEF Busy, Unstored, Buying
<1>3. /\ Cardinality(Busy') <= Cardinality(Busy) + 1
      /\ Cardinality(Unstored') <= Cardinality(Unstored) + 1
  BY <1>2, CountFacts DEF Busy, Unstored
<1>4. Due' <= Due /\ Due \in Nat /\ Due' \in Nat /\ left' \in Nat
  BY <1>0, <1>1, <1>3, CountTypes, CountTypesNext DEF Due
<1>5. DueBound'
  BY <1>4, GatewayAssumption DEF NInv, DueBound
<1>6. SpentBound'
  <2>1. Due <= MaxRequests /\ spent <= (MaxRequests - Due) * DearestCall
    BY DEF NInv, DueBound, SpentBound
  <2>2. spent <= (MaxRequests - Due') * DearestCall
    BY <1>0, <1>4, <2>1, SpentWithin
  <2>3. QED
    BY <1>1, <2>2 DEF SpentBound
<1>7. ASSUME NEW q \in Prompts PROVE StoredBound(q)'
  BY <1>0, <1>1, <1>2, <1>3, CountTypes, CountTypesNext, GatewayAssumption
     DEF NInv, StoredBound, Cacheable
<1>8. QED
  BY <1>5, <1>6, <1>7 DEF NInv

(* What a worker stores it stops being counted for. *)
LEMMA StoreNInv ==
  ASSUME IInv, IInv', NInv, NEW t \in Threads, Store(t)
  PROVE  NInv'
<1>0. /\ \A q \in Prompts : stored[q] \in Nat /\ stored'[q] \in Nat
      /\ left \in Nat /\ prompt[t] \in Prompts
  BY DEF IInv, Types, NInv, DueBound, Consistent, Store, At
<1>1. /\ pc[t] = "store" /\ pc'[t] = "charge"
      /\ \A u \in Threads \ {t} : pc'[u] = pc[u]
      /\ UNCHANGED <<left, prompt, spent>>
  BY DEF Store, At, Go, IInv, Types
<1>2. /\ Busy' = Busy
      /\ Unstored' = Unstored \ {t} /\ t \in Unstored
      /\ \A q \in Prompts : q # prompt[t] => Buying(q)' = Buying(q)
      /\ \A q \in Prompts : q = prompt[t] => Buying(q)' = Buying(q) \ {t} /\ t \in Buying(q)
  BY <1>1 DEF Busy, Unstored, Buying
<1>3. /\ Cardinality(Unstored') = Cardinality(Unstored) - 1
      /\ \A q \in Prompts : q = prompt[t] => Cardinality(Buying(q)') = Cardinality(Buying(q)) - 1
  BY <1>2, CountFacts DEF Unstored, Buying
<1>4. DueBound' /\ SpentBound'
  BY <1>1, <1>2 DEF NInv, DueBound, SpentBound, Due
<1>5. ASSUME NEW q \in Prompts PROVE StoredBound(q)'
  <2>1. StoredBound(q)
    BY DEF NInv
  <2>2. CASE q = prompt[t] /\ Cacheable(q)
    <3>1. stored'[q] = stored[q] + 1
      BY <2>2 DEF Store, IInv, Types
    <3>2. QED
      BY <1>0, <1>1, <1>3, <2>1, <2>2, <3>1, CountTypes, GatewayAssumption
         DEF StoredBound, Cacheable
  <2>3. CASE ~(q = prompt[t] /\ Cacheable(q))
    <3>1. stored'[q] = stored[q]
      BY <2>3 DEF Store, IInv, Types
    <3>2. /\ Cardinality(Buying(q)') <= Cardinality(Buying(q))
          /\ Cardinality(Buying(q)') \in Nat /\ Cardinality(Buying(q)) \in Nat
      <4>1. Cardinality(Buying(q)') \in Nat /\ Cardinality(Buying(q)) \in Nat
        BY CountTypes, CountTypesNext
      <4>2. CASE q = prompt[t]
        BY <1>3, <4>1, <4>2
      <4>3. CASE q # prompt[t]
        <5>1. Buying(q)' = Buying(q)
          BY <1>2, <4>3
        <5>2. QED
          BY <4>1, <5>1
      <4>4. QED
        BY <4>2, <4>3
    <3>3. stored'[q] + left' + Cardinality(Unstored') <= MaxRequests
      <4>1. stored[q] + left + Cardinality(Unstored) <= MaxRequests
        BY <2>1 DEF StoredBound
      <4>2. stored[q] \in Nat /\ left \in Nat /\ MaxRequests \in Nat
            /\ Cardinality(Unstored) \in Nat
        BY <1>0, CountTypes, GatewayAssumption
      <4>3. left' = left
        BY <1>1
      <4>4. QED
        BY <1>3, <3>1, <4>1, <4>2, <4>3
    <3>4. stored'[q] + Cardinality(Buying(q)') <= Cardinality(Threads)
      BY <1>0, <2>1, <3>1, <3>2, CountTypes DEF StoredBound
    <3>5. QED
      BY <2>1, <3>1, <3>3, <3>4 DEF StoredBound, Cacheable
  <2>4. QED
    BY <2>2, <2>3
<1>6. QED
  BY <1>4, <1>5 DEF NInv

LEMMA ChargeNInv ==
  ASSUME IInv, IInv', NInv, NEW t \in Threads, Charge(t)
  PROVE  NInv'
<1>0. /\ \A q \in Prompts : stored[q] \in Nat
      /\ spent \in Nat /\ left \in Nat /\ cost[t] \in 0..DearestCall
  BY DEF IInv, Types, NInv, DueBound
<1>1. /\ pc[t] = "charge" /\ Respond(t) /\ UNCHANGED <<left, stored>>
      /\ spent' = spent + cost[t]
  BY DEF Charge, At
<1>2. /\ Busy' = Busy \ {t} /\ t \in Busy
      /\ Unstored' = Unstored
      /\ \A q \in Prompts : Buying(q)' = Buying(q)
  BY <1>1, RespondCounts DEF Busy, Unstored, Buying
<1>3. Cardinality(Busy') = Cardinality(Busy) - 1
  BY <1>2, CountFacts DEF Busy
<1>4. Due' < Due /\ Due' <= Due /\ Due \in Nat /\ Due' \in Nat
  BY <1>0, <1>1, <1>3, CountTypes, CountTypesNext DEF Due
<1>5. DueBound'
  BY <1>0, <1>1, <1>4, GatewayAssumption DEF NInv, DueBound
<1>6. SpentBound'
  <2>1. Due <= MaxRequests /\ spent <= (MaxRequests - Due) * DearestCall
    BY DEF NInv, DueBound, SpentBound
  <2>2. spent + cost[t] <= (MaxRequests - Due') * DearestCall
    BY <1>0, <1>4, <2>1, SpentWithin
  <2>3. QED
    BY <1>1, <2>2 DEF SpentBound
<1>7. ASSUME NEW q \in Prompts PROVE StoredBound(q)'
  BY <1>1, <1>2 DEF NInv, StoredBound, Cacheable
<1>8. QED
  BY <1>5, <1>6, <1>7 DEF NInv

LEMMA ExpireNInv ==
  ASSUME IInv, IInv', NInv, NEW q \in Prompts, Expire(q)
  PROVE  NInv'
<1>1. /\ UNCHANGED <<left, pc, prompt, spent>>
      /\ \A p \in Prompts : stored'[p] <= stored[p]
  BY DEF Expire, IInv, Types
<1>2. /\ Busy' = Busy /\ Unstored' = Unstored
      /\ \A p \in Prompts : Buying(p)' = Buying(p)
  BY <1>1 DEF Busy, Unstored, Buying
<1>3. QED
  BY <1>1, <1>2, FewerNInv, CountTypes

LEMMA InitNInv == Init => NInv
<1> SUFFICES ASSUME Init PROVE NInv
  OBVIOUS
<1>1. Busy = {} /\ Unstored = {} /\ \A q \in Prompts : Buying(q) = {}
  BY DEF Init, Busy, Unstored, Buying
<1>2. Cardinality({}) = 0
  BY FS_EmptySet
<1>3. Due = MaxRequests /\ MaxRequests \in Nat /\ left = MaxRequests
  BY <1>1, <1>2, GatewayAssumption DEF Init, Due
<1>4. SpentBound
  BY <1>3, GatewayAssumption DEF SpentBound, Init
<1>5. \A q \in Prompts : StoredBound(q)
  BY <1>1, <1>2, <1>3, CountTypes DEF StoredBound, Init
<1>6. QED
  BY <1>3, <1>4, <1>5 DEF NInv, DueBound

LEMMA NextNInv == IInv /\ IInv' /\ NInv /\ [Next]_vars => NInv'
<1> SUFFICES ASSUME IInv, IInv', NInv, [Next]_vars PROVE NInv'
  OBVIOUS
<1>1. ASSUME NEW t \in Threads, Take(t) \/ Work(t) PROVE NInv'
  <2>1. Work(t) => \/ GoesOn(t) \/ Lookup(t) \/ Relookup(t) \/ Degrade(t)
                   \/ Store(t) \/ Charge(t)
    BY DEF Work, GoesOn
  <2>2. QED
    BY <1>1, <2>1, TakeNInv, FewerSteps, StoreNInv, ChargeNInv
<1>2. ASSUME NEW q \in Prompts, Expire(q) PROVE NInv'
  BY <1>2, ExpireNInv
<1>3. ASSUME UNCHANGED <<left, pc, prompt, spent, stored>> PROVE NInv'
  BY <1>3 DEF NInv, DueBound, SpentBound, StoredBound, Due, Busy, Unstored,
              Buying, Cacheable
<1>4. QED
  BY <1>1, <1>2, <1>3 DEF Next, Tick, AgeBreakers, vars

(* The counts are bounded in every reachable state. *)
THEOREM CountInvariance == Spec => []NInv
<1>1. IInv /\ NInv /\ [Next]_vars => NInv'
  BY NextIInv, NextNInv
<1>2. QED
  BY <1>1, InitNInv, Invariance, PTL DEF Spec

(* Concurrent misses store an answer once per worker at most, however      *)
(* often the answer expires and is bought again.                           *)
THEOREM DuplicatesAreBounded == Spec => []DuplicatesBounded
<1>1. IInv /\ NInv => DuplicatesBounded
  BY CountTypes DEF IInv, Types, NInv, StoredBound, DuplicatesBounded
<1>2. QED
  BY <1>1, Invariance, CountInvariance, PTL

(* Together the three invariants bound every variable. *)
LEMMA InvariantsImplyTypeOK == IInv /\ CInv /\ NInv => TypeOK
<1> SUFFICES ASSUME IInv, CInv, NInv PROVE TypeOK
  OBVIOUS
<1>0. Types /\ MaxRequests \in Nat /\ DearestCall \in Nat /\ Cardinality(Busy) \in Nat
  BY GatewayAssumption, CountTypes DEF IInv
<1>1. left \in 0..MaxRequests /\ Due \in Nat /\ Due <= MaxRequests
  BY <1>0 DEF NInv, DueBound, Due
<1>2. \A q \in Prompts : stored[q] \in 0..MaxRequests
  BY <1>0, <1>1, CountTypes DEF NInv, StoredBound, Types
<1>3. spent <= MaxRequests * DearestCall /\ MaxRequests * DearestCall \in Nat
  <2>1. 0 \in Nat /\ 0 <= Due /\ spent \in Nat
        /\ spent <= (MaxRequests - Due) * DearestCall
    BY <1>0, <1>1 DEF NInv, SpentBound, Types
  <2>2. spent <= (MaxRequests - 0) * DearestCall
    BY <1>1, <2>1, SpentWithin
  <2>3. QED
    BY <1>0, <2>2, Prices
<1>4. QED
  BY <1>0, <1>1, <1>2, <1>3 DEF Types, TypeOK, CInv

(* Every variable keeps its type; in particular no more is stored than     *)
(* requests were made and no more is spent than as many of the dearest     *)
(* answers cost.                                                           *)
THEOREM TypeCorrect == Spec => []TypeOK
BY InvariantsImplyTypeOK, Invariance, CircuitInvariance, CountInvariance, PTL
=============================================================================
