------------------------ MODULE CircuitBreakerProofs ------------------------
(***************************************************************************)
(* CircuitBreaker's safety for any number of threads, any thresholds and   *)
(* any reset timeout.  One inductive invariant carries all of it: the      *)
(* breaker is sound between two methods, the probe flag belongs to a       *)
(* probe in flight, and, unless it has been overtaken, a probe in flight   *)
(* holds the flag of a HALF_OPEN circuit alone.  That part is what makes   *)
(* the single-probe rule inductive: the rule alone does not say why        *)
(* allow_request cannot let a second probe through.  The last part says    *)
(* what success_count means during a recovery.                             *)
(***************************************************************************)
EXTENDS CircuitBreaker, BreakerStateLemmas

ProbeHoldsFlag ==
  ~overtaken =>
    \A t \in Threads : Probing(t) =>
      /\ cb.state = "half_open"
      /\ cb.probe_in_flight
      /\ \A u \in Threads : Probing(u) => u = t

EvidenceCounted ==
  /\ healthy \in 0..CountCap
  /\ cb.state = "open" => healthy = 0
  /\ cb.state = "half_open" => cb.success_count = healthy

IInv ==
  /\ SoundBreaker(cb)
  /\ calls \in [Threads -> CallState]
  /\ overtaken \in BOOLEAN
  /\ NoLeakedProbe
  /\ ProbeHoldsFlag
  /\ EvidenceCounted

LEMMA InitIInv == Init => IInv
<1> SUFFICES ASSUME Init PROVE IInv
  OBVIOUS
<1>1. SoundBreaker(cb)
  BY NewBreakerSound DEF Init
<1>2. ~cb.probe_in_flight /\ \A t \in Threads : ~Probing(t)
  BY DEF Init, NewBreaker, Probing
<1>3. EvidenceCounted
  BY ThresholdsAssumption DEF Init, NewBreaker, EvidenceCounted
<1>4. QED
  BY <1>1, <1>2, <1>3 DEF Init, IInv, NoLeakedProbe, ProbeHoldsFlag, CallState

(* A call that is admitted. *)
LEMMA AllowIInv ==
  ASSUME IInv, NEW t \in Threads, AllowRequest(t)
  PROVE  IInv'
<1> USE DEF IInv
<1>1. SoundBreaker(cb') /\ calls' \in [Threads -> CallState] /\ overtaken' \in BOOLEAN
  BY AllowSound DEF AllowRequest, CallState
<1>2. \A u \in Threads \ {t} : Probing(u)' <=> Probing(u)
  BY DEF AllowRequest, Probing
<1>3. CASE cb.state = "closed"
  <2>1. cb' = cb /\ ~Probing(t)'
    BY <1>3, AllowSound DEF AllowRequest, Probing
  <2>2. QED
    BY <1>1, <1>2, <1>3, <2>1
       DEF NoLeakedProbe, ProbeHoldsFlag, EvidenceCounted, AllowRequest
<1>4. CASE cb.state # "closed"
  <2>1. cb'.state = "half_open" /\ cb'.probe_in_flight /\ Probing(t)'
    BY <1>4, AllowSound DEF AllowRequest, Probing
  <2>2. NoLeakedProbe'
    BY <2>1 DEF NoLeakedProbe
  <2>3. ~overtaken => \A u \in Threads : ~Probing(u)
    BY <1>4 DEF ProbeHoldsFlag, AllowRequest, Allows
  <2>4. ProbeHoldsFlag'
    BY <1>2, <2>1, <2>3 DEF ProbeHoldsFlag, AllowRequest
  <2>5. EvidenceCounted'
    BY <1>4, <2>1, AllowSound
       DEF EvidenceCounted, AllowRequest, SoundBreaker, Breaker, CircuitState
  <2>6. QED
    BY <1>1, <2>2, <2>4, <2>5
<1>5. QED
  BY <1>3, <1>4

(* A call that ends, given what both outcomes do to the breaker. *)
LEMMA ReturnIInv ==
  ASSUME IInv, NEW t \in Threads, Return(t),
         SoundBreaker(cb'), ~cb'.probe_in_flight, EvidenceCounted'
  PROVE  IInv'
<1>1. calls' \in [Threads -> CallState] /\ overtaken' \in BOOLEAN
  BY DEF IInv, Return, CallState
<1>2. NoLeakedProbe'
  BY DEF NoLeakedProbe
<1>3. ~overtaken' => \A u \in Threads : ~Probing(u)'
  BY DEF IInv, Return, Probing
<1>4. QED
  BY <1>1, <1>2, <1>3 DEF IInv, ProbeHoldsFlag

(* What a HALF_OPEN circuit has counted stays what it has seen. *)
LEMMA EvidenceKept ==
  ASSUME IInv, NEW t \in Threads, RecordSuccess(t) \/ RecordFailure(t)
  PROVE  EvidenceCounted'
<1>0. SoundBreaker(cb) /\ cb \in Breaker /\ healthy \in 0..CountCap
  BY DEF IInv, EvidenceCounted, SoundBreaker
<1>1. CASE RecordSuccess(t)
  <2>1. healthy' \in 0..CountCap
    BY <1>0, <1>1, BumpBounds, ThresholdsAssumption DEF RecordSuccess
  <2>2. \/ /\ cb'.state = cb.state
           /\ cb'.success_count = Bump(cb.success_count)
        \/ cb'.state = "closed"
    BY <1>0, <1>1, SuccessSound DEF RecordSuccess
  <2>3. QED
    BY <1>0, <1>1, <2>1, <2>2 DEF RecordSuccess, EvidenceCounted, IInv
<1>2. CASE RecordFailure(t)
  <2>1. healthy' = 0
    BY <1>2 DEF RecordFailure
  <2>2. cb'.state # "half_open"
    BY <1>0, <1>2, FailureSound DEF RecordFailure, AfterFailure, Opens
  <2>3. QED
    BY <2>1, <2>2, ThresholdsAssumption DEF EvidenceCounted
<1>3. QED
  BY <1>1, <1>2

LEMMA NextIInv == IInv /\ [Next]_vars => IInv'
<1> SUFFICES ASSUME IInv, [Next]_vars PROVE IInv'
  OBVIOUS
<1>1. ASSUME NEW t \in Threads, AllowRequest(t) PROVE IInv'
  BY <1>1, AllowIInv
<1>2. ASSUME NEW t \in Threads, RecordSuccess(t) PROVE IInv'
  BY <1>2, SuccessSound, EvidenceKept, ReturnIInv DEF RecordSuccess, IInv
<1>3. ASSUME NEW t \in Threads, RecordFailure(t) PROVE IInv'
  BY <1>3, FailureSound, EvidenceKept, ReturnIInv DEF RecordFailure, IInv
<1>4. CASE Tick
  <2>1. /\ SoundBreaker(cb')
        /\ cb'.state = cb.state
        /\ cb'.probe_in_flight = cb.probe_in_flight
        /\ cb'.success_count = cb.success_count
    BY <1>4, AgedSound DEF Tick, IInv
  <2>2. QED
    BY <1>4, <2>1
       DEF Tick, IInv, NoLeakedProbe, ProbeHoldsFlag, EvidenceCounted, Probing
<1>5. CASE UNCHANGED vars
  BY <1>5 DEF vars, IInv, SoundBreaker, BelowThreshold, Timed,
              NoLeakedProbe, ProbeHoldsFlag, EvidenceCounted, Probing
<1>6. QED
  BY <1>1, <1>2, <1>3, <1>4, <1>5 DEF Next

(* The inductive invariant holds in every reachable state. *)
THEOREM Invariance == Spec => []IInv
BY InitIInv, NextIInv, PTL DEF Spec

(* Every variable keeps its type, whatever the interleaving of calls. *)
THEOREM TypeCorrect == Spec => []TypeOK
<1>1. IInv => TypeOK
  BY DEF IInv, TypeOK, SoundBreaker, EvidenceCounted
<1>2. QED
  BY <1>1, Invariance, PTL

(* A CLOSED circuit never stands on a run of failures that should have     *)
(* opened it: record_failure counts and opens in one step.                 *)
THEOREM ClosedIsBelowThreshold == Spec => []ClosedBelowThreshold
<1>1. IInv => ClosedBelowThreshold
  BY DEF IInv, ClosedBelowThreshold, SoundBreaker
<1>2. QED
  BY <1>1, Invariance, PTL

(* opened_at is None exactly while the circuit is CLOSED, so the deny-     *)
(* for-ever exit of allow_request is dead code.                            *)
THEOREM OpenIsTimed == Spec => []TimedUnlessClosed
<1>1. IInv => TimedUnlessClosed
  BY DEF IInv, TimedUnlessClosed, SoundBreaker
<1>2. QED
  BY <1>1, Invariance, PTL

(* The probe flag is raised only while a probe is really in flight. *)
THEOREM ProbeFlagIsNotLeaked == Spec => []NoLeakedProbe
<1>1. IInv => NoLeakedProbe
  BY DEF IInv
<1>2. QED
  BY <1>1, Invariance, PTL

(* One probe at a time, as long as no other call's outcome is recorded     *)
(* while a probe is in flight.                                             *)
THEOREM SingleProbe == Spec => []SingleProbeUnlessOvertaken
<1>1. IInv => SingleProbeUnlessOvertaken
  BY DEF IInv, ProbeHoldsFlag, SingleProbeUnlessOvertaken, AtMostOneProbe
<1>2. QED
  BY <1>1, Invariance, PTL

(* A circuit closes only on SuccessThreshold successes recorded since it   *)
(* became HALF_OPEN, none of them before or during the outage.             *)
THEOREM ClosingNeedsEvidence == Spec => ClosesOnEvidence
<1>1. ASSUME IInv, [Next]_vars, cb.state = "half_open", cb'.state = "closed"
      PROVE  healthy' >= SuccessThreshold
  <2>0. SoundBreaker(cb) /\ cb.success_count = healthy
    BY <1>1 DEF IInv, EvidenceCounted
  <2>1. ASSUME NEW t \in Threads, AllowRequest(t) PROVE cb'.state = "half_open"
    BY <1>1, <2>0, <2>1, AllowSound DEF AllowRequest
  <2>2. ASSUME NEW t \in Threads, RecordSuccess(t)
        PROVE  healthy' >= SuccessThreshold
    BY <1>1, <2>0, <2>2, SuccessSound DEF RecordSuccess
  <2>3. ASSUME NEW t \in Threads, RecordFailure(t) PROVE cb'.state # "closed"
    BY <1>1, <2>0, <2>3, FailureSound DEF RecordFailure
  <2>4. CASE Tick
    BY <1>1, <2>0, <2>4, AgedSound DEF Tick
  <2>5. CASE UNCHANGED vars
    BY <1>1, <2>5 DEF vars
  <2>6. QED
    BY <1>1, <2>1, <2>2, <2>3, <2>4, <2>5 DEF Next
<1>2. QED
  BY <1>1, Invariance, PTL DEF Spec, ClosesOnEvidence
-----------------------------------------------------------------------------
(* Every step of the breaker is a step of the contract or leaves what the  *)
(* contract speaks of unchanged.                                           *)
LEMMA StepRefinesContract == IInv /\ [Next]_vars => [Contract!Next]_(Contract!vars)
<1> SUFFICES ASSUME IInv, [Next]_vars
             PROVE  [Contract!Next]_(Contract!vars)
  OBVIOUS
<1> DEFINE running == {t \in Threads : InFlight(t)}
           cooled  == cb.state = "open" /\ cb.opened_age >= ResetTimeout
<1>0. /\ cb \in Breaker
      /\ cb.state \in CircuitState
      /\ calls \in [Threads -> CallState]
  BY DEF IInv, SoundBreaker, Breaker
<1>1. ASSUME NEW t \in Threads, AllowRequest(t)
      PROVE  Contract!Admit(t) \/ Contract!Try(t)
  <2>1. t \notin running /\ running' = running \cup {t}
    BY <1>0, <1>1 DEF AllowRequest, InFlight
  <2>2. CASE cb.state = "closed"
    <3>1. cb' = cb
      BY <1>1, <2>2, AllowSound DEF AllowRequest, IInv
    <3>2. QED
      BY <2>1, <2>2, <3>1 DEF Contract!Admit
  <2>3. CASE cb.state # "closed"
    <3>1. cb'.state = "half_open"
      BY <1>1, <2>3, AllowSound DEF AllowRequest, IInv
    <3>2. cb.state = "half_open" \/ cooled
      BY <1>1, <2>3 DEF AllowRequest, Allows, CooledDown
    <3>3. QED
      BY <2>1, <3>1, <3>2 DEF Contract!Try
  <2>4. QED
    BY <2>2, <2>3
<1>2. ASSUME NEW t \in Threads, Return(t)
      PROVE  t \in running /\ running' = running \ {t}
  BY <1>0, <1>2 DEF Return, InFlight
<1>3. ASSUME NEW t \in Threads, RecordSuccess(t)
      PROVE  Contract!End(t)
  <2>1. \/ cb'.state = cb.state /\ cb'.opened_age = cb.opened_age
        \/ cb.state = "half_open" /\ cb'.state = "closed"
    BY <1>3, SuccessSound DEF RecordSuccess, IInv
  <2>2. \/ cb'.state = cb.state /\ cooled' = cooled
        \/ cb.state = "half_open" /\ cb'.state = "closed" /\ cooled' = cooled
    BY <2>1
  <2>3. QED
    BY <1>2, <1>3, <2>2 DEF Contract!End, RecordSuccess
<1>4. ASSUME NEW t \in Threads, RecordFailure(t)
      PROVE  Contract!End(t)
  <2>1. \/ cb'.state = cb.state /\ cb'.opened_age = cb.opened_age
        \/ /\ cb.state \in {"closed", "half_open"}
           /\ cb'.state = "open"
           /\ cb'.opened_age = 0
    BY <1>4, FailureSound DEF RecordFailure, IInv
  <2>2. \/ cb'.state = cb.state /\ cooled' = cooled
        \/ /\ cb.state \in {"closed", "half_open"}
           /\ cb'.state = "open"
           /\ cooled' = FALSE
    BY <2>1, ThresholdsAssumption
  <2>3. QED
    BY <1>2, <1>4, <2>2 DEF Contract!End, RecordFailure
<1>5. CASE Tick
  <2>1. running' = running /\ cb'.state = cb.state
    BY <1>5, AgedSound DEF Tick, IInv, InFlight
  <2>2. cooled' = cooled \/ (cb.state = "open" /\ cooled' = TRUE)
    <3>1. cooled => cooled'
      BY <1>0, <1>5, <2>1, ThresholdsAssumption
         DEF Tick, Aged, Breaker, NotOpened
    <3>2. QED
      BY <2>1, <3>1
  <2>3. QED
    BY <2>1, <2>2 DEF Contract!Next, Contract!Cool, Contract!vars
<1>6. CASE UNCHANGED vars
  BY <1>6 DEF vars, Contract!vars, InFlight
<1>7. ASSUME NEW t \in Threads,
             Contract!Admit(t) \/ Contract!Try(t) \/ Contract!End(t)
      PROVE  Contract!Next
  BY <1>7 DEF Contract!Next
<1>8. QED
  BY <1>1, <1>3, <1>4, <1>5, <1>6, <1>7 DEF Next

(* The in-memory breaker implements the circuit contract: legal edges      *)
(* only, and nothing admitted by an OPEN circuit that has not cooled down. *)
THEOREM ImplementsContract == Spec => ContractSpec
<1>1. Init => Contract!Init
  BY DEF Init, Contract!Init, NewBreaker, InFlight
<1>2. QED
  BY <1>1, StepRefinesContract, Invariance, PTL
     DEF Spec, ContractSpec, Contract!Spec
=============================================================================
