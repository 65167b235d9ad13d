--------------------------- MODULE CircuitBreaker ---------------------------
(***************************************************************************)
(* One in-memory CircuitBreaker called by several threads                  *)
(* (circuit_breaker.py).  CircuitBreaker.call takes the lock twice, in     *)
(* allow_request and in record_success or record_failure, and runs the     *)
(* callable in between without it: other threads' calls come and go, and   *)
(* the clock advances, while a call is in flight.                          *)
(***************************************************************************)
EXTENDS BreakerState

CONSTANT Threads

VARIABLES
  cb,          \* the breaker
  calls,       \* calls[t]: is thread t idle, or in a callable that was
               \* admitted by a CLOSED circuit or as a probe
  overtaken,   \* history, not in the code: some call recorded its outcome
               \* while another call was in flight as a probe, and a probe
               \* of that time still is
  healthy      \* history, not in the code: successes recorded without a
               \* failure since the circuit became HALF_OPEN

vars == <<cb, calls, overtaken, healthy>>

CallState == {"idle", "normal", "probe"}

Probing(t) == calls[t] = "probe"
InFlight(t) == calls[t] # "idle"

TypeOK ==
  /\ cb \in Breaker
  /\ calls \in [Threads -> CallState]
  /\ overtaken \in BOOLEAN
  /\ healthy \in 0..CountCap

Init ==
  /\ cb = NewBreaker
  /\ calls = [t \in Threads |-> "idle"]
  /\ overtaken = FALSE
  /\ healthy = 0

(* A denied call raises CircuitOpenError and changes nothing. *)
AllowRequest(t) ==
  /\ calls[t] = "idle"
  /\ Allows(cb)
  /\ cb' = AfterAllow(cb)
  /\ calls' = [calls EXCEPT
                 ![t] = IF cb.state = "closed" THEN "normal" ELSE "probe"]
  /\ UNCHANGED <<overtaken, healthy>>

Return(t) ==
  /\ InFlight(t)
  /\ calls' = [calls EXCEPT ![t] = "idle"]
  /\ overtaken' = \E u \in Threads \ {t} : Probing(u)

RecordSuccess(t) ==
  /\ Return(t)
  /\ cb' = AfterSuccess(cb)
  /\ healthy' = IF cb.state = "half_open" THEN Bump(healthy) ELSE 0

RecordFailure(t) ==
  /\ Return(t)
  /\ cb' = AfterFailure(cb)
  /\ healthy' = 0

Tick ==
  /\ cb' = Aged(cb)
  /\ cb' # cb
  /\ UNCHANGED <<calls, overtaken, healthy>>

Next ==
  \/ \E t \in Threads :
        AllowRequest(t) \/ RecordSuccess(t) \/ RecordFailure(t)
  \/ Tick

Spec == Init /\ [][Next]_vars

(* The clock runs, a callable that was started ends (a provider call is a  *)
(* bounded sleep), and every thread keeps asking: an allow_request that    *)
(* stays possible is eventually made.                                      *)
Fairness ==
  /\ WF_vars(Tick)
  /\ \A t \in Threads :
        /\ WF_vars(AllowRequest(t))
        /\ WF_vars(RecordSuccess(t) \/ RecordFailure(t))

FairSpec == Spec /\ Fairness
-----------------------------------------------------------------------------
(* No run of failures as long as the threshold is left behind in a CLOSED  *)
(* circuit, whichever threads' outcomes it is made of and however they     *)
(* interleave with a recovery.                                             *)
ClosedBelowThreshold == BelowThreshold(cb)

(* opened_at is set exactly while the circuit is not CLOSED: no OPEN       *)
(* circuit takes allow_request's "opened_at is None" exit, which would     *)
(* deny every call for ever.                                               *)
TimedUnlessClosed == Timed(cb)

(* The probe flag never outlives the probes: a HALF_OPEN circuit that      *)
(* denies calls is waiting for a call that is really in flight.            *)
NoLeakedProbe ==
  cb.probe_in_flight =>
    /\ cb.state = "half_open"
    /\ \E t \in Threads : Probing(t)

AtMostOneProbe ==
  \A t, u \in Threads : Probing(t) /\ Probing(u) => t = u

(* The single-probe rule and what it depends on: two probes are in flight  *)
(* together only after some other call's outcome was recorded while a      *)
(* probe was in flight.                                                    *)
SingleProbeUnlessOvertaken ==
  ~overtaken => AtMostOneProbe

(* A circuit closes on as many successes as the threshold asks for, all    *)
(* recorded in the HALF_OPEN period they end: what was counted while it    *)
(* was CLOSED, or came in late while it was OPEN, is no evidence.          *)
ClosesOnEvidence ==
  [][cb.state = "half_open" /\ cb'.state = "closed"
       => healthy' >= SuccessThreshold]_vars

(* The breaker implements the contract. *)
Contract == INSTANCE CircuitContract WITH
  Callers <- Threads,
  Forgets <- FALSE,
  state   <- cb.state,
  cooled  <- cb.state = "open" /\ cb.opened_age >= ResetTimeout,
  running <- {t \in Threads : InFlight(t)}

ContractSpec == Contract!Spec

(* A breaker under load whose callable has stopped failing closes and      *)
(* stays closed, whatever calls were in flight when it opened.             *)
RecoversOnceHealthy ==
  <>[][~ \E t \in Threads : RecordFailure(t)]_vars => <>[](cb.state = "closed")

(* Recovery is always decided: no HALF_OPEN period lasts for ever.         *)
RecoveryIsDecided ==
  cb.state = "half_open" ~> cb.state # "half_open"
=============================================================================
