---------------------------- MODULE BreakerState ----------------------------
(***************************************************************************)
(* The data of one in-memory circuit breaker and the state change of each  *)
(* of its methods (circuit_breaker.py).  Every method body runs under the  *)
(* breaker's lock, so a method is one function from breaker to breaker;    *)
(* the modules that own breakers decide who calls which method when.       *)
(*                                                                         *)
(* Two abstractions of data, neither of which the code can observe:        *)
(*  - opened_at is kept as its age in clock ticks, counted only up to      *)
(*    ResetTimeout: allow_request asks nothing else of it.                 *)
(*  - the counters stop at CountCap: they are only compared with the       *)
(*    thresholds, which lie below the cap.                                 *)
(***************************************************************************)
EXTENDS Integers

CONSTANTS
  FailureThreshold,   \* failure_threshold
  SuccessThreshold,   \* success_threshold
  ResetTimeout,       \* reset_timeout_seconds, in clock ticks
  CountCap            \* where the model stops counting

(* What __post_init__ rejects, and a cap that hides no comparison. *)
ASSUME ThresholdsAssumption ==
  /\ FailureThreshold \in Nat \ {0}
  /\ SuccessThreshold \in Nat \ {0}
  /\ ResetTimeout \in Nat \ {0}
  /\ CountCap \in Nat
  /\ CountCap >= FailureThreshold
  /\ CountCap >= SuccessThreshold

CircuitState == {"closed", "open", "half_open"}

(* The age of an opened_at that is None. *)
NotOpened == -1

Breaker ==
  [state           : CircuitState,
   failure_count   : 0..CountCap,
   success_count   : 0..CountCap,
   opened_age      : NotOpened..ResetTimeout,
   probe_in_flight : BOOLEAN]

NewBreaker ==
  [state |-> "closed", failure_count |-> 0, success_count |-> 0,
   opened_age |-> NotOpened, probe_in_flight |-> FALSE]

Bump(n) == IF n < CountCap THEN n + 1 ELSE n

(* One clock tick.  An opened_at of None does not age. *)
Aged(b) ==
  IF b.opened_age \in 0..(ResetTimeout - 1)
  THEN [b EXCEPT !.opened_age = @ + 1]
  ELSE b

CooledDown(b) == b.opened_age # NotOpened /\ b.opened_age >= ResetTimeout

Allows(b) ==
  \/ b.state = "closed"
  \/ b.state = "half_open" /\ ~b.probe_in_flight
  \/ b.state = "open" /\ CooledDown(b)

(* allow_request returning True: the caller of a breaker that is not      *)
(* CLOSED becomes the probe, and an OPEN breaker becomes HALF_OPEN.       *)
(* Mutants: _transition called with its arguments swapped; the probe      *)
(* flag left down, or success_count not cleared, by the call that starts  *)
(* the recovery.                                                          *)
AfterAllowSwapped(b) ==
  IF b.state = "open" THEN [b EXCEPT !.state = "reset_timeout_elapsed"] ELSE b
AfterAllowUnflagged(b) ==
  [b EXCEPT !.state = IF @ = "open" THEN "half_open" ELSE @,
            !.probe_in_flight = b.state = "half_open"]
AfterAllowCounting(b) ==
  IF b.state = "closed"
  THEN b
  ELSE [b EXCEPT !.state = "half_open", !.probe_in_flight = TRUE]
AfterAllow(b) ==
  CASE b.state = "closed"    -> b
    [] b.state = "half_open" -> [b EXCEPT !.probe_in_flight = TRUE]
    [] b.state = "open"      -> [b EXCEPT !.state = "half_open",
                                          !.success_count = 0,
                                          !.probe_in_flight = TRUE]

(* The success that closes a recovering circuit, out of so many. *)
(* Mutant: the state is not asked. *)
RecoversAnywhere(b, successes) == successes >= SuccessThreshold
Recovers(b, successes) ==
  b.state = "half_open" /\ successes >= SuccessThreshold

(* Mutants: the recovery forgets to clear opened_at; no success is         *)
(* remembered.                                                             *)
AfterSuccessStillTimed(b) ==
  LET recovers == Recovers(b, Bump(b.success_count))
  IN [b EXCEPT !.state = IF recovers THEN "closed" ELSE @,
               !.failure_count = 0,
               !.success_count = IF recovers THEN 0 ELSE Bump(@),
               !.probe_in_flight = FALSE]
AfterSuccessForgetful(b) ==
  IF Recovers(b, Bump(b.success_count))
  THEN NewBreaker
  ELSE [b EXCEPT !.failure_count = 0, !.success_count = 0,
                 !.probe_in_flight = FALSE]
AfterSuccess(b) ==
  LET successes == Bump(b.success_count)
      recovers  == Recovers(b, successes)
  IN [state           |-> IF recovers THEN "closed" ELSE b.state,
      failure_count   |-> 0,
      success_count   |-> IF recovers THEN 0 ELSE successes,
      opened_age      |-> IF recovers THEN NotOpened ELSE b.opened_age,
      probe_in_flight |-> FALSE]

(* The failure that opens the circuit, out of so many. *)
(* Mutants: an off-by-one in the threshold; any failure opens the circuit. *)
OpensAtOnce(b, failures) == b.state # "open"
OpensLate(b, failures) ==
  \/ b.state = "half_open"
  \/ b.state = "closed" /\ failures > FailureThreshold
Opens(b, failures) ==
  \/ b.state = "half_open"
  \/ b.state = "closed" /\ failures >= FailureThreshold

(* Mutant: a failure does not lower the probe flag. *)
AfterFailureFlagged(b) ==
  [b EXCEPT !.state = IF Opens(b, Bump(b.failure_count)) THEN "open" ELSE @,
            !.opened_age = IF Opens(b, Bump(b.failure_count)) THEN 0 ELSE @,
            !.failure_count = Bump(@), !.success_count = 0]
AfterFailure(b) ==
  LET failures == Bump(b.failure_count)
      opens    == Opens(b, failures)
  IN [state           |-> IF opens THEN "open" ELSE b.state,
      failure_count   |-> failures,
      success_count   |-> 0,
      opened_age      |-> IF opens THEN 0 ELSE b.opened_age,
      probe_in_flight |-> FALSE]
-----------------------------------------------------------------------------
(* What every method keeps true of a breaker: a CLOSED one has counted     *)
(* fewer failures than open it, and opened_at is set exactly while it is   *)
(* not CLOSED.                                                             *)
BelowThreshold(b) == b.state = "closed" => b.failure_count < FailureThreshold
Timed(b) == (b.opened_age = NotOpened) <=> (b.state = "closed")
=============================================================================
