------------------------- MODULE BreakerStateLemmas -------------------------
(***************************************************************************)
(* What the methods of one circuit breaker preserve, for every threshold   *)
(* and timeout.  Any module that owns breakers can cite these.             *)
(***************************************************************************)
EXTENDS BreakerState, TLAPS

(* A breaker as it is found between two method calls. *)
SoundBreaker(b) == b \in Breaker /\ BelowThreshold(b) /\ Timed(b)

(* A counter that is bumped stays below its cap and never drops. *)
LEMMA BumpBounds ==
  ASSUME NEW n \in 0..CountCap
  PROVE  /\ Bump(n) \in 0..CountCap
         /\ Bump(n) >= n
BY ThresholdsAssumption DEF Bump

(* A newly constructed breaker is sound. *)
LEMMA NewBreakerSound == SoundBreaker(NewBreaker)
BY ThresholdsAssumption
   DEF SoundBreaker, NewBreaker, Breaker, CircuitState, NotOpened,
       BelowThreshold, Timed

(* The passing of time keeps a breaker sound and touches only its timer. *)
LEMMA AgedSound ==
  ASSUME NEW b, SoundBreaker(b)
  PROVE  /\ SoundBreaker(Aged(b))
         /\ Aged(b).state = b.state
         /\ Aged(b).probe_in_flight = b.probe_in_flight
         /\ Aged(b).success_count = b.success_count
<1>1. CASE b.opened_age \in 0..(ResetTimeout - 1)
  BY <1>1, ThresholdsAssumption
     DEF SoundBreaker, Aged, Breaker, CircuitState, NotOpened,
         BelowThreshold, Timed
<1>2. CASE ~(b.opened_age \in 0..(ResetTimeout - 1))
  BY <1>2 DEF Aged
<1>3. QED
  BY <1>1, <1>2

(* allow_request keeps an allowing breaker sound; unless it was CLOSED it  *)
(* is then HALF_OPEN with the probe flag raised.                           *)
LEMMA AllowSound ==
  ASSUME NEW b, SoundBreaker(b), Allows(b)
  PROVE  /\ SoundBreaker(AfterAllow(b))
         /\ b.state = "closed" => AfterAllow(b) = b
         /\ b.state # "closed" =>
              /\ AfterAllow(b).state = "half_open"
              /\ AfterAllow(b).probe_in_flight
              /\ AfterAllow(b).success_count =
                   IF b.state = "open" THEN 0 ELSE b.success_count
<1>0. b \in Breaker
  BY DEF SoundBreaker
<1>1. CASE b.state = "closed"
  BY <1>1 DEF AfterAllow
<1>2. CASE b.state = "half_open"
  <2>1. AfterAllow(b) = [b EXCEPT !.probe_in_flight = TRUE]
    BY <1>2 DEF AfterAllow
  <2>2. QED
    BY <1>0, <1>2, <2>1
       DEF SoundBreaker, Breaker, CircuitState, NotOpened, BelowThreshold, Timed
<1>3. CASE b.state = "open"
  <2> DEFINE b1 == [b EXCEPT !.state = "half_open"]
             b2 == [b1 EXCEPT !.success_count = 0]
             b3 == [b2 EXCEPT !.probe_in_flight = TRUE]
  <2>1. AfterAllow(b) = b3
    BY <1>3 DEF AfterAllow
  <2>2. b1 \in Breaker /\ b1.state = "half_open" /\ b1.opened_age = b.opened_age
    BY <1>0 DEF Breaker, CircuitState
  <2> HIDE DEF b1
  <2>3. /\ b2 \in Breaker /\ b2.state = "half_open" /\ b2.opened_age = b.opened_age
        /\ b2.success_count = 0
    BY <2>2, ThresholdsAssumption DEF Breaker
  <2> HIDE DEF b2
  <2>4. /\ b3 \in Breaker /\ b3.state = "half_open" /\ b3.opened_age = b.opened_age
        /\ b3.probe_in_flight
        /\ b3.success_count = 0
    BY <2>3 DEF Breaker
  <2> HIDE DEF b3
  <2>5. /\ AfterAllow(b) \in Breaker
        /\ AfterAllow(b).state = "half_open"
        /\ AfterAllow(b).probe_in_flight
        /\ AfterAllow(b).opened_age = b.opened_age
        /\ AfterAllow(b).success_count = 0
    BY <2>1, <2>4
  <2>6. QED
    BY <1>3, <2>5 DEF SoundBreaker, BelowThreshold, Timed
<1>4. QED
  BY <1>0, <1>1, <1>2, <1>3 DEF Breaker, CircuitState

(* record_success keeps a breaker sound, lowers the probe flag, and moves  *)
(* the circuit at most from HALF_OPEN to CLOSED, and that only when the    *)
(* success it counts is the one that reaches the threshold.                *)
LEMMA SuccessSound ==
  ASSUME NEW b, SoundBreaker(b)
  PROVE  /\ SoundBreaker(AfterSuccess(b))
         /\ ~AfterSuccess(b).probe_in_flight
         /\ \/ /\ AfterSuccess(b).state = b.state
               /\ AfterSuccess(b).opened_age = b.opened_age
               /\ AfterSuccess(b).success_count = Bump(b.success_count)
            \/ /\ b.state = "half_open"
               /\ AfterSuccess(b).state = "closed"
               /\ Bump(b.success_count) >= SuccessThreshold
<1> DEFINE successes == Bump(b.success_count)
           recovers  == Recovers(b, successes)
<1>1. b \in Breaker /\ successes \in 0..CountCap
  BY BumpBounds DEF SoundBreaker, Breaker
<1>2. AfterSuccess(b) =
        [state           |-> IF recovers THEN "closed" ELSE b.state,
         failure_count   |-> 0,
         success_count   |-> IF recovers THEN 0 ELSE successes,
         opened_age      |-> IF recovers THEN NotOpened ELSE b.opened_age,
         probe_in_flight |-> FALSE]
  BY DEF AfterSuccess
<1>3. successes = Bump(b.success_count)
  OBVIOUS
<1> HIDE DEF successes
<1>4. QED
  BY <1>1, <1>2, <1>3, ThresholdsAssumption
     DEF SoundBreaker, Breaker, CircuitState, NotOpened, BelowThreshold, Timed,
         Recovers

(* record_failure keeps a breaker sound, lowers the probe flag, and moves  *)
(* the circuit at most to OPEN with a fresh timer.                         *)
LEMMA FailureSound ==
  ASSUME NEW b, SoundBreaker(b)
  PROVE  /\ SoundBreaker(AfterFailure(b))
         /\ ~AfterFailure(b).probe_in_flight
         /\ \/ /\ AfterFailure(b).state = b.state
               /\ AfterFailure(b).opened_age = b.opened_age
            \/ /\ b.state \in {"closed", "half_open"}
               /\ AfterFailure(b).state = "open"
               /\ AfterFailure(b).opened_age = 0
<1> DEFINE failures == Bump(b.failure_count)
           opens    == Opens(b, failures)
<1>1. b \in Breaker /\ failures \in 0..CountCap
  BY BumpBounds DEF SoundBreaker, Breaker
<1>2. AfterFailure(b) =
        [state           |-> IF opens THEN "open" ELSE b.state,
         failure_count   |-> failures,
         success_count   |-> 0,
         opened_age      |-> IF opens THEN 0 ELSE b.opened_age,
         probe_in_flight |-> FALSE]
  BY DEF AfterFailure
<1> HIDE DEF failures
<1>3. QED
  BY <1>1, <1>2, ThresholdsAssumption
     DEF SoundBreaker, Breaker, CircuitState, NotOpened, BelowThreshold, Timed,
         Opens
=============================================================================
