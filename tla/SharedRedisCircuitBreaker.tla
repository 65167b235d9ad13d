--------------------- MODULE SharedRedisCircuitBreaker ---------------------
(***************************************************************************)
(* SharedRedisCircuitBreaker (redis_circuit_breaker.py): clients in        *)
(* several processes share one circuit kept in Redis keys.  A method is a  *)
(* sequence of Redis commands.  Each command, and each MULTI pipeline, is  *)
(* atomic; a method is not, so one action here is one command.             *)
(*                                                                         *)
(* Overlap = TRUE lets the commands of different clients interleave, and   *)
(* SlowMethods = TRUE those of one method take their time.  With both      *)
(* FALSE a method runs alone and at once, but may still be cut short at    *)
(* any command by a RedisError or a crash.                                 *)
(*                                                                         *)
(* A key with a TTL is kept as its age in clock ticks and expires at its   *)
(* TTL; a counter is a number that stops at CountCap, above both           *)
(* thresholds, and whose TTL is the action ExpireCounters.                 *)
(***************************************************************************)
EXTENDS Integers

CONSTANTS
  Clients,
  FailureThreshold,   \* failure_threshold
  SuccessThreshold,   \* success_threshold
  ResetTimeout,       \* reset_timeout_seconds, in clock ticks
  ProbeTTL,           \* probe_ttl, in clock ticks
  LockTTL,            \* the transition lock's ex=5, in clock ticks
  StateTTL,           \* state_ttl_seconds, in clock ticks
  CountCap,           \* where the model stops counting
  Overlap,            \* whether methods of different clients interleave
  SlowMethods         \* whether the clock ticks in the middle of a method

ASSUME SharedBreakerAssumption ==
  /\ {FailureThreshold, SuccessThreshold, ResetTimeout, ProbeTTL, LockTTL,
      StateTTL, CountCap} \subseteq Nat \ {0}
  /\ ProbeTTL >= ResetTimeout
  /\ StateTTL > ResetTimeout
  /\ CountCap >= FailureThreshold
  /\ CountCap >= SuccessThreshold
  /\ Overlap \in BOOLEAN
  /\ SlowMethods \in BOOLEAN

VARIABLES
  db,         \* the circuit's keys in Redis
  pc,         \* pc[c]: the next command of client c
  held,       \* held[c]: the state in a local variable of c, first the one
              \* it has read, then the one it is to _transition to
  calls,      \* calls[c]: was c's call admitted, as a probe or not, with an
              \* outcome that has not taken effect
  overtaken   \* history, not in the code: the probe key was deleted or
              \* expired while another call was in flight as a probe, and a
              \* probe of that time still is

vars == <<db, pc, held, calls, overtaken>>

CircuitState == {"closed", "open", "half_open"}

(* The age of a key that does not exist. *)
Missing == -1

Keys ==
  [state     : CircuitState,             \* a missing key reads as CLOSED
   state_age : Missing..(StateTTL - 1),  \* not kept of a CLOSED state
   failures  : 0..CountCap,             \* a missing counter reads as 0
   successes : 0..CountCap,
   opened    : Missing..(StateTTL - 1),
   probe     : Missing..(ProbeTTL - 1),
   lock      : Missing..(LockTTL - 1)]

(* In no method, or inside call but in the provider's callable.  A client  *)
(* is "down" when an error has taken it out of a method.                   *)
Between == {"idle", "down", "calling"}

Command ==
  {"read_opened_at", "take_lock", "recheck", "read_old_state", "set_state",
   "acquire_probe", "acquire_probe_locked", "unlock", "count_success",
   "drop_probe", "clear_keys", "count_failure", "set_opened_at"}

TypeOK ==
  /\ db \in Keys
  /\ pc \in [Clients -> Between \cup Command]
  /\ held \in [Clients -> CircuitState \cup {"none"}]
  /\ calls \in [Clients -> {"none", "normal", "probe"}]
  /\ overtaken \in BOOLEAN

Init ==
  /\ db = [state |-> "closed", state_age |-> Missing, failures |-> 0, successes |-> 0,
           opened |-> Missing, probe |-> Missing, lock |-> Missing]
  /\ pc = [c \in Clients |-> "idle"]
  /\ held = [c \in Clients |-> "none"]
  /\ calls = [c \in Clients |-> "none"]
  /\ overtaken = FALSE

Bump(n) == IF n < CountCap THEN n + 1 ELSE n

(* The provider is being called, or about to be, by a probe. *)
Probing(c) == calls[c] = "probe" /\ pc[c] \in {"unlock", "calling"}

OvertakenBy(c) == \E d \in Clients \ {c} : Probing(d)

NoMethodRuns == \A c \in Clients : pc[c] \in Between

MayStart == Overlap \/ NoMethodRuns

Go(c, label, state) ==
  /\ pc' = [pc EXCEPT ![c] = label]
  /\ held' = [held EXCEPT ![c] = state]

Outcome(c, kind) == calls' = [calls EXCEPT ![c] = kind]

(* call returns or raises; allow_request returned False or raised.  *)
Leave(c) == Go(c, "idle", "none") /\ Outcome(c, "none")

(* allow_request returns True. *)
Admit(c, kind) == Go(c, "calling", "none") /\ Outcome(c, kind)
-----------------------------------------------------------------------------
(* allow_request *)

AllowRequest(c) ==
  /\ pc[c] = "idle"
  /\ MayStart
  /\ IF db.state = "closed"
     THEN Admit(c, "normal")
     ELSE /\ Go(c, IF db.state = "open" THEN "read_opened_at" ELSE "acquire_probe",
                "none")
          /\ UNCHANGED calls
  /\ UNCHANGED <<db, overtaken>>

(* A missing opened_at reads as the present time. *)
(* Mutant: the reset timeout is not asked. *)
ReadOpenedAtAnyAge(c) ==
  /\ pc[c] = "read_opened_at"
  /\ Go(c, "take_lock", "none")
  /\ UNCHANGED <<db, calls, overtaken>>
ReadOpenedAt(c) ==
  /\ pc[c] = "read_opened_at"
  /\ IF db.opened >= ResetTimeout
     THEN Go(c, "take_lock", "none") /\ UNCHANGED calls
     ELSE Leave(c)
  /\ UNCHANGED <<db, overtaken>>

TakeLock(c) ==
  /\ pc[c] = "take_lock"
  /\ IF db.lock = Missing
     THEN Go(c, "recheck", "none") /\ db' = [db EXCEPT !.lock = 0] /\ UNCHANGED calls
     ELSE Leave(c) /\ UNCHANGED db
  /\ UNCHANGED overtaken

(* Under the lock the state is read again, but not opened_at. *)
Recheck(c) ==
  /\ pc[c] = "recheck"
  /\ IF db.state = "open"
     THEN Go(c, "read_old_state", "half_open")
     ELSE Go(c, "unlock", "none")
  /\ UNCHANGED <<db, calls, overtaken>>

(* SET NX.  Under the lock the answer waits for the finally block. *)
(* Mutant: SET without NX. *)
AcquireProbeAnyway(c) ==
  /\ pc[c] = "acquire_probe"
  /\ db' = [db EXCEPT !.probe = 0]
  /\ Admit(c, "probe")
  /\ UNCHANGED overtaken
AcquireProbe(c) ==
  /\ pc[c] = "acquire_probe"
  /\ IF db.probe = Missing
     THEN Admit(c, "probe") /\ db' = [db EXCEPT !.probe = 0]
     ELSE Leave(c) /\ UNCHANGED db
  /\ UNCHANGED overtaken

AcquireProbeLocked(c) ==
  /\ pc[c] = "acquire_probe_locked"
  /\ Go(c, "unlock", "none")
  /\ IF db.probe = Missing
     THEN Outcome(c, "probe") /\ db' = [db EXCEPT !.probe = 0]
     ELSE UNCHANGED <<db, calls>>
  /\ UNCHANGED overtaken

(* The finally block deletes the key, whoever holds it by now. *)
Unlock(c) ==
  /\ pc[c] = "unlock"
  /\ db' = [db EXCEPT !.lock = Missing]
  /\ IF calls[c] = "probe" THEN Admit(c, "probe") ELSE Leave(c)
  /\ UNCHANGED overtaken
-----------------------------------------------------------------------------
(* record_success *)

RecordSuccess(c) ==
  /\ pc[c] = "calling"
  /\ MayStart
  /\ Go(c, "count_success", db.state)
  /\ UNCHANGED <<db, calls, overtaken>>

(* MULTI: DEL failures, INCR successes. *)
CountSuccess(c) ==
  /\ pc[c] = "count_success"
  /\ db' = [db EXCEPT !.failures = 0, !.successes = Bump(@)]
  /\ Go(c, "drop_probe",
        IF held[c] = "half_open" /\ db'.successes >= SuccessThreshold
        THEN "closed" ELSE "none")
  /\ UNCHANGED <<calls, overtaken>>

(* Mutant: the keys are cleared whether or not the circuit closes. *)
DropProbeClearing(c) ==
  /\ pc[c] = "drop_probe"
  /\ db' = [db EXCEPT !.probe = Missing]
  /\ overtaken' = OvertakenBy(c)
  /\ Go(c, IF held[c] = "closed" THEN "read_old_state" ELSE "clear_keys", held[c])
  /\ UNCHANGED calls
DropProbe(c) ==
  /\ pc[c] = "drop_probe"
  /\ db' = [db EXCEPT !.probe = Missing]
  /\ overtaken' = OvertakenBy(c)
  /\ IF held[c] = "closed"
     THEN Go(c, "read_old_state", "closed") /\ UNCHANGED calls
     ELSE Leave(c)

(* After _transition to CLOSED: DEL successes opened_at. *)
ClearKeys(c) ==
  /\ pc[c] = "clear_keys"
  /\ db' = [db EXCEPT !.successes = 0, !.opened = Missing]
  /\ Leave(c)
  /\ UNCHANGED overtaken
-----------------------------------------------------------------------------
(* record_failure *)

RecordFailure(c) ==
  /\ pc[c] = "calling"
  /\ MayStart
  /\ Go(c, "count_failure", db.state)
  /\ UNCHANGED <<db, calls, overtaken>>

(* The failure that opens the circuit, out of so many. *)
(* Mutant: only the failure that reaches the threshold. *)
OpensAtThreshold(state, failures) ==
  \/ state = "half_open"
  \/ state = "closed" /\ failures = FailureThreshold
Opens(state, failures) ==
  \/ state = "half_open"
  \/ state = "closed" /\ failures >= FailureThreshold

(* MULTI: INCR failures, DEL successes probe. *)
CountFailure(c) ==
  /\ pc[c] = "count_failure"
  /\ db' = [db EXCEPT !.failures = Bump(@), !.successes = 0, !.probe = Missing]
  /\ overtaken' = OvertakenBy(c)
  /\ IF Opens(held[c], db'.failures)
     THEN Go(c, "set_opened_at", "open") /\ UNCHANGED calls
     ELSE Leave(c)

SetOpenedAt(c) ==
  /\ pc[c] = "set_opened_at"
  /\ db' = [db EXCEPT !.opened = 0]
  /\ Go(c, "read_old_state", "open")
  /\ UNCHANGED <<calls, overtaken>>
-----------------------------------------------------------------------------
(* _transition: GET state, then SET it if it is to change. *)

(* What the method goes on with.  A record_... method's outcome has now    *)
(* taken effect.                                                           *)
AfterTransition(c) ==
  CASE held[c] = "half_open" -> Go(c, "acquire_probe_locked", "none") /\ UNCHANGED calls
    [] held[c] = "closed"    -> Go(c, "clear_keys", "none") /\ Outcome(c, "none")
    [] held[c] = "open"      -> Leave(c)

ReadOldState(c) ==
  /\ pc[c] = "read_old_state"
  /\ IF db.state = held[c]
     THEN AfterTransition(c)
     ELSE Go(c, "set_state", held[c]) /\ UNCHANGED calls
  /\ UNCHANGED <<db, overtaken>>

(* Mutants: SET without EX; the arguments of _transition swapped. *)
SetStateForGood(c) ==
  /\ pc[c] = "set_state"
  /\ db' = [db EXCEPT !.state = held[c], !.state_age = Missing]
  /\ AfterTransition(c)
  /\ UNCHANGED overtaken
SetStateToReason(c) ==
  /\ pc[c] = "set_state"
  /\ db' = [db EXCEPT !.state = "probe_failure"]
  /\ AfterTransition(c)
  /\ UNCHANGED overtaken
SetState(c) ==
  /\ pc[c] = "set_state"
  /\ db' = [db EXCEPT !.state = held[c],
                       !.state_age = IF held[c] = "closed" THEN Missing ELSE 0]
  /\ AfterTransition(c)
  /\ UNCHANGED overtaken
-----------------------------------------------------------------------------
(* The environment *)

(* A RedisError ends the method, or the process dies.  The finally block   *)
(* may still have deleted the transition lock.                             *)
Abort(c) ==
  /\ pc[c] \notin {"idle", "down"}
  /\ Go(c, "down", "none")
  /\ Outcome(c, "none")
  /\ \/ UNCHANGED db
     \/ /\ \/ pc[c] \in {"recheck", "acquire_probe_locked"}
           \/ pc[c] \in {"read_old_state", "set_state"} /\ held[c] = "half_open"
        /\ db' = [db EXCEPT !.lock = Missing]
  /\ UNCHANGED overtaken

(* The error is dealt with, or the process starts again. *)
Resume(c) ==
  /\ pc[c] = "down"
  /\ Leave(c)
  /\ UNCHANGED <<db, overtaken>>

(* A process (re)starts: SET NX state, EXPIRE state. *)
Construct(c) ==
  /\ pc[c] = "idle"
  /\ MayStart
  /\ db.state # "closed"
  /\ db' = [db EXCEPT !.state_age = 0]
  /\ UNCHANGED <<pc, held, calls, overtaken>>

(* A key one tick older, or expired. *)
Older(age, ttl) ==
  IF age = Missing \/ age + 1 = ttl THEN Missing ELSE age + 1

Tick ==
  /\ SlowMethods \/ NoMethodRuns
  /\ LET state_age == Older(db.state_age, StateTTL)
     IN db' = [db EXCEPT
                 !.state_age = state_age,
                 !.state     = IF db.state_age # Missing /\ state_age = Missing
                               THEN "closed" ELSE @,
                 !.opened    = Older(@, StateTTL),
                 !.probe     = Older(@, ProbeTTL),
                 !.lock      = Older(@, LockTTL)]
  /\ db' # db
  /\ overtaken' = (\/ overtaken
                   \/ /\ db.probe # db'.probe /\ db'.probe = Missing
                      /\ \E c \in Clients : Probing(c))
  /\ UNCHANGED <<pc, held, calls>>

(* No call takes as long as state_ttl_seconds. *)
ExpireCounters ==
  /\ \A c \in Clients : pc[c] \in {"idle", "down"}
  /\ \/ db.failures # 0  /\ db' = [db EXCEPT !.failures = 0]
     \/ db.successes # 0 /\ db' = [db EXCEPT !.successes = 0]
  /\ UNCHANGED <<pc, held, calls, overtaken>>

Proceed(c) ==
  \/ Resume(c) \/ AllowRequest(c) \/ ReadOpenedAt(c) \/ TakeLock(c) \/ Recheck(c)
  \/ AcquireProbe(c) \/ AcquireProbeLocked(c) \/ Unlock(c)
  \/ RecordSuccess(c) \/ CountSuccess(c) \/ DropProbe(c) \/ ClearKeys(c)
  \/ RecordFailure(c) \/ CountFailure(c) \/ SetOpenedAt(c)
  \/ ReadOldState(c) \/ SetState(c)

Next ==
  \/ \E c \in Clients : Proceed(c) \/ Abort(c) \/ Construct(c)
  \/ Tick
  \/ ExpireCounters

Spec == Init /\ [][Next]_vars

(* The clock runs, and a client keeps calling, goes on with what it has    *)
(* begun and recovers from its errors.  Nobody has to fail.                *)
Fairness == WF_vars(Tick) /\ \A c \in Clients : WF_vars(Proceed(c))

FairSpec == Spec /\ Fairness
-----------------------------------------------------------------------------
AtMostOneProbe ==
  \A c, d \in Clients : Probing(c) /\ Probing(d) => c = d

(* The distributed probe lock, and what it depends on: two probes are in   *)
(* flight together only after the probe key was deleted or expired under   *)
(* one of them.                                                            *)
SingleProbeUnlessOvertaken == ~overtaken => AtMostOneProbe

(* While methods do not overlap, the shared circuit implements the same    *)
(* contract as the one in memory, wherever a method is cut short.  It      *)
(* forgets: its keys expire.                                               *)
Contract == INSTANCE CircuitContract WITH
  Callers <- Clients,
  Forgets <- TRUE,
  state   <- db.state,
  cooled  <- db.state = "open" /\ db.opened \notin 0..(ResetTimeout - 1),
  running <- {c \in Clients : calls[c] # "none"}

ContractSpec == Contract!Spec

(* What may keep a circuit from settling, and does not happen for ever. *)
Disturbed == (\E c \in Clients : Abort(c) \/ Construct(c)) \/ ExpireCounters

(* Whatever overlapping methods, crashes and expiries have done to the     *)
(* keys, a circuit under load closes for good once its calls succeed.      *)
RecoversOnceHealthy ==
  <>[][~ (Disturbed \/ \E c \in Clients : RecordFailure(c))]_vars
    => <>[](db.state = "closed")

(* A circuit whose calls all fail opens again and again, also when the     *)
(* failure that reached the threshold was cut short before it opened.      *)
TripsOnceFailing ==
  <>[][~ (Disturbed \/ \E c \in Clients : RecordSuccess(c))]_vars
    => []<>(db.state = "open")
-----------------------------------------------------------------------------
(* The circuit moves along the edges of the state machine only. *)
LegalEdges ==
  [][\A c \in Clients : SetState(c) =>
       \/ db'.state = db.state
       \/ <<db.state, db'.state>> \in
            {<<"closed", "open">>, <<"open", "half_open">>,
             <<"half_open", "open">>, <<"half_open", "closed">>}]_vars

(* No method takes the opened_at away from an OPEN circuit: without it the *)
(* circuit denies every call until its state expires.                      *)
KeepsOpenedAt ==
  [][db.state = "open" /\ db'.state = "open" /\ db'.opened = Missing
       => db.opened = Missing \/ Tick]_vars
=============================================================================
