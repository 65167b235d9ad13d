----------------------- MODULE SharedRedisBreakerProofs -----------------------
(***************************************************************************)
(* The circuit kept in Redis, for any number of clients, any thresholds    *)
(* and times to live.                                                      *)
(*                                                                         *)
(* First, overlapping or not.  The single-probe rule holds by the probe    *)
(* key: until the key is taken away under a probe, it exists while a probe *)
(* is in flight, and SET NX fails.  For that to be inductive, a client on  *)
(* its way through allow_request must not count as a probe yet: the        *)
(* finally block of the lock would make it one.                            *)
(*                                                                         *)
(* Then, where methods run one at a time and at once (Serial): the circuit *)
(* keeps the contract of the one in memory, wherever a method is cut short.*)
(***************************************************************************)
EXTENDS SharedRedisCircuitBreaker, TLAPS

(* The points at which a client has no call that was admitted. *)
Outside ==
  {"idle", "down", "read_opened_at", "take_lock", "recheck", "acquire_probe",
   "acquire_probe_locked"}

Consistent(c) ==
  /\ pc[c] \in Outside => calls[c] = "none"
  /\ pc[c] \in {"read_old_state", "set_state"} =>
       /\ held[c] \in CircuitState
       /\ held[c] = "half_open" => calls[c] = "none"

ProbeHoldsKey ==
  ~overtaken =>
    \A c \in Clients : Probing(c) =>
      /\ db.probe # Missing
      /\ \A d \in Clients : Probing(d) => d = c

IInv ==
  /\ TypeOK
  /\ \A c \in Clients : Consistent(c)
  /\ ProbeHoldsKey

LEMMA InitIInv == Init => IInv
<1> SUFFICES ASSUME Init PROVE IInv
  OBVIOUS
<1>1. db \in Keys
  BY SharedBreakerAssumption DEF Init, Keys, CircuitState, Missing
<1>2. TypeOK
  BY <1>1 DEF Init, TypeOK, Between
<1>3. \A c \in Clients : Consistent(c) /\ ~Probing(c)
  BY DEF Init, Consistent, Probing
<1>4. QED
  BY <1>2, <1>3 DEF IInv, ProbeHoldsKey

(* A counter that is bumped stays below its cap, a key that ages below its *)
(* time to live.                                                           *)
LEMMA BumpType ==
  ASSUME NEW n \in 0..CountCap
  PROVE  Bump(n) \in 0..CountCap
BY SharedBreakerAssumption DEF Bump

LEMMA OlderType ==
  ASSUME NEW ttl \in Nat \ {0}, NEW age \in Missing..(ttl - 1)
  PROVE  Older(age, ttl) \in Missing..(ttl - 1)
BY DEF Older, Missing

(* What a client's move to its next command does to the clients. *)
LEMMA MoveFacts ==
  ASSUME TypeOK, NEW c \in Clients,
         NEW label \in Between \cup Command,
         NEW state \in CircuitState \cup {"none"},
         NEW kind \in {"none", "normal", "probe"},
         Go(c, label, state), Outcome(c, kind)
  PROVE  /\ pc' \in [Clients -> Between \cup Command]
         /\ held' \in [Clients -> CircuitState \cup {"none"}]
         /\ calls' \in [Clients -> {"none", "normal", "probe"}]
         /\ pc'[c] = label /\ held'[c] = state /\ calls'[c] = kind
         /\ \A d \in Clients \ {c} :
              pc'[d] = pc[d] /\ held'[d] = held[d] /\ calls'[d] = calls[d]
BY DEF TypeOK, Go, Outcome

(* A client's move keeps the invariant if it treats the probe key in one   *)
(* of three ways: the key is left alone and the client is no new probe; it *)
(* is deleted, by a client that is no probe any more; or it is set where   *)
(* there was none.                                                         *)
LEMMA MoveIInv ==
  ASSUME IInv, NEW c \in Clients,
         NEW label \in Between \cup Command,
         NEW state \in CircuitState \cup {"none"},
         NEW kind \in {"none", "normal", "probe"},
         Go(c, label, state), Outcome(c, kind), db' \in Keys,
         label \in Outside => kind = "none",
         label \in {"read_old_state", "set_state"} =>
           state \in CircuitState /\ (state = "half_open" => kind = "none"),
         \/ /\ overtaken' = overtaken /\ db'.probe = db.probe
            /\ kind = "probe" /\ label \in {"unlock", "calling"} => Probing(c)
         \/ /\ overtaken' = OvertakenBy(c)
            /\ ~(kind = "probe" /\ label \in {"unlock", "calling"})
         \/ /\ overtaken' = overtaken
            /\ db.probe = Missing /\ db'.probe # Missing
  PROVE  IInv'
<1>0. TypeOK /\ ProbeHoldsKey /\ \A d \in Clients : Consistent(d)
  BY DEF IInv
<1>1. /\ pc' \in [Clients -> Between \cup Command]
      /\ held' \in [Clients -> CircuitState \cup {"none"}]
      /\ calls' \in [Clients -> {"none", "normal", "probe"}]
      /\ pc'[c] = label /\ held'[c] = state /\ calls'[c] = kind
      /\ \A d \in Clients \ {c} :
           pc'[d] = pc[d] /\ held'[d] = held[d] /\ calls'[d] = calls[d]
  BY <1>0, MoveFacts
<1>2. TypeOK'
  BY <1>0, <1>1 DEF TypeOK, OvertakenBy
<1>3. \A d \in Clients : Consistent(d)'
  BY <1>0, <1>1 DEF Consistent
<1>4. /\ Probing(c)' <=> kind = "probe" /\ label \in {"unlock", "calling"}
      /\ \A d \in Clients \ {c} : Probing(d)' <=> Probing(d)
  BY <1>1 DEF Probing
<1>5. ProbeHoldsKey'
  <2>1. CASE /\ overtaken' = overtaken /\ db'.probe = db.probe
             /\ Probing(c)' => Probing(c)
    BY <1>0, <1>4, <2>1 DEF ProbeHoldsKey
  <2>2. CASE overtaken' = OvertakenBy(c) /\ ~Probing(c)'
    BY <1>4, <2>2 DEF ProbeHoldsKey, OvertakenBy
  <2>3. CASE overtaken' = overtaken /\ db.probe = Missing /\ db'.probe # Missing
    BY <1>0, <1>4, <2>3 DEF ProbeHoldsKey
  <2>4. QED
    BY <1>4, <2>1, <2>2, <2>3
<1>6. QED
  BY <1>2, <1>3, <1>5 DEF IInv
-----------------------------------------------------------------------------
(* Where a client stands, and what a move needs of it. *)
LEMMA AtFacts ==
  ASSUME IInv, NEW c \in Clients
  PROVE  /\ calls[c] \in {"none", "normal", "probe"}
         /\ held[c] \in CircuitState \cup {"none"}
         /\ db \in Keys
         /\ pc[c] \in Outside => calls[c] = "none"
         /\ pc[c] \in {"read_old_state", "set_state"} =>
              /\ held[c] \in CircuitState
              /\ held[c] = "half_open" => calls[c] = "none"
         /\ UNCHANGED calls => Outcome(c, calls[c])
BY DEF IInv, TypeOK, Consistent, Outcome

(* allow_request, command by command. *)
LEMMA AllowIInv ==
  ASSUME IInv, NEW c \in Clients,
         AllowRequest(c) \/ ReadOpenedAt(c) \/ TakeLock(c) \/ Recheck(c)
  PROVE  IInv'
<1>0. /\ db \in Keys /\ calls[c] = "none" /\ ~Probing(c)
      /\ UNCHANGED calls => Outcome(c, "none")
  BY AtFacts
     DEF AllowRequest, ReadOpenedAt, TakeLock, Recheck, Outside, Probing
<1>1. CASE AllowRequest(c)
  <2>1. CASE db.state = "closed"
    BY <1>0, <1>1, <2>1, MoveIInv
       DEF AllowRequest, Admit, Between, CircuitState, Outside
  <2>2. CASE db.state # "closed"
    <3> DEFINE label == IF db.state = "open" THEN "read_opened_at" ELSE "acquire_probe"
    <3>1. label \in Command /\ label \notin {"unlock", "calling", "read_old_state", "set_state"}
      BY DEF Command
    <3>2. Go(c, label, "none") /\ Outcome(c, "none") /\ UNCHANGED <<db, overtaken>>
      BY <1>0, <1>1, <2>2 DEF AllowRequest
    <3> HIDE DEF label
    <3>3. QED
      BY <1>0, <3>1, <3>2, MoveIInv
  <2>3. QED
    BY <2>1, <2>2
<1>2. CASE ReadOpenedAt(c)
  BY <1>0, <1>2, MoveIInv DEF ReadOpenedAt, Leave, Between, Command
<1>3. CASE TakeLock(c)
  <2>1. [db EXCEPT !.lock = 0] \in Keys
    BY <1>0, SharedBreakerAssumption DEF Keys, Missing
  <2>2. QED
    BY <1>0, <1>3, <2>1, MoveIInv DEF TakeLock, Leave, Between, Command, Keys
<1>4. CASE Recheck(c)
  BY <1>0, <1>4, MoveIInv DEF Recheck, Command, CircuitState
<1>5. QED
  BY <1>1, <1>2, <1>3, <1>4

LEMMA ProbeIInv ==
  ASSUME IInv, NEW c \in Clients,
         AcquireProbe(c) \/ AcquireProbeLocked(c) \/ Unlock(c)
  PROVE  IInv'
<1>0. /\ db \in Keys
      /\ calls[c] \in {"none", "normal", "probe"}
      /\ pc[c] \in Outside => calls[c] = "none"
      /\ UNCHANGED calls => Outcome(c, calls[c])
  BY AtFacts
<1>1. [db EXCEPT !.probe = 0] \in Keys
  BY <1>0, SharedBreakerAssumption DEF Keys, Missing
<1>2. [db EXCEPT !.probe = 0].probe # Missing
  BY <1>0 DEF Keys, Missing
<1>3. CASE AcquireProbe(c)
  BY <1>0, <1>1, <1>2, <1>3, MoveIInv
     DEF AcquireProbe, Leave, Admit, Between, Outside
<1>4. CASE AcquireProbeLocked(c)
  BY <1>0, <1>1, <1>2, <1>4, MoveIInv
     DEF AcquireProbeLocked, Command, Outside
<1>5. CASE Unlock(c)
  <2>1. [db EXCEPT !.lock = Missing] \in Keys /\ [db EXCEPT !.lock = Missing].probe = db.probe
    BY <1>0, SharedBreakerAssumption DEF Keys, Missing
  <2>2. calls[c] = "probe" => Probing(c)
    BY <1>5 DEF Unlock, Probing
  <2>3. QED
    BY <1>0, <1>5, <2>1, <2>2, MoveIInv DEF Unlock, Admit, Leave, Between, Outside
<1>6. QED
  BY <1>3, <1>4, <1>5

(* record_success and record_failure up to the transition. *)
LEMMA RecordIInv ==
  ASSUME IInv, NEW c \in Clients,
         \/ RecordSuccess(c) \/ CountSuccess(c) \/ DropProbe(c) \/ ClearKeys(c)
         \/ RecordFailure(c) \/ CountFailure(c) \/ SetOpenedAt(c)
  PROVE  IInv'
<1>0. /\ db \in Keys /\ db.state \in CircuitState
      /\ db.failures \in 0..CountCap /\ db.successes \in 0..CountCap
      /\ calls[c] \in {"none", "normal", "probe"}
      /\ held[c] \in CircuitState \cup {"none"}
      /\ UNCHANGED calls => Outcome(c, calls[c])
  BY AtFacts DEF Keys
<1>1. 0 \in 0..CountCap /\ Bump(db.successes) \in 0..CountCap
      /\ Bump(db.failures) \in 0..CountCap
  BY <1>0, BumpType, SharedBreakerAssumption
<1>2. CASE RecordSuccess(c)
  BY <1>0, <1>2, MoveIInv DEF RecordSuccess, Command, Outside
<1>3. CASE CountSuccess(c)
  <2> DEFINE db1 == [db EXCEPT !.failures = 0, !.successes = Bump(@)]
  <2>1. db1 \in Keys /\ db1.probe = db.probe
    BY <1>0, <1>1 DEF Keys
  <2>2. PICK state \in {"closed", "none"} : Go(c, "drop_probe", state)
    BY <1>3 DEF CountSuccess
  <2>3. QED
    BY <1>0, <1>3, <2>1, <2>2, MoveIInv
       DEF CountSuccess, Command, CircuitState, Outside
<1>4. CASE DropProbe(c)
  <2>1. [db EXCEPT !.probe = Missing] \in Keys
    BY <1>0, SharedBreakerAssumption DEF Keys, Missing
  <2>2. db' \in Keys /\ overtaken' = OvertakenBy(c)
    BY <1>4, <2>1 DEF DropProbe
  <2>3. \/ Go(c, "read_old_state", "closed") /\ Outcome(c, calls[c])
        \/ Go(c, "idle", "none") /\ Outcome(c, "none")
    BY <1>0, <1>4 DEF DropProbe, Leave
  <2>4. QED
    BY <1>0, <2>2, <2>3, MoveIInv DEF Between, Command, CircuitState, Outside
<1>5. CASE ClearKeys(c)
  <2> DEFINE db1 == [db EXCEPT !.successes = 0]
             db2 == [db1 EXCEPT !.opened = Missing]
  <2>0. db' = db2
    BY <1>5 DEF ClearKeys
  <2>1. db1 \in Keys /\ db1.probe = db.probe
    BY <1>0, <1>1 DEF Keys
  <2> HIDE DEF db1
  <2>2. db2 \in Keys /\ db2.probe = db.probe
    BY <2>1, SharedBreakerAssumption DEF Keys, Missing
  <2> HIDE DEF db2
  <2>3. Go(c, "idle", "none") /\ Outcome(c, "none") /\ overtaken' = overtaken
    BY <1>5 DEF ClearKeys, Leave
  <2>4. QED
    BY <2>0, <2>2, <2>3, MoveIInv DEF Between
<1>6. CASE RecordFailure(c)
  BY <1>0, <1>6, MoveIInv DEF RecordFailure, Command, Outside
<1>7. CASE CountFailure(c)
  <2> DEFINE db1 == [db EXCEPT !.failures = Bump(@), !.successes = 0]
             db2 == [db1 EXCEPT !.probe = Missing]
  <2>1. db1 \in Keys
    BY <1>0, <1>1 DEF Keys
  <2>2. db2 \in Keys
    <3> HIDE DEF db1
    <3> QED
      BY <2>1, SharedBreakerAssumption DEF Keys, Missing
  <2>3. db' = db2
    BY <1>7 DEF CountFailure
  <2>4. overtaken' = OvertakenBy(c)
    BY <1>7 DEF CountFailure
  <2> HIDE DEF db2
  <2>5. \/ Go(c, "set_opened_at", "open") /\ Outcome(c, calls[c])
        \/ Go(c, "idle", "none") /\ Outcome(c, "none")
    BY <1>0, <1>7 DEF CountFailure, Leave
  <2>6. QED
    BY <1>0, <2>2, <2>3, <2>4, <2>5, MoveIInv DEF Between, Command, CircuitState, Outside
<1>8. CASE SetOpenedAt(c)
  <2>1. [db EXCEPT !.opened = 0] \in Keys /\ [db EXCEPT !.opened = 0].probe = db.probe
    BY <1>0, SharedBreakerAssumption DEF Keys, Missing
  <2>2. QED
    BY <1>0, <1>8, <2>1, MoveIInv DEF SetOpenedAt, Command, CircuitState, Outside
<1>9. QED
  BY <1>2, <1>3, <1>4, <1>5, <1>6, <1>7, <1>8

(* _transition.  The client that took the lock goes on to take the probe   *)
(* key, and has no call yet.                                               *)
LEMMA AfterTransitionIInv ==
  ASSUME IInv, NEW c \in Clients, pc[c] \in {"read_old_state", "set_state"},
         AfterTransition(c), db' \in Keys, db'.probe = db.probe,
         overtaken' = overtaken
  PROVE  IInv'
<1>0. /\ held[c] \in CircuitState
      /\ held[c] = "half_open" => calls[c] = "none"
      /\ UNCHANGED calls => Outcome(c, calls[c])
  BY AtFacts
<1>1. CASE held[c] = "half_open"
  <2>1. Go(c, "acquire_probe_locked", "none") /\ Outcome(c, "none")
    BY <1>0, <1>1 DEF AfterTransition
  <2>2. QED
    BY <2>1, MoveIInv DEF Command
<1>2. CASE held[c] = "closed"
  <2>1. Go(c, "clear_keys", "none") /\ Outcome(c, "none")
    BY <1>2 DEF AfterTransition
  <2>2. QED
    BY <2>1, MoveIInv DEF Command
<1>3. CASE held[c] = "open"
  <2>1. Go(c, "idle", "none") /\ Outcome(c, "none")
    BY <1>3 DEF AfterTransition, Leave
  <2>2. QED
    BY <2>1, MoveIInv DEF Between
<1>4. QED
  BY <1>0, <1>1, <1>2, <1>3 DEF CircuitState

LEMMA TransitionIInv ==
  ASSUME IInv, NEW c \in Clients, ReadOldState(c) \/ SetState(c)
  PROVE  IInv'
<1>0. /\ db \in Keys /\ held[c] \in CircuitState
      /\ held[c] = "half_open" => calls[c] = "none"
      /\ calls[c] \in {"none", "normal", "probe"}
      /\ pc[c] \in {"read_old_state", "set_state"}
      /\ UNCHANGED calls => Outcome(c, calls[c])
  BY AtFacts DEF ReadOldState, SetState
<1>1. CASE ReadOldState(c)
  <2>1. CASE db.state = held[c]
    BY <1>0, <1>1, <2>1, AfterTransitionIInv DEF ReadOldState
  <2>2. CASE db.state # held[c]
    BY <1>0, <1>1, <2>2, MoveIInv DEF ReadOldState, Command, Outside
  <2>3. QED
    BY <2>1, <2>2
<1>2. CASE SetState(c)
  <2> DEFINE age == IF held[c] = "closed" THEN Missing ELSE 0
             db1 == [db EXCEPT !.state = held[c], !.state_age = age]
  <2>1. age \in Missing..(StateTTL - 1)
    BY SharedBreakerAssumption DEF Missing
  <2>2. db' = db1
    BY <1>2 DEF SetState
  <2> HIDE DEF age
  <2>3. db1 \in Keys /\ db1.probe = db.probe
    BY <1>0, <2>1 DEF Keys
  <2>4. QED
    BY <1>0, <1>2, <2>2, <2>3, AfterTransitionIInv DEF SetState
<1>3. QED
  BY <1>1, <1>2
-----------------------------------------------------------------------------
(* Errors, restarts and the passing of time. *)
LEMMA ErrorIInv ==
  ASSUME IInv, NEW c \in Clients, Abort(c) \/ Resume(c) \/ Construct(c)
  PROVE  IInv'
<1>0. db \in Keys
  BY AtFacts
<1>1. CASE Abort(c)
  <2>1. [db EXCEPT !.lock = Missing] \in Keys /\ [db EXCEPT !.lock = Missing].probe = db.probe
    BY <1>0, SharedBreakerAssumption DEF Keys, Missing
  <2>2. QED
    BY <1>0, <1>1, <2>1, MoveIInv DEF Abort, Between
<1>2. CASE Resume(c)
  BY <1>0, <1>2, MoveIInv DEF Resume, Leave, Between
<1>3. CASE Construct(c)
  <2>1. db' \in Keys /\ db'.probe = db.probe
    BY <1>0, <1>3, SharedBreakerAssumption DEF Construct, Keys, Missing
  <2>2. UNCHANGED <<pc, held, calls, overtaken>>
    BY <1>3 DEF Construct
  <2>3. QED
    BY <2>1, <2>2 DEF IInv, TypeOK, Consistent, ProbeHoldsKey, Probing
<1>4. QED
  BY <1>1, <1>2, <1>3

(* A probe key that expires under a probe is what overtaken remembers.     *)
LEMMA TickIInv == IInv /\ Tick => IInv'
<1> SUFFICES ASSUME IInv, Tick PROVE IInv'
  OBVIOUS
<1> DEFINE state_age == Older(db.state_age, StateTTL)
           state  == IF db.state_age # Missing /\ state_age = Missing
                     THEN "closed" ELSE db.state
           opened == Older(db.opened, StateTTL)
           probe  == Older(db.probe, ProbeTTL)
           lock   == Older(db.lock, LockTTL)
<1>1. db \in Keys /\ db.state \in CircuitState
      /\ db.state_age \in Missing..(StateTTL - 1)
      /\ db.opened \in Missing..(StateTTL - 1)
      /\ db.probe \in Missing..(ProbeTTL - 1)
      /\ db.lock \in Missing..(LockTTL - 1)
  BY DEF IInv, TypeOK, Keys
<1>2. /\ state_age \in Missing..(StateTTL - 1)
      /\ opened \in Missing..(StateTTL - 1)
      /\ probe \in Missing..(ProbeTTL - 1)
      /\ lock \in Missing..(LockTTL - 1)
      /\ state \in CircuitState
  BY <1>1, OlderType, SharedBreakerAssumption DEF CircuitState
<1>3. db' = [db EXCEPT !.state_age = state_age, !.state = state, !.opened = opened,
                       !.probe = probe, !.lock = lock]
  BY DEF Tick
<1> HIDE DEF state_age, state, opened, probe, lock
<1>4. db' \in Keys
  BY <1>1, <1>2, <1>3 DEF Keys
<1>5. /\ UNCHANGED <<pc, held, calls>>
      /\ overtaken' = (\/ overtaken
                       \/ /\ db.probe # db'.probe /\ db'.probe = Missing
                          /\ \E c \in Clients : Probing(c))
  BY DEF Tick
<1>6. TypeOK' /\ \A c \in Clients : Consistent(c)'
  BY <1>4, <1>5 DEF IInv, TypeOK, Consistent
<1>7. ProbeHoldsKey'
  BY <1>5 DEF IInv, ProbeHoldsKey, Probing
<1>8. QED
  BY <1>6, <1>7 DEF IInv

LEMMA ExpireIInv == IInv /\ ExpireCounters => IInv'
<1> SUFFICES ASSUME IInv, ExpireCounters PROVE IInv'
  OBVIOUS
<1>1. db' \in Keys /\ db'.probe = db.probe
  BY SharedBreakerAssumption DEF IInv, TypeOK, Keys, ExpireCounters
<1>2. QED
  BY <1>1 DEF IInv, TypeOK, Consistent, ProbeHoldsKey, Probing, ExpireCounters

LEMMA NextIInv == IInv /\ [Next]_vars => IInv'
<1> SUFFICES ASSUME IInv, [Next]_vars PROVE IInv'
  OBVIOUS
<1>1. ASSUME NEW c \in Clients, Proceed(c) \/ Abort(c) \/ Construct(c)
      PROVE  IInv'
  BY <1>1, AllowIInv, ProbeIInv, RecordIInv, TransitionIInv, ErrorIInv DEF Proceed
<1>2. CASE UNCHANGED vars
  BY <1>2 DEF vars, IInv, TypeOK, Consistent, ProbeHoldsKey, Probing
<1>3. QED
  BY <1>1, <1>2, TickIInv, ExpireIInv DEF Next

(* The inductive invariant holds in every reachable state. *)
THEOREM Invariance == Spec => []IInv
BY InitIInv, NextIInv, PTL DEF Spec

(* Every variable keeps its type: no command writes a state, a counter or  *)
(* an age that a client could not read.                                    *)
THEOREM TypeCorrect == Spec => []TypeOK
<1>1. IInv => TypeOK
  BY DEF IInv
<1>2. QED
  BY <1>1, Invariance, PTL

(* However many clients race through allow_request, die or are delayed in  *)
(* it, two of them are probes together only after the probe key was taken  *)
(* from one of them.                                                       *)
THEOREM SingleProbe == Spec => []SingleProbeUnlessOvertaken
<1>1. IInv => SingleProbeUnlessOvertaken
  BY DEF IInv, ProbeHoldsKey, SingleProbeUnlessOvertaken, AtMostOneProbe
<1>2. QED
  BY <1>1, Invariance, PTL

-----------------------------------------------------------------------------
(***************************************************************************)
(* Methods that run one at a time.  What a client has read then still      *)
(* holds of the keys: that is the invariant, and most of it is about the   *)
(* client that is in a method.                                             *)
(***************************************************************************)

Serial == ~Overlap /\ ~SlowMethods

Cooled == db.opened \notin 0..(ResetTimeout - 1)

OneMethodRuns ==
  \A c, d \in Clients : pc[c] \notin Between /\ pc[d] \notin Between => c = d

(* A call that was admitted counts as running until its outcome has taken  *)
(* effect.                                                                 *)
Running(c) ==
  \/ pc[c] \in {"calling", "count_success", "drop_probe", "count_failure",
                "set_opened_at"}
  \/ pc[c] \in {"read_old_state", "set_state"} /\ held[c] \in {"closed", "open"}

(* What client c relies on. *)
UpToDate(c) ==
  /\ pc[c] \in {"read_opened_at", "take_lock", "recheck"} => db.state = "open"
  /\ pc[c] \in {"take_lock", "recheck"} => Cooled
  /\ pc[c] \in {"acquire_probe", "acquire_probe_locked"} => db.state = "half_open"
  /\ pc[c] \in {"count_success", "count_failure"} => held[c] = db.state
  /\ pc[c] = "drop_probe" /\ held[c] = "closed" => db.state = "half_open"
  /\ pc[c] = "set_opened_at" => db.state # "open"
  /\ pc[c] = "clear_keys" => db.state = "closed"
  /\ pc[c] \in {"read_old_state", "set_state"} =>
       /\ held[c] = "half_open" => db.state = "open" /\ Cooled
       /\ held[c] = "closed" => db.state = "half_open"
       /\ held[c] = "open" => db.state # "open" /\ db.opened = 0

(* The state of an OPEN circuit expires no earlier than it has cooled down. *)
OpenedFirst ==
  db.state = "open" => db.opened = Missing \/ db.opened >= db.state_age

SInv ==
  /\ OneMethodRuns
  /\ \A c \in Clients : UpToDate(c) /\ (Running(c) => calls[c] # "none")
  /\ OpenedFirst
(* A client that moves while no other one is in a method. *)
LEMMA SerialMove ==
  ASSUME IInv, SInv, NEW c \in Clients,
         pc[c] \notin Between \/ NoMethodRuns,
         NEW label \in Between \cup Command,
         NEW state \in CircuitState \cup {"none"},
         NEW kind \in {"none", "normal", "probe"},
         Go(c, label, state), Outcome(c, kind),
         UpToDate(c)', Running(c)' => kind # "none", OpenedFirst'
  PROVE  SInv'
<1>1. \A d \in Clients \ {c} : pc[d] \in Between
  BY DEF SInv, OneMethodRuns, NoMethodRuns
<1>2. /\ calls'[c] = kind
      /\ \A d \in Clients \ {c} :
           pc'[d] = pc[d] /\ held'[d] = held[d] /\ calls'[d] = calls[d]
  BY MoveFacts DEF IInv
<1>3. OneMethodRuns'
  BY <1>1, <1>2 DEF OneMethodRuns
<1>4. ASSUME NEW d \in Clients \ {c}
      PROVE  UpToDate(d)' /\ (Running(d) => calls[d] # "none")'
  <2>1. UpToDate(d)'
    BY <1>1, <1>2 DEF UpToDate, Between
  <2>2. Running(d)' => Running(d)
    BY <1>2 DEF Running
  <2>3. QED
    BY <1>2, <2>1, <2>2 DEF SInv
<1>5. QED
  BY <1>2, <1>3, <1>4 DEF SInv

(* A client that leaves its method, while another one may be in one. *)
LEMMA SerialPause ==
  ASSUME IInv, SInv, NEW c \in Clients, NEW label \in {"idle", "down"},
         Go(c, label, "none"), Outcome(c, "none"),
         db'.state = db.state, db'.opened = db.opened, db'.state_age = db.state_age
  PROVE  SInv'
<1>1. /\ pc'[c] = label
      /\ \A d \in Clients \ {c} :
           pc'[d] = pc[d] /\ held'[d] = held[d] /\ calls'[d] = calls[d]
  BY MoveFacts DEF IInv, Between
<1>2. OneMethodRuns' /\ OpenedFirst'
  BY <1>1 DEF SInv, OneMethodRuns, OpenedFirst, Between
<1>3. UpToDate(c)' /\ ~Running(c)'
  BY <1>1 DEF UpToDate, Running
<1>4. ASSUME NEW d \in Clients \ {c}
      PROVE  UpToDate(d)' /\ (Running(d) => calls[d] # "none")'
  BY <1>1 DEF SInv, UpToDate, Running, Cooled
<1>5. QED
  BY <1>2, <1>3, <1>4 DEF SInv

LEMMA AllowSInv ==
  ASSUME Serial, IInv, SInv, NEW c \in Clients,
         AllowRequest(c) \/ ReadOpenedAt(c) \/ TakeLock(c) \/ Recheck(c)
  PROVE  SInv'
<1>0. /\ db \in Keys /\ calls[c] = "none"
      /\ UNCHANGED calls => Outcome(c, "none")
      /\ UpToDate(c) /\ OpenedFirst
      /\ db.state \in CircuitState
  BY AtFacts
     DEF AllowRequest, ReadOpenedAt, TakeLock, Recheck, Outside, SInv, Keys
<1>1. CASE AllowRequest(c)
  <2>0. NoMethodRuns /\ db' = db
    BY <1>1 DEF AllowRequest, MayStart, Serial
  <2>1. PICK label \in {"calling", "read_opened_at", "acquire_probe"},
             kind \in {"none", "normal"} :
          /\ Go(c, label, "none") /\ Outcome(c, kind)
          /\ label = "calling" => kind = "normal"
          /\ label = "read_opened_at" => db.state = "open"
          /\ label = "acquire_probe" => db.state = "half_open"
    <3>1. CASE db.state = "closed"
      BY <1>1, <3>1 DEF AllowRequest, Admit
    <3>2. CASE db.state = "open"
      BY <1>0, <1>1, <3>2 DEF AllowRequest
    <3>3. CASE db.state = "half_open"
      BY <1>0, <1>1, <3>3 DEF AllowRequest
    <3>4. QED
      BY <1>0, <3>1, <3>2, <3>3 DEF CircuitState
  <2>2. label \in Between \cup Command
    BY DEF Between, Command
  <2>3. pc'[c] = label
    BY <2>1, <2>2, MoveFacts DEF IInv
  <2>4. UpToDate(c)' /\ (Running(c)' => kind # "none") /\ OpenedFirst'
    BY <1>0, <2>0, <2>1, <2>3 DEF UpToDate, Running, OpenedFirst
  <2>5. QED
    BY <2>0, <2>1, <2>2, <2>4, SerialMove
<1>2. CASE ReadOpenedAt(c)
  <2>0. pc[c] = "read_opened_at" /\ db' = db
    BY <1>2 DEF ReadOpenedAt
  <2>1. CASE db.opened >= ResetTimeout
    <3>1. Go(c, "take_lock", "none") /\ Outcome(c, "none")
      BY <1>0, <1>2, <2>1 DEF ReadOpenedAt
    <3>2. pc'[c] = "take_lock"
      BY <3>1, MoveFacts DEF IInv, Command
    <3>3. Cooled
      BY <1>0, <2>1, SharedBreakerAssumption DEF Cooled, Keys, Missing
    <3>4. UpToDate(c)' /\ ~Running(c)' /\ OpenedFirst'
      BY <1>0, <2>0, <3>2, <3>3 DEF UpToDate, Running, OpenedFirst, Cooled
    <3>5. QED
      BY <2>0, <3>1, <3>4, SerialMove DEF Between, Command
  <2>2. CASE ~(db.opened >= ResetTimeout)
    BY <1>2, <2>0, <2>2, SerialPause DEF ReadOpenedAt, Leave
  <2>3. QED
    BY <2>1, <2>2
<1>3. CASE TakeLock(c)
  <2>1. CASE db.lock = Missing
    <3>1. /\ pc[c] = "take_lock" /\ Go(c, "recheck", "none") /\ Outcome(c, "none")
          /\ db' = [db EXCEPT !.lock = 0]
      BY <1>0, <1>3, <2>1 DEF TakeLock
    <3>2. db'.state = db.state /\ db'.opened = db.opened /\ db'.state_age = db.state_age
      BY <1>0, <3>1 DEF Keys
    <3>3. pc'[c] = "recheck"
      BY <3>1, MoveFacts DEF IInv, Command
    <3>4. UpToDate(c)' /\ ~Running(c)' /\ OpenedFirst'
      BY <1>0, <3>1, <3>2, <3>3 DEF UpToDate, Running, OpenedFirst, Cooled
    <3>5. QED
      BY <3>1, <3>4, SerialMove DEF Between, Command
  <2>2. CASE db.lock # Missing
    BY <1>3, <2>2, SerialPause DEF TakeLock, Leave
  <2>3. QED
    BY <2>1, <2>2
<1>4. CASE Recheck(c)
  <2>1. /\ pc[c] = "recheck" /\ db.state = "open" /\ Cooled
        /\ Go(c, "read_old_state", "half_open") /\ Outcome(c, "none") /\ db' = db
    BY <1>0, <1>4 DEF Recheck, UpToDate
  <2>2. pc'[c] = "read_old_state" /\ held'[c] = "half_open"
    BY <2>1, MoveFacts DEF IInv, Command, CircuitState
  <2>3. UpToDate(c)' /\ ~Running(c)' /\ OpenedFirst'
    BY <1>0, <2>1, <2>2 DEF UpToDate, Running, OpenedFirst, Cooled
  <2>4. QED
    BY <2>1, <2>3, SerialMove DEF Between, Command, CircuitState
<1>5. QED
  BY <1>1, <1>2, <1>3, <1>4

LEMMA ProbeSInv ==
  ASSUME IInv, SInv, NEW c \in Clients,
         AcquireProbe(c) \/ AcquireProbeLocked(c) \/ Unlock(c)
  PROVE  SInv'
<1>0. /\ db \in Keys /\ OpenedFirst
      /\ calls[c] \in {"none", "normal", "probe"}
      /\ UNCHANGED calls => Outcome(c, calls[c])
      /\ pc[c] \notin Between
  BY AtFacts DEF SInv, AcquireProbe, AcquireProbeLocked, Unlock, Between
<1>1. db'.state = db.state /\ db'.opened = db.opened /\ db'.state_age = db.state_age
  BY <1>0 DEF AcquireProbe, AcquireProbeLocked, Unlock, Keys
<1>2. PICK label \in {"idle", "calling", "unlock"}, kind \in {"none", "normal", "probe"} :
        Go(c, label, "none") /\ Outcome(c, kind) /\ (label = "calling" => kind = "probe")
  BY <1>0 DEF AcquireProbe, AcquireProbeLocked, Unlock, Admit, Leave
<1>3. label \in Between \cup Command
  BY DEF Between, Command
<1>4. pc'[c] = label
  BY <1>2, <1>3, MoveFacts DEF IInv
<1>5. UpToDate(c)' /\ (Running(c)' => kind # "none") /\ OpenedFirst'
  BY <1>0, <1>1, <1>2, <1>4 DEF UpToDate, Running, OpenedFirst
<1>6. QED
  BY <1>0, <1>2, <1>3, <1>5, SerialMove
LEMMA RecordSInv ==
  ASSUME Serial, IInv, SInv, NEW c \in Clients,
         \/ RecordSuccess(c) \/ CountSuccess(c) \/ DropProbe(c) \/ ClearKeys(c)
         \/ RecordFailure(c) \/ CountFailure(c) \/ SetOpenedAt(c)
  PROVE  SInv'
<1>0. /\ db \in Keys /\ db.state \in CircuitState
      /\ calls[c] \in {"none", "normal", "probe"}
      /\ held[c] \in CircuitState \cup {"none"}
      /\ UNCHANGED calls => Outcome(c, calls[c])
      /\ UpToDate(c) /\ OpenedFirst
      /\ Running(c) => calls[c] # "none"
  BY AtFacts DEF SInv, Keys
<1>1. CASE RecordSuccess(c) \/ RecordFailure(c)
  <2>1. PICK label \in {"count_success", "count_failure"} : Go(c, label, db.state)
    BY <1>1 DEF RecordSuccess, RecordFailure
  <2>2. /\ NoMethodRuns /\ pc[c] = "calling" /\ db' = db /\ Outcome(c, calls[c])
        /\ label \in Command
    BY <1>0, <1>1 DEF RecordSuccess, RecordFailure, MayStart, Serial, Command
  <2>3. pc'[c] = label /\ held'[c] = db.state
    BY <1>0, <2>1, <2>2, MoveFacts DEF IInv
  <2>4. UpToDate(c)' /\ calls[c] # "none" /\ OpenedFirst'
    BY <1>0, <2>2, <2>3 DEF UpToDate, Running, OpenedFirst
  <2>5. QED
    BY <1>0, <2>1, <2>2, <2>4, SerialMove
<1>2. CASE CountSuccess(c)
  <2>1. db'.state = db.state /\ db'.opened = db.opened /\ db'.state_age = db.state_age
    BY <1>0, <1>2 DEF CountSuccess, Keys
  <2>2. PICK state \in {"closed", "none"} :
          /\ Go(c, "drop_probe", state)
          /\ state = "closed" => held[c] = "half_open"
    BY <1>2 DEF CountSuccess
  <2>3. pc[c] = "count_success" /\ Outcome(c, calls[c])
    BY <1>0, <1>2 DEF CountSuccess
  <2>4. pc'[c] = "drop_probe" /\ held'[c] = state
    BY <1>0, <2>2, <2>3, MoveFacts DEF IInv, Command, CircuitState
  <2>5. UpToDate(c)' /\ calls[c] # "none" /\ OpenedFirst'
    BY <1>0, <2>1, <2>2, <2>3, <2>4 DEF UpToDate, Running, OpenedFirst
  <2>6. QED
    BY <1>0, <2>2, <2>3, <2>5, SerialMove DEF Between, Command, CircuitState
<1>3. CASE DropProbe(c)
  <2>1. /\ pc[c] = "drop_probe"
        /\ db'.state = db.state /\ db'.opened = db.opened /\ db'.state_age = db.state_age
    BY <1>0, <1>3 DEF DropProbe, Keys
  <2>2. CASE held[c] = "closed"
    <3>1. Go(c, "read_old_state", "closed") /\ Outcome(c, calls[c])
      BY <1>0, <1>3, <2>2 DEF DropProbe
    <3>2. pc'[c] = "read_old_state" /\ held'[c] = "closed"
      BY <1>0, <3>1, MoveFacts DEF IInv, Command, CircuitState
    <3>3. UpToDate(c)' /\ calls[c] # "none" /\ OpenedFirst'
      BY <1>0, <2>1, <2>2, <3>2 DEF UpToDate, Running, OpenedFirst
    <3>4. QED
      BY <1>0, <2>1, <3>1, <3>3, SerialMove DEF Between, Command, CircuitState
  <2>3. CASE held[c] # "closed"
    BY <1>3, <2>1, <2>3, SerialPause DEF DropProbe, Leave
  <2>4. QED
    BY <2>2, <2>3
<1>4. CASE ClearKeys(c)
  <2>1. db.state = "closed" /\ db'.state = "closed"
    BY <1>0, <1>4 DEF ClearKeys, UpToDate, Keys
  <2>2. pc[c] = "clear_keys" /\ Go(c, "idle", "none") /\ Outcome(c, "none")
    BY <1>4 DEF ClearKeys, Leave
  <2>3. pc'[c] = "idle"
    BY <2>2, MoveFacts DEF IInv, Between
  <2>4. UpToDate(c)' /\ ~Running(c)' /\ OpenedFirst'
    BY <2>1, <2>3 DEF UpToDate, Running, OpenedFirst
  <2>5. QED
    BY <2>2, <2>4, SerialMove DEF Between
<1>5. CASE CountFailure(c)
  <2>1. /\ pc[c] = "count_failure"
        /\ db'.state = db.state /\ db'.opened = db.opened /\ db'.state_age = db.state_age
    BY <1>0, <1>5 DEF CountFailure, Keys
  <2>2. CASE Opens(held[c], db'.failures)
    <3>1. Go(c, "set_opened_at", "open") /\ Outcome(c, calls[c])
      BY <1>0, <1>5, <2>2 DEF CountFailure
    <3>2. pc'[c] = "set_opened_at"
      BY <1>0, <3>1, MoveFacts DEF IInv, Command, CircuitState
    <3>3. db.state # "open"
      BY <1>0, <2>1, <2>2 DEF UpToDate, Opens
    <3>4. UpToDate(c)' /\ calls[c] # "none" /\ OpenedFirst'
      BY <1>0, <2>1, <3>2, <3>3 DEF UpToDate, Running, OpenedFirst
    <3>5. QED
      BY <1>0, <2>1, <3>1, <3>4, SerialMove DEF Between, Command, CircuitState
  <2>3. CASE ~Opens(held[c], db'.failures)
    BY <1>5, <2>1, <2>3, SerialPause DEF CountFailure, Leave
  <2>4. QED
    BY <2>2, <2>3
<1>6. CASE SetOpenedAt(c)
  <2>1. /\ pc[c] = "set_opened_at"
        /\ db'.state = db.state /\ db.state # "open" /\ db'.opened = 0
    BY <1>0, <1>6 DEF SetOpenedAt, UpToDate, Keys
  <2>2. Go(c, "read_old_state", "open") /\ Outcome(c, calls[c])
    BY <1>0, <1>6 DEF SetOpenedAt
  <2>3. pc'[c] = "read_old_state" /\ held'[c] = "open"
    BY <1>0, <2>2, MoveFacts DEF IInv, Command, CircuitState
  <2>4. UpToDate(c)' /\ calls[c] # "none" /\ OpenedFirst'
    BY <1>0, <2>1, <2>3 DEF UpToDate, Running, OpenedFirst
  <2>5. QED
    BY <1>0, <2>1, <2>2, <2>4, SerialMove DEF Between, Command, CircuitState
<1>7. QED
  BY <1>1, <1>2, <1>3, <1>4, <1>5, <1>6

(* After _transition the circuit is in the state the client asked for. *)
LEMMA AfterTransitionSInv ==
  ASSUME IInv, SInv, NEW c \in Clients, pc[c] \in {"read_old_state", "set_state"},
         AfterTransition(c), db'.state = held[c], OpenedFirst'
  PROVE  SInv'
<1>0. held[c] \in CircuitState
  BY AtFacts
<1>1. PICK label \in {"acquire_probe_locked", "clear_keys", "idle"} :
        /\ Go(c, label, "none") /\ (Outcome(c, "none") \/ UNCHANGED calls)
        /\ label = "acquire_probe_locked" => held[c] = "half_open"
        /\ label = "clear_keys" => held[c] = "closed"
  <2>1. CASE held[c] = "half_open"
    BY <2>1 DEF AfterTransition
  <2>2. CASE held[c] = "closed"
    BY <2>2 DEF AfterTransition
  <2>3. CASE held[c] = "open"
    BY <2>3 DEF AfterTransition, Leave
  <2>4. QED
    BY <1>0, <2>1, <2>2, <2>3 DEF CircuitState
<1>2. PICK kind \in {"none", "normal", "probe"} : Outcome(c, kind)
  BY <1>1, AtFacts
<1>3. label \in Between \cup Command
  BY DEF Between, Command
<1>4. pc'[c] = label
  BY <1>1, <1>2, <1>3, MoveFacts DEF IInv
<1>5. UpToDate(c)' /\ ~Running(c)'
  BY <1>1, <1>4 DEF UpToDate, Running
<1>6. QED
  BY <1>1, <1>2, <1>3, <1>5, SerialMove DEF Between

LEMMA TransitionSInv ==
  ASSUME IInv, SInv, NEW c \in Clients, ReadOldState(c) \/ SetState(c)
  PROVE  SInv'
<1>0. /\ db \in Keys /\ held[c] \in CircuitState
      /\ calls[c] \in {"none", "normal", "probe"}
      /\ UNCHANGED calls => Outcome(c, calls[c])
      /\ UpToDate(c) /\ OpenedFirst
      /\ Running(c) => calls[c] # "none"
      /\ pc[c] \in {"read_old_state", "set_state"}
  BY AtFacts DEF SInv, ReadOldState, SetState
<1>1. CASE ReadOldState(c) /\ db.state = held[c]
  <2>1. db' = db /\ AfterTransition(c)
    BY <1>1 DEF ReadOldState
  <2>2. OpenedFirst'
    BY <1>0, <2>1 DEF OpenedFirst
  <2>3. QED
    BY <1>0, <1>1, <2>1, <2>2, AfterTransitionSInv
<1>2. CASE ReadOldState(c) /\ db.state # held[c]
  <2>1. Go(c, "set_state", held[c]) /\ Outcome(c, calls[c]) /\ db' = db
    BY <1>0, <1>2 DEF ReadOldState
  <2>2. pc'[c] = "set_state" /\ held'[c] = held[c]
    BY <1>0, <2>1, MoveFacts DEF IInv, Command
  <2>3. UpToDate(c)' /\ (Running(c)' => calls[c] # "none") /\ OpenedFirst'
    BY <1>0, <2>1, <2>2 DEF UpToDate, Running, OpenedFirst, Cooled
  <2>4. QED
    BY <1>0, <2>1, <2>3, SerialMove DEF Between, Command
<1>3. CASE SetState(c)
  <2>1. /\ pc[c] = "set_state" /\ AfterTransition(c) /\ db'.state = held[c]
        /\ held[c] = "open" => db'.state_age = 0 /\ db'.opened = db.opened
    BY <1>0, <1>3 DEF SetState, Keys, CircuitState
  <2>2. OpenedFirst'
    BY <1>0, <2>1 DEF OpenedFirst, UpToDate
  <2>3. QED
    BY <1>0, <2>1, <2>2, AfterTransitionSInv
<1>4. QED
  BY <1>1, <1>2, <1>3

LEMMA ErrorSInv ==
  ASSUME Serial, IInv, SInv, NEW c \in Clients, Abort(c) \/ Resume(c) \/ Construct(c)
  PROVE  SInv'
<1>0. db \in Keys
  BY AtFacts
<1>1. CASE Abort(c)
  <2>1. db'.state = db.state /\ db'.opened = db.opened /\ db'.state_age = db.state_age
    BY <1>0, <1>1 DEF Abort, Keys
  <2>2. QED
    BY <1>1, <2>1, SerialPause DEF Abort
<1>2. CASE Resume(c)
  BY <1>2, SerialPause DEF Resume, Leave
<1>3. CASE Construct(c)
  <2>1. /\ NoMethodRuns /\ db'.state = db.state /\ db'.opened = db.opened
        /\ db'.state_age = 0 /\ UNCHANGED <<pc, held, calls>>
    BY <1>0, <1>3 DEF Construct, MayStart, Serial, Keys
  <2>2. db.opened \in Missing..(StateTTL - 1)
    BY <1>0 DEF Keys
  <2>3. OpenedFirst'
    BY <2>1, <2>2, SharedBreakerAssumption DEF OpenedFirst, Missing
  <2>4. \A d \in Clients : UpToDate(d)'
    BY <2>1 DEF UpToDate, NoMethodRuns, Between
  <2>5. QED
    BY <2>1, <2>3, <2>4 DEF SInv, OneMethodRuns, Running
<1>4. QED
  BY <1>1, <1>2, <1>3
(* The clock moves between methods only, and no older than the state of an *)
(* OPEN circuit is the time it was opened.                                 *)
LEMMA TickFacts ==
  ASSUME IInv, Tick
  PROVE  /\ UNCHANGED <<pc, held, calls>>
         /\ db'.opened = Older(db.opened, StateTTL)
         /\ db'.state_age = Older(db.state_age, StateTTL)
         /\ db'.state = IF db.state_age # Missing /\ db'.state_age = Missing
                        THEN "closed" ELSE db.state
         /\ db.opened \in Missing..(StateTTL - 1)
         /\ db.state_age \in Missing..(StateTTL - 1)
BY DEF IInv, TypeOK, Keys, Tick

LEMMA TickSInv ==
  ASSUME Serial, IInv, SInv, Tick
  PROVE  SInv'
<1>1. NoMethodRuns /\ UNCHANGED <<pc, held, calls>>
  BY TickFacts DEF Tick, Serial
<1>2. \A c \in Clients : UpToDate(c)'
  BY <1>1 DEF UpToDate, NoMethodRuns, Between
<1>3. OpenedFirst'
  BY TickFacts, SharedBreakerAssumption DEF SInv, OpenedFirst, Older, Missing
<1>4. QED
  BY <1>1, <1>2, <1>3 DEF SInv, OneMethodRuns, Running

LEMMA ExpireSInv ==
  ASSUME IInv, SInv, ExpireCounters
  PROVE  SInv'
<1>1. /\ db'.state = db.state /\ db'.opened = db.opened /\ db'.state_age = db.state_age
      /\ UNCHANGED <<pc, held, calls>>
  BY DEF IInv, TypeOK, Keys, ExpireCounters
<1>2. QED
  BY <1>1 DEF SInv, OneMethodRuns, UpToDate, Running, OpenedFirst, Cooled

LEMMA InitSInv == Init => SInv
<1> SUFFICES ASSUME Init PROVE SInv
  OBVIOUS
<1>1. db.state = "closed" /\ \A c \in Clients : pc[c] = "idle"
  BY DEF Init
<1>2. QED
  BY <1>1 DEF SInv, OneMethodRuns, UpToDate, Running, OpenedFirst, Between

LEMMA NextSInv == Serial /\ IInv /\ SInv /\ [Next]_vars => SInv'
<1> SUFFICES ASSUME Serial, IInv, SInv, [Next]_vars PROVE SInv'
  OBVIOUS
<1>1. ASSUME NEW c \in Clients, Proceed(c) \/ Abort(c) \/ Construct(c)
      PROVE  SInv'
  BY <1>1, AllowSInv, ProbeSInv, RecordSInv, TransitionSInv, ErrorSInv DEF Proceed
<1>2. CASE UNCHANGED vars
  BY <1>2 DEF vars, SInv, OneMethodRuns, UpToDate, Running, OpenedFirst, Cooled
<1>3. QED
  BY <1>1, <1>2, TickSInv, ExpireSInv DEF Next

(* While methods do not overlap, what a method has read is still so. *)
THEOREM SerialInvariance == Serial => (Spec => [](IInv /\ SInv))
<1>1. Init => IInv /\ SInv
  BY InitIInv, InitSInv
<1>2. Serial /\ IInv /\ SInv /\ [Next]_vars => (IInv /\ SInv)'
  BY NextIInv, NextSInv
<1>3. ASSUME Serial PROVE Spec => [](IInv /\ SInv)
  <2>1. IInv /\ SInv /\ [Next]_vars => (IInv /\ SInv)'
    BY <1>2, <1>3
  <2>2. QED
    BY <1>1, <2>1, PTL DEF Spec
<1>4. QED
  BY <1>3
-----------------------------------------------------------------------------
(* The refinement.  Most commands do not move the circuit: they are no     *)
(* step of the contract, or the end of a call that changes nothing else.   *)
LEMMA QuietStep ==
  ASSUME IInv, NEW c \in Clients, NEW kind \in {"none", calls[c]}, Outcome(c, kind),
         db'.state = db.state, db.state = "open" => db'.opened = db.opened
  PROVE  [Contract!Next]_(Contract!vars)
<1> DEFINE running == {d \in Clients : calls[d] # "none"}
           cooled  == db.state = "open" /\ Cooled
<1>1. calls' = [calls EXCEPT ![c] = kind] /\ calls \in [Clients -> {"none", "normal", "probe"}]
  BY DEF Outcome, IInv, TypeOK
<1>2. cooled' = cooled
  BY DEF Cooled
<1>3. CASE kind = calls[c]
  BY <1>1, <1>2, <1>3 DEF Contract!vars, Cooled
<1>4. CASE kind = "none" /\ calls[c] # "none"
  <2>1. c \in running /\ running' = running \ {c}
    BY <1>1, <1>4
  <2>2. Contract!End(c)
    BY <1>2, <2>1 DEF Contract!End, Cooled
  <2>3. QED
    BY <2>2 DEF Contract!Next
<1>5. QED
  BY <1>3, <1>4
LEMMA QuietSteps ==
  ASSUME IInv, SInv, NEW c \in Clients,
         \/ ReadOpenedAt(c) \/ TakeLock(c) \/ Recheck(c) \/ Unlock(c)
         \/ RecordSuccess(c) \/ CountSuccess(c) \/ DropProbe(c) \/ ClearKeys(c)
         \/ RecordFailure(c) \/ CountFailure(c) \/ SetOpenedAt(c)
         \/ ReadOldState(c) \/ Abort(c) \/ Resume(c)
  PROVE  [Contract!Next]_(Contract!vars)
<1>0. /\ db \in Keys /\ UpToDate(c)
      /\ calls[c] \in {"none", "normal", "probe"}
      /\ UNCHANGED calls => Outcome(c, calls[c])
      /\ pc[c] \in {"read_old_state", "set_state"} => held[c] \in CircuitState
  BY AtFacts DEF SInv
<1>1. db'.state = db.state /\ (db.state = "open" => db'.opened = db.opened)
  <2>1. CASE ClearKeys(c)
    BY <1>0, <2>1 DEF ClearKeys, UpToDate, Keys
  <2>2. CASE SetOpenedAt(c)
    BY <1>0, <2>2 DEF SetOpenedAt, UpToDate, Keys
  <2>3. CASE CountSuccess(c) \/ DropProbe(c) \/ CountFailure(c)
    BY <1>0, <2>3 DEF CountSuccess, DropProbe, CountFailure, Keys
  <2>4. CASE TakeLock(c) \/ Unlock(c) \/ Abort(c)
    BY <1>0, <2>4 DEF TakeLock, Unlock, Abort, Keys
  <2>5. QED
    BY <2>1, <2>2, <2>3, <2>4
       DEF ReadOpenedAt, Recheck, RecordSuccess, RecordFailure, ReadOldState, Resume
<1>2. UNCHANGED calls \/ Outcome(c, "none")
  <2>1. CASE ReadOldState(c)
    BY <1>0, <2>1 DEF ReadOldState, AfterTransition, Leave, CircuitState
  <2>2. CASE Unlock(c)
    BY <1>0, <2>2 DEF Unlock, Admit, Leave, Outcome, IInv, TypeOK
  <2>3. QED
    BY <2>1, <2>2
       DEF ReadOpenedAt, TakeLock, Recheck, RecordSuccess, CountSuccess, DropProbe,
           ClearKeys, RecordFailure, CountFailure, SetOpenedAt, Abort, Resume, Leave
<1>3. QED
  BY <1>0, <1>1, <1>2, QuietStep

(* The calls that are admitted. *)
LEMMA AdmittingSteps ==
  ASSUME IInv, SInv, NEW c \in Clients,
         AllowRequest(c) \/ AcquireProbe(c) \/ AcquireProbeLocked(c)
  PROVE  [Contract!Next]_(Contract!vars)
<1> DEFINE running == {d \in Clients : calls[d] # "none"}
<1>0. /\ db \in Keys /\ UpToDate(c) /\ calls[c] = "none"
      /\ UNCHANGED calls => Outcome(c, calls[c])
      /\ calls \in [Clients -> {"none", "normal", "probe"}]
  BY AtFacts
     DEF SInv, AllowRequest, AcquireProbe, AcquireProbeLocked, Outside, IInv, TypeOK
<1>1. db'.state = db.state /\ db'.opened = db.opened
  BY <1>0 DEF AllowRequest, AcquireProbe, AcquireProbeLocked, Keys
<1>2. CASE Outcome(c, "normal") /\ db.state = "closed"
  <2>1. c \notin running /\ running' = running \cup {c}
    BY <1>0, <1>2 DEF Outcome
  <2>2. Contract!Admit(c)
    BY <1>1, <1>2, <2>1 DEF Contract!Admit
  <2>3. QED
    BY <2>2 DEF Contract!Next
<1>3. CASE Outcome(c, "probe") /\ db.state = "half_open"
  <2>1. c \notin running /\ running' = running \cup {c}
    BY <1>0, <1>3 DEF Outcome
  <2>2. Contract!Try(c)
    BY <1>1, <1>3, <2>1 DEF Contract!Try
  <2>3. QED
    BY <2>2 DEF Contract!Next
<1>4. CASE UNCHANGED calls \/ Outcome(c, "none")
  BY <1>0, <1>1, <1>4, QuietStep
<1>5. QED
  BY <1>0, <1>2, <1>3, <1>4
     DEF AllowRequest, AcquireProbe, AcquireProbeLocked, Admit, Leave, UpToDate

(* SET state: the circuit moves along the edge that the client saw. *)
LEMMA SetStateStep ==
  ASSUME IInv, SInv, NEW c \in Clients, SetState(c)
  PROVE  [Contract!Next]_(Contract!vars)
<1> DEFINE running == {d \in Clients : calls[d] # "none"}
<1>0. /\ db \in Keys /\ UpToDate(c) /\ held[c] \in CircuitState
      /\ Running(c) => calls[c] # "none"
      /\ calls \in [Clients -> {"none", "normal", "probe"}]
      /\ pc[c] = "set_state" /\ AfterTransition(c)
  BY AtFacts DEF SInv, SetState, IInv, TypeOK
<1>1. db'.state = held[c] /\ db'.opened = db.opened
  BY <1>0 DEF SetState, Keys
<1>2. CASE held[c] = "half_open"
  <2>1. db.state = "open" /\ Cooled /\ calls' = calls
    BY <1>0, <1>2 DEF UpToDate, AfterTransition
  <2>2. Contract!Prepare
    BY <1>1, <1>2, <2>1 DEF Contract!Prepare, Cooled
  <2>3. QED
    BY <2>2 DEF Contract!Next
<1>3. CASE held[c] # "half_open"
  <2>1. calls[c] # "none" /\ Outcome(c, "none")
    BY <1>0, <1>3 DEF Running, AfterTransition, Leave, CircuitState
  <2>2. c \in running /\ running' = running \ {c}
    BY <1>0, <2>1 DEF Outcome
  <2>3. CASE held[c] = "closed"
    <3>1. db.state = "half_open"
      BY <1>0, <2>3 DEF UpToDate
    <3>2. Contract!End(c)
      BY <1>1, <2>2, <2>3, <3>1 DEF Contract!End
    <3>3. QED
      BY <3>2 DEF Contract!Next
  <2>4. CASE held[c] = "open"
    <3>1. db.state \in {"closed", "half_open"} /\ ~Cooled /\ ~Cooled'
      BY <1>0, <1>1, <2>4, SharedBreakerAssumption
         DEF UpToDate, Keys, CircuitState, Cooled
    <3>2. Contract!End(c)
      BY <1>1, <2>2, <2>4, <3>1 DEF Contract!End, Cooled
    <3>3. QED
      BY <3>2 DEF Contract!Next
  <2>5. QED
    BY <1>0, <1>3, <2>3, <2>4 DEF CircuitState
<1>4. QED
  BY <1>2, <1>3

(* The clock lets an OPEN circuit cool down, and forgets the circuit when  *)
(* its state expires; an OPEN one has cooled down by then.                 *)
LEMMA TickStep ==
  ASSUME IInv, SInv, Tick
  PROVE  [Contract!Next]_(Contract!vars)
<1>0. /\ db.opened \in Missing..(StateTTL - 1)
      /\ db.state_age \in Missing..(StateTTL - 1)
      /\ OpenedFirst
      /\ calls' = calls
      /\ db'.opened = Older(db.opened, StateTTL)
      /\ db'.state_age = Older(db.state_age, StateTTL)
      /\ db'.state = IF db.state_age # Missing /\ db'.state_age = Missing
                     THEN "closed" ELSE db.state
  BY TickFacts DEF SInv
<1>1. CASE db.state_age # Missing /\ db'.state_age = Missing
  <2>1. db.state_age = StateTTL - 1
    BY <1>0, <1>1, SharedBreakerAssumption DEF Older, Missing
  <2>2. db.state = "open" => Cooled
    BY <1>0, <2>1, SharedBreakerAssumption DEF OpenedFirst, Cooled, Missing
  <2>3. Contract!Forget
    BY <1>0, <1>1, <2>2 DEF Contract!Forget, Cooled
  <2>4. QED
    BY <2>3 DEF Contract!Next
<1>2. CASE ~(db.state_age # Missing /\ db'.state_age = Missing)
  <2>1. db'.state = db.state
    BY <1>0, <1>2
  <2>2. Cooled => Cooled'
    BY <1>0, SharedBreakerAssumption DEF Cooled, Older, Missing
  <2>3. CASE db.state = "open" /\ Cooled'
    <3>1. Contract!Cool
      BY <1>0, <2>1, <2>3 DEF Contract!Cool, Cooled
    <3>2. QED
      BY <3>1 DEF Contract!Next
  <2>4. CASE ~(db.state = "open" /\ Cooled')
    BY <1>0, <2>1, <2>2, <2>4 DEF Contract!vars, Cooled
  <2>5. QED
    BY <2>3, <2>4
<1>3. QED
  BY <1>1, <1>2

LEMMA StepRefinesContract ==
  IInv /\ SInv /\ [Next]_vars => [Contract!Next]_(Contract!vars)
<1> SUFFICES ASSUME IInv, SInv, [Next]_vars
             PROVE  [Contract!Next]_(Contract!vars)
  OBVIOUS
<1>1. ASSUME NEW c \in Clients, Proceed(c) \/ Abort(c)
      PROVE  [Contract!Next]_(Contract!vars)
  BY <1>1, QuietSteps, AdmittingSteps, SetStateStep DEF Proceed
<1>2. ASSUME NEW c \in Clients, Construct(c)
      PROVE  [Contract!Next]_(Contract!vars)
  BY <1>2 DEF Construct, Contract!vars, IInv, TypeOK, Keys
<1>3. CASE Tick
  BY <1>3, TickStep
<1>4. CASE ExpireCounters
  BY <1>4 DEF ExpireCounters, Contract!vars, IInv, TypeOK, Keys
<1>5. CASE UNCHANGED vars
  BY <1>5 DEF vars, Contract!vars
<1>6. QED
  BY <1>1, <1>2, <1>3, <1>4, <1>5 DEF Next

(* While methods do not overlap, the circuit kept in Redis implements the  *)
(* same contract as the one in memory, though a RedisError or a crash may  *)
(* cut any method short and its keys expire.                               *)
THEOREM SerialImplementsContract == Serial => (Spec => ContractSpec)
<1>1. Init => Contract!Init
  BY DEF Init, Contract!Init
<1>2. ASSUME Serial PROVE Spec => ContractSpec
  <2>1. Spec => [](IInv /\ SInv)
    BY <1>2, SerialInvariance
  <2>2. QED
    BY <1>1, <2>1, StepRefinesContract, PTL DEF Spec, ContractSpec, Contract!Spec
<1>3. QED
  BY <1>2

(* While methods do not overlap, no method takes the opened_at away from   *)
(* an OPEN circuit: the DEL of record_success finds the circuit CLOSED.    *)
THEOREM SerialKeepsOpenedAt == Serial => (Spec => KeepsOpenedAt)
<1>1. ASSUME IInv, SInv, [Next]_vars
      PROVE  db.state = "open" /\ db'.state = "open" /\ db'.opened = Missing
               => db.opened = Missing \/ Tick
  <2> SUFFICES ASSUME db.state = "open", db'.state = "open",
                      db'.opened = Missing, db.opened # Missing
               PROVE  Tick
    OBVIOUS
  <2>0. db \in Keys
    BY <1>1 DEF IInv, TypeOK
  <2>1. ASSUME NEW c \in Clients, Proceed(c) \/ Abort(c) \/ Construct(c)
        PROVE  db'.opened # Missing
    <3>1. CASE ClearKeys(c)
      BY <1>1, <3>1 DEF ClearKeys, SInv, UpToDate
    <3>2. CASE SetOpenedAt(c)
      BY <2>0, <3>2 DEF SetOpenedAt, Keys, Missing
    <3>3. CASE ~ClearKeys(c) /\ ~SetOpenedAt(c)
      BY <1>1, <2>0, <2>1, <3>3
         DEF Proceed, Resume, AllowRequest, ReadOpenedAt, TakeLock, Recheck,
             AcquireProbe, AcquireProbeLocked, Unlock, RecordSuccess, CountSuccess,
             DropProbe, RecordFailure, CountFailure, ReadOldState, SetState,
             Abort, Construct, Keys
    <3>4. QED
      BY <3>1, <3>2, <3>3
  <2>2. CASE ExpireCounters
    BY <1>1, <2>0, <2>2 DEF ExpireCounters, Keys
  <2>3. CASE UNCHANGED vars
    BY <1>1, <2>3 DEF vars
  <2>4. QED
    BY <1>1, <2>1, <2>2, <2>3 DEF Next
<1>2. ASSUME Serial PROVE Spec => KeepsOpenedAt
  <2>1. Spec => [](IInv /\ SInv)
    BY <1>2, SerialInvariance
  <2>2. QED
    BY <1>1, <2>1, PTL DEF Spec, KeepsOpenedAt
<1>3. QED
  BY <1>2
=============================================================================
