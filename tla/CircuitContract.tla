-------------------------- MODULE CircuitContract --------------------------
(***************************************************************************)
(* What a circuit breaker promises its callers, whatever it keeps its      *)
(* state in: the CLOSED -> OPEN -> HALF_OPEN -> CLOSED machine, no call    *)
(* admitted by an OPEN circuit before it has cooled down since it last     *)
(* opened, and a circuit that moves only when a call is admitted or ends.  *)
(* Thresholds, counters and the probe are the business of an               *)
(* implementation.                                                         *)
(***************************************************************************)
CONSTANTS
  Callers,
  Forgets    \* TRUE where a circuit that has not moved for long is forgotten

VARIABLES
  state,     \* the circuit
  cooled,    \* the reset timeout has elapsed since the circuit last opened
  running    \* callers whose call was admitted and has not ended

vars == <<state, cooled, running>>

Init ==
  /\ state = "closed"
  /\ cooled = FALSE
  /\ running = {}

(* A CLOSED circuit admits every call. *)
Admit(c) ==
  /\ state = "closed"
  /\ c \notin running
  /\ running' = running \cup {c}
  /\ UNCHANGED <<state, cooled>>

(* Recovery is tried by admitting a call, once the circuit is cool. *)
Try(c) ==
  /\ state = "half_open" \/ (state = "open" /\ cooled)
  /\ c \notin running
  /\ state' = "half_open"
  /\ cooled' = FALSE
  /\ running' = running \cup {c}

(* The circuit may turn HALF_OPEN before the call that tries it is         *)
(* admitted, and that call may then never come.                            *)
Prepare ==
  /\ state = "open" /\ cooled
  /\ state' = "half_open"
  /\ cooled' = FALSE
  /\ UNCHANGED running

(* A call that ends leaves the circuit alone or moves it along one edge.   *)
End(c) ==
  /\ c \in running
  /\ running' = running \ {c}
  /\ \/ UNCHANGED <<state, cooled>>
     \/ /\ state \in {"closed", "half_open"}
        /\ state' = "open"
        /\ cooled' = FALSE
     \/ /\ state = "half_open"
        /\ state' = "closed"
        /\ UNCHANGED cooled

Cool ==
  /\ state = "open"
  /\ cooled' = TRUE
  /\ UNCHANGED <<state, running>>

(* A forgotten circuit starts again CLOSED, but an OPEN one is forgotten   *)
(* only once it has cooled down.                                           *)
Forget ==
  /\ Forgets
  /\ state = "open" => cooled
  /\ state' = "closed"
  /\ cooled' = FALSE
  /\ UNCHANGED running

Next ==
  \/ \E c \in Callers : Admit(c) \/ Try(c) \/ End(c)
  \/ Prepare
  \/ Cool
  \/ Forget

Spec == Init /\ [][Next]_vars
=============================================================================
