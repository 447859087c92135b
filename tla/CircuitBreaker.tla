--------------------------- MODULE CircuitBreaker ---------------------------
(***************************************************************************)
(* The state of luna/llm_bridge/circuit_breaker.py and its operations, as  *)
(* action fragments for the modules whose tasks call it: BreakerCalls      *)
(* (any callers) and ChatTurns (the chat session).                         *)
(*                                                                         *)
(* The breaker has no timer of its own: OPEN turns into HALF_OPEN only     *)
(* when somebody reads the `state' property after the recovery timeout.    *)
(* The monotonic clock appears only as the age of the last recorded        *)
(* failure, which saturates at the timeout because the code compares it    *)
(* with nothing else.  _total_trips is only reported, never read, and is   *)
(* left out.                                                               *)
(***************************************************************************)
EXTENDS Naturals

CONSTANTS
    Threshold,      \* failure_threshold
    Timeout,        \* recovery_timeout, in clock ticks
    MaxFailures     \* bound on failures recorded between two resets

ASSUME BreakerAssumption ==
    /\ Threshold \in Nat \ {0}
    /\ Timeout \in Nat \ {0}
    /\ MaxFailures \in Nat

VARIABLES
    cbState,        \* _state
    failures,       \* _failure_count
    age             \* min(now - _last_failure_time, recovery_timeout)

cbVars == <<cbState, failures, age>>

States == {"closed", "open", "half_open"}

CBTypeOK ==
    /\ cbState \in States
    /\ failures \in Nat
    /\ age \in 0..Timeout

CBInit ==
    /\ cbState = "closed"
    /\ failures = 0
    /\ age = Timeout        \* _last_failure_time = 0.0, long ago

(* Mutant of Current: OPEN never cools down. *)
CurrentStuck == cbState

(* What the `state' property returns, and leaves behind. *)
Current == IF cbState = "open" /\ age = Timeout THEN "half_open" ELSE cbState

ReadState == cbState' = Current /\ UNCHANGED <<failures, age>>

(* allow_request: the answer; the caller also performs ReadState. *)
Allows == Current # "open"

RecordSuccess ==
    /\ \/ /\ cbState = "half_open"
          /\ cbState' = "closed"
          /\ failures' = 0
       \/ /\ cbState # "half_open"
          /\ UNCHANGED <<cbState, failures>>
    /\ UNCHANGED age

(* record_success, then a read of `state' before the caller awaits again:  *)
(* ChatSession._record_cycle stores the state in every cycle record.       *)
SuccessThenRead ==
    \/ cbState = "half_open" /\ RecordSuccess
    \/ cbState # "half_open" /\ ReadState

Trips == cbState = "half_open" \/ failures + 1 >= Threshold

RecordFailure ==
    /\ failures < MaxFailures
    /\ failures' = failures + 1
    /\ age' = 0
    /\ cbState' = IF Trips THEN "open" ELSE cbState

(* Time passes since the last failure. *)
ClockTick ==
    /\ age < Timeout
    /\ age' = age + 1
    /\ UNCHANGED <<cbState, failures>>
=============================================================================
