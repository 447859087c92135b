---------------------------- MODULE BreakerCalls ----------------------------
(***************************************************************************)
(* The circuit breaker with the tasks that call it, each with at most one  *)
(* LLM call in flight.  This is what the breaker promises to any set of    *)
(* callers; ChatTurns is shown to implement it.                            *)
(***************************************************************************)
EXTENDS CircuitBreaker

CONSTANT Callers        \* the tasks that may have an LLM call in flight

VARIABLE calls          \* callers whose request was let through, unanswered

vars == <<cbVars, calls>>

Init == CBInit /\ calls = {}

Request(c) ==
    /\ c \notin calls
    /\ ReadState
    /\ calls' = IF Allows THEN calls \cup {c} ELSE calls

Succeed(c) ==
    /\ c \in calls
    /\ RecordSuccess \/ SuccessThenRead
    /\ calls' = calls \ {c}

Fail(c) == c \in calls /\ RecordFailure /\ calls' = calls \ {c}

(* Calling tasks are cancelled: no verdict is recorded.  Whoever cancels   *)
(* them may save the breaker's state on the way (session_state.json).      *)
Abandon(C) ==
    /\ calls' = calls \ C
    /\ ReadState \/ UNCHANGED cbVars

(* The dashboard reads `state' outside any call. *)
Poll == ReadState /\ UNCHANGED calls

Tick == ClockTick /\ UNCHANGED calls

Next ==
    \/ \E c \in Callers : Request(c) \/ Succeed(c) \/ Fail(c)
    \/ \E C \in SUBSET calls : Abandon(C)
    \/ Poll
    \/ Tick

Spec == Init /\ [][Next]_vars

(* Time passes, and callers keep asking: a user who writes, or a dashboard *)
(* that polls. Neither is promised that a call returns.                    *)
FairSpec == Spec /\ WF_vars(Tick) /\ WF_vars(Poll)

-----------------------------------------------------------------------------
TypeOK == CBTypeOK /\ calls \subseteq Callers

(* The stored state and the counter never disagree: the breaker is closed  *)
(* exactly while fewer than `failure_threshold' failures are on record.    *)
(* Failures of late calls that arrive while it is OPEN, and probes that    *)
(* fail, must not disturb this.                                            *)
ClosedIffBelowThreshold == cbState = "closed" <=> failures < Threshold

(* HALF_OPEN is only ever seen after a full recovery_timeout without a     *)
(* recorded failure.                                                       *)
HalfOpenIsCooled == cbState = "half_open" => age = Timeout

(* No call is let through within recovery_timeout of the failure that      *)
(* opened the breaker, however late answers of older calls are ordered.    *)
BlockedWhileHot ==
    [][\A c \in Callers :
          (c \in calls' /\ c \notin calls) =>
             (failures < Threshold \/ age = Timeout)]_vars

(* An answer that arrives while the breaker is OPEN never closes it, and   *)
(* the failures on record are forgotten only by closing it.                *)
OnlyHalfOpenCloses ==
    [][/\ (cbState' = "closed" /\ cbState # "closed") => cbState = "half_open"
       /\ failures' < failures => (cbState # "closed" /\ cbState' = "closed")]_cbVars

(* A breaker that is OPEN does not stay so for ever: failures of calls     *)
(* that were already in flight can only postpone the probe.                *)
EventuallyProbes == (cbState = "open") ~> (cbState = "half_open")
=============================================================================
