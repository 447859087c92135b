------------------------ MODULE BreakerCalls_proofs ------------------------
(***************************************************************************)
(* What the circuit breaker guarantees for every threshold, every recovery *)
(* timeout and every set of callers.                                       *)
(***************************************************************************)
EXTENDS BreakerCalls, TLAPS

(* The strengthening: the three properties lean on each other, because     *)
(* what closes the breaker also resets the counter.                        *)
BreakerInv == TypeOK /\ ClosedIffBelowThreshold /\ HalfOpenIsCooled

(* The initial state satisfies it. *)
LEMMA BreakerInit == Init => BreakerInv
  BY BreakerAssumption
  DEF BreakerInv, TypeOK, CBTypeOK, ClosedIffBelowThreshold, HalfOpenIsCooled,
      Init, CBInit, States

(* A read of `state' preserves the breaker's part of the invariant. *)
LEMMA ReadStateInv ==
  ASSUME CBTypeOK, ClosedIffBelowThreshold, HalfOpenIsCooled, ReadState
  PROVE  CBTypeOK' /\ ClosedIffBelowThreshold' /\ HalfOpenIsCooled'
  BY BreakerAssumption
  DEF CBTypeOK, ClosedIffBelowThreshold, HalfOpenIsCooled, ReadState, Current,
      States

(* So does a success, whoever reports it and whenever it arrives. *)
LEMMA RecordSuccessInv ==
  ASSUME CBTypeOK, ClosedIffBelowThreshold, HalfOpenIsCooled, RecordSuccess
  PROVE  CBTypeOK' /\ ClosedIffBelowThreshold' /\ HalfOpenIsCooled'
  BY BreakerAssumption
  DEF CBTypeOK, ClosedIffBelowThreshold, HalfOpenIsCooled, RecordSuccess, States

(* And a failure, of a probe or of a call that is late. *)
LEMMA RecordFailureInv ==
  ASSUME CBTypeOK, ClosedIffBelowThreshold, HalfOpenIsCooled, RecordFailure
  PROVE  CBTypeOK' /\ ClosedIffBelowThreshold' /\ HalfOpenIsCooled'
<1>1. /\ failures' = failures + 1
      /\ age' = 0
      /\ cbState' = IF Trips THEN "open" ELSE cbState
  BY DEF RecordFailure
<1>2. CASE Trips
  <2>1. failures' >= Threshold
    BY <1>1, <1>2, BreakerAssumption
    DEF Trips, CBTypeOK, ClosedIffBelowThreshold
  <2> QED
    BY <1>1, <1>2, <2>1, BreakerAssumption
    DEF CBTypeOK, ClosedIffBelowThreshold, HalfOpenIsCooled, States
<1>3. CASE ~Trips
  BY <1>1, <1>3, BreakerAssumption
  DEF Trips, CBTypeOK, ClosedIffBelowThreshold, HalfOpenIsCooled, States
<1> QED BY <1>2, <1>3

(* Time only makes the last failure older. *)
LEMMA ClockTickInv ==
  ASSUME CBTypeOK, ClosedIffBelowThreshold, HalfOpenIsCooled, ClockTick
  PROVE  CBTypeOK' /\ ClosedIffBelowThreshold' /\ HalfOpenIsCooled'
  BY BreakerAssumption
  DEF CBTypeOK, ClosedIffBelowThreshold, HalfOpenIsCooled, ClockTick, States

(* Every step of any caller preserves the invariant. *)
LEMMA BreakerStep == BreakerInv /\ [Next]_vars => BreakerInv'
<1> SUFFICES ASSUME BreakerInv, [Next]_vars PROVE BreakerInv'
  OBVIOUS
<1> USE DEF BreakerInv, TypeOK
<1>1. ASSUME NEW c \in Callers, Request(c) PROVE BreakerInv'
  <2>1. calls' \subseteq Callers  BY <1>1 DEF Request
  <2> QED  BY <1>1, <2>1, ReadStateInv DEF Request
<1>2. ASSUME NEW c \in Callers, Succeed(c) PROVE BreakerInv'
  BY <1>2, RecordSuccessInv, ReadStateInv DEF Succeed, SuccessThenRead
<1>3. ASSUME NEW c \in Callers, Fail(c) PROVE BreakerInv'
  BY <1>3, RecordFailureInv DEF Fail
<1>4. ASSUME NEW C \in SUBSET calls, Abandon(C) PROVE BreakerInv'
  <2>1. CASE ReadState
    BY <1>4, <2>1, ReadStateInv DEF Abandon
  <2>2. CASE UNCHANGED cbVars
    BY <1>4, <2>2 DEF Abandon, cbVars, CBTypeOK, ClosedIffBelowThreshold,
                     HalfOpenIsCooled
  <2> QED  BY <1>4, <2>1, <2>2 DEF Abandon
<1>5. ASSUME Poll PROVE BreakerInv'
  BY <1>5, ReadStateInv DEF Poll
<1>6. ASSUME Tick PROVE BreakerInv'
  BY <1>6, ClockTickInv DEF Tick
<1>7. ASSUME UNCHANGED vars PROVE BreakerInv'
  BY <1>7 DEF vars, cbVars, CBTypeOK, ClosedIffBelowThreshold, HalfOpenIsCooled
<1> QED
  BY <1>1, <1>2, <1>3, <1>4, <1>5, <1>6, <1>7 DEF Next

LEMMA BreakerInvariant == Spec => []BreakerInv
  BY BreakerInit, BreakerStep, PTL DEF Spec

(* The breaker's state and counters keep their types. *)
THEOREM BreakerTypeCorrect == Spec => []TypeOK
  BY BreakerInvariant, PTL DEF BreakerInv

(* The breaker is closed exactly while fewer than `failure_threshold'      *)
(* failures are on record, whatever late answers arrive.                   *)
THEOREM BreakerAgreesWithCounter == Spec => []ClosedIffBelowThreshold
  BY BreakerInvariant, PTL DEF BreakerInv

(* HALF_OPEN is only seen a full recovery_timeout after the last failure.  *)
THEOREM BreakerCoolsDown == Spec => []HalfOpenIsCooled
  BY BreakerInvariant, PTL DEF BreakerInv

(* No call is let through within recovery_timeout of the failure that      *)
(* opened the breaker.                                                     *)
THEOREM BreakerBlocksWhileHot == Spec => BlockedWhileHot
<1> DEFINE A == \A c \in Callers :
                   (c \in calls' /\ c \notin calls) =>
                      (failures < Threshold \/ age = Timeout)
<1>1. BreakerInv /\ [Next]_vars => [A]_vars
  <2> SUFFICES ASSUME BreakerInv, Next,
                      NEW c \in Callers, c \in calls', c \notin calls
               PROVE  failures < Threshold \/ age = Timeout
    OBVIOUS
  <2>1. Request(c)
    BY DEF Next, Request, Succeed, Fail, Abandon, Poll, Tick
  <2>2. Current # "open"
    BY <2>1 DEF Request, Allows
  <2> QED
    BY <2>2 DEF Current, BreakerInv, TypeOK, CBTypeOK, States,
                ClosedIffBelowThreshold, HalfOpenIsCooled
<1> QED
  BY <1>1, BreakerInvariant, PTL DEF Spec, BlockedWhileHot

(* Only a HALF_OPEN breaker closes, and only closing forgets failures. *)
THEOREM BreakerClosesFromHalfOpen == Spec => OnlyHalfOpenCloses
<1> DEFINE A == /\ (cbState' = "closed" /\ cbState # "closed")
                      => cbState = "half_open"
                /\ failures' < failures
                      => (cbState # "closed" /\ cbState' = "closed")
<1>1. BreakerInv /\ [Next]_vars => [A]_cbVars
  <2> SUFFICES ASSUME BreakerInv, Next PROVE A
    BY DEF vars
  <2> USE DEF BreakerInv, TypeOK, CBTypeOK, States
  <2>1. ASSUME ReadState PROVE A
    BY <2>1 DEF ReadState, Current
  <2>2. ASSUME RecordSuccess PROVE A
    BY <2>2 DEF RecordSuccess
  <2>3. ASSUME RecordFailure PROVE A
    BY <2>3 DEF RecordFailure
  <2>4. ASSUME ClockTick PROVE A
    BY <2>4 DEF ClockTick
  <2>5. ASSUME UNCHANGED cbVars PROVE A
    BY <2>5 DEF cbVars
  <2> QED
    BY <2>1, <2>2, <2>3, <2>4, <2>5
    DEF Next, Request, Succeed, SuccessThenRead, Fail, Abandon, Poll, Tick
<1> QED
  BY <1>1, BreakerInvariant, PTL DEF Spec, OnlyHalfOpenCloses
=============================================================================
