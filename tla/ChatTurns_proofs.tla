------------------------- MODULE ChatTurns_proofs -------------------------
(***************************************************************************)
(* The chat session, for every threshold, timeout and retry count: its     *)
(* types, that it uses the breaker as BreakerCalls promises, and that a    *)
(* turn which meets no other never loses its own evolution.  (Two turns    *)
(* that overlap may: the run turns_lost_update.)                           *)
(***************************************************************************)
EXTENDS ChatTurns, TLAPS

(* What one call of Speak leaves behind, turn by turn. *)
LEMMA SpeakTypes ==
  ASSUME TypeOK, NEW o \in Origins, NEW n \in {0, 1}, Speak(o, n),
         UNCHANGED <<running, alone, quiet>>
  PROVE  TypeOK'
<1> USE DEF TypeOK, CBTypeOK, States
<1>1. /\ cbState' \in States /\ failures' \in Nat /\ age' \in 0..Timeout
      /\ llmReady' \in BOOLEAN
  BY DEF Speak, ReadState, Current
<1>2. CASE /\ EvolveFrom(psi, n)
           /\ own' = [own EXCEPT ![o] = @ \cup NewSteps(n)]
           /\ saved' = [saved EXCEPT ![o] = Backup]
           /\ attempt' = [attempt EXCEPT ![o] = 0]
           /\ pc' = [pc EXCEPT ![o] = "llm"]
  <2>1. steps' \in Nat /\ steps <= steps' /\ psi' \subseteq 1..steps'
    BY <1>2 DEF EvolveFrom, NewSteps
  <2>2. own' \in [Origins -> SUBSET (1..steps')]
    BY <1>2, <2>1 DEF EvolveFrom, NewSteps
  <2>3. saved' \in [Origins -> SUBSET (1..steps')]
    BY <1>2, <2>1 DEF Backup
  <2>4. attempt' \in [Origins -> 0..RetryMax]
    BY <1>2, TurnAssumption
  <2> QED  BY <1>1, <1>2, <2>1, <2>2, <2>3, <2>4
<1>3. CASE /\ EvolveFrom(psi, n + 1)
           /\ own' = [own EXCEPT ![o] = @ \cup NewSteps(n + 1)]
           /\ pc' = [pc EXCEPT ![o] = "persist"]
           /\ UNCHANGED <<attempt, saved>>
  <2>1. steps' \in Nat /\ steps <= steps' /\ psi' \subseteq 1..steps'
    BY <1>3 DEF EvolveFrom, NewSteps
  <2>2. own' \in [Origins -> SUBSET (1..steps')]
    BY <1>3, <2>1 DEF EvolveFrom, NewSteps
  <2>3. saved' \in [Origins -> SUBSET (1..steps')]
    BY <1>3, <2>1
  <2> QED  BY <1>1, <1>3, <2>1, <2>2, <2>3
<1> QED  BY <1>2, <1>3 DEF Speak

LEMMA AnswerTypes ==
  ASSUME TypeOK, NEW o \in Origins, NEW base \in SUBSET (1..steps),
         Answer(o, base), cbState' \in States, failures' \in Nat,
         age' \in 0..Timeout
  PROVE  TypeOK'
<1> USE DEF TypeOK, CBTypeOK
<1>1. steps' \in Nat /\ steps <= steps' /\ psi' \subseteq 1..steps'
  BY DEF Answer, EvolveFrom, NewSteps
<1>2. own' \in [Origins -> SUBSET (1..steps')]
  BY <1>1 DEF Answer, EvolveFrom, NewSteps
<1>3. saved' \in [Origins -> SUBSET (1..steps')]
  BY <1>1 DEF Answer
<1> QED  BY <1>1, <1>2, <1>3 DEF Answer

LEMMA StepTypes ==
  ASSUME TypeOK, RoomFor(1), EvolveFrom(psi, 1),
         UNCHANGED <<cbVars, running, turnVars, quiet>>
  PROVE  TypeOK'
<1> USE DEF TypeOK, CBTypeOK
<1>1. steps' \in Nat /\ steps <= steps' /\ psi' \subseteq 1..steps'
  BY DEF EvolveFrom, NewSteps
<1>2. own' \in [Origins -> SUBSET (1..steps')]
  BY <1>1 DEF turnVars
<1>3. saved' \in [Origins -> SUBSET (1..steps')]
  BY <1>1 DEF turnVars
<1> QED  BY <1>1, <1>2, <1>3 DEF cbVars, turnVars

LEMMA TypeInit == Init => TypeOK
  BY BreakerAssumption, TurnAssumption
  DEF Init, CBInit, TypeOK, CBTypeOK, States

LEMMA TypeStep == TypeOK /\ [Next]_vars => TypeOK'
<1> SUFFICES ASSUME TypeOK, [Next]_vars PROVE TypeOK'
  OBVIOUS
<1> USE BreakerAssumption, TurnAssumption
<1>1. ASSUME NEW o \in Origins, Begin(o) PROVE TypeOK'
  <2> USE DEF TypeOK, CBTypeOK
  <2>1. steps' \in Nat /\ steps <= steps' /\ psi' \subseteq 1..steps'
    BY <1>1 DEF Begin, EvolveFrom, NewSteps
  <2>2. own' \in [Origins -> SUBSET (1..steps')]
    BY <1>1, <2>1 DEF Begin, EvolveFrom, NewSteps
  <2>3. saved' \in [Origins -> SUBSET (1..steps')]
    BY <1>1, <2>1 DEF Begin
  <2> QED  BY <1>1, <2>1, <2>2, <2>3 DEF Begin, cbVars
<1>2. ASSUME NEW o \in Origins, Think(o) PROVE TypeOK'
  <2>1. CASE Speak(o, 1)
    BY <1>2, <2>1, SpeakTypes DEF Think
  <2>2. CASE /\ EvolveFrom(psi, 1)
             /\ own' = [own EXCEPT ![o] = @ \cup NewSteps(1)]
             /\ pc' = [pc EXCEPT ![o] = "dream"]
             /\ UNCHANGED <<cbVars, attempt, saved, llmReady>>
    <3> USE DEF TypeOK, CBTypeOK
    <3>1. steps' \in Nat /\ steps <= steps' /\ psi' \subseteq 1..steps'
      BY <2>2 DEF EvolveFrom, NewSteps
    <3>2. own' \in [Origins -> SUBSET (1..steps')]
      BY <2>2, <3>1 DEF EvolveFrom, NewSteps
    <3>3. saved' \in [Origins -> SUBSET (1..steps')]
      BY <2>2, <3>1
    <3> QED  BY <1>2, <2>2, <3>1, <3>2, <3>3 DEF Think, cbVars
  <2> QED  BY <1>2, <2>1, <2>2 DEF Think
<1>3. ASSUME NEW o \in Origins, DreamEnds(o) PROVE TypeOK'
  BY <1>3, SpeakTypes DEF DreamEnds
<1>4. ASSUME NEW o \in Origins, AttemptFails(o) PROVE TypeOK'
  <2>1. attempt' \in [Origins -> 0..RetryMax]
    BY <1>4 DEF AttemptFails, TypeOK
  <2> QED  BY <1>4, <2>1 DEF AttemptFails, TypeOK, CBTypeOK, cbVars, psiVars
<1>5. ASSUME NEW o \in Origins, LLMReturns(o) PROVE TypeOK'
  <2>1. cbState' \in States /\ failures' \in Nat /\ age' \in 0..Timeout
    BY <1>5 DEF LLMReturns, SuccessThenRead, RecordSuccess, ReadState, Current,
                TypeOK, CBTypeOK, States
  <2>2. psi \in SUBSET (1..steps)
    BY DEF TypeOK
  <2> QED  BY <1>5, <2>1, <2>2, AnswerTypes DEF LLMReturns
<1>6. ASSUME NEW o \in Origins, LLMFails(o) PROVE TypeOK'
  <2>1. cbState' \in States /\ failures' \in Nat /\ age' \in 0..Timeout
    BY <1>6 DEF LLMFails, RecordFailure, TypeOK, CBTypeOK, States
  <2>2. saved[o] \in SUBSET (1..steps)
    BY DEF TypeOK
  <2> QED  BY <1>6, <2>1, <2>2, AnswerTypes DEF LLMFails
<1>7. ASSUME NEW o \in Origins, Finish(o) PROVE TypeOK'
  <2>1. cbState' \in States /\ failures' \in Nat /\ age' \in 0..Timeout
    BY <1>7 DEF Finish, SavesState, ReadState, Current, cbVars, TypeOK,
                CBTypeOK, States
  <2>2. own' \in [Origins -> SUBSET (1..steps)]
    BY <1>7 DEF Finish, TypeOK
  <2> QED  BY <1>7, <2>1, <2>2 DEF Finish, psiVars, TypeOK, CBTypeOK
<1>14. ASSUME NEW o \in Origins, Aborts(o) PROVE TypeOK'
  BY <1>14 DEF Aborts, TypeOK, CBTypeOK, cbVars, psiVars
<1>8. ASSUME HeartbeatStep PROVE TypeOK'
  BY <1>8, StepTypes DEF HeartbeatStep
<1>9. ASSUME IdleThought PROVE TypeOK'
  BY <1>9, StepTypes DEF IdleThought
<1>10. ASSUME Poll PROVE TypeOK'
  BY <1>10 DEF Poll, ReadState, Current, TypeOK, CBTypeOK, States, psiVars,
               turnVars
<1>11. ASSUME Tick PROVE TypeOK'
  BY <1>11 DEF Tick, TypeOK, CBTypeOK, States, psiVars, turnVars
<1>12. ASSUME Stop PROVE TypeOK'
  <2>1. cbState' \in States /\ failures' \in Nat /\ age' \in 0..Timeout
    BY <1>12 DEF Stop, SavesState, ReadState, Current, cbVars, TypeOK,
                 CBTypeOK, States
  <2> QED  BY <1>12, <2>1 DEF Stop, TypeOK, CBTypeOK, psiVars
<1>13. ASSUME UNCHANGED vars PROVE TypeOK'
  BY <1>13 DEF vars, cbVars, psiVars, turnVars, TypeOK, CBTypeOK
<1> QED
  BY <1>1, <1>2, <1>3, <1>4, <1>5, <1>6, <1>7, <1>8, <1>9, <1>10, <1>11,
     <1>12, <1>13, <1>14 DEF Next, Resume

(* The session's state keeps its types: psi integrates only steps made.    *)
THEOREM TurnsTypeCorrect == Spec => []TypeOK
  BY TypeInit, TypeStep, PTL DEF Spec
-----------------------------------------------------------------------------
(* The session implements BreakerCalls: each step of the session is one    *)
(* step of the breaker and its callers, or none.                           *)

LEMMA InLLMUnchanged ==
  ASSUME TypeOK, NEW o \in Origins, ~At(o, "llm"), NEW a, a # "llm",
         pc' = [pc EXCEPT ![o] = a]
  PROVE  InLLM' = InLLM
  BY DEF InLLM, At, TypeOK

LEMMA InLLMEntered ==
  ASSUME TypeOK, NEW o \in Origins, ~At(o, "llm"), pc' = [pc EXCEPT ![o] = "llm"]
  PROVE  o \notin InLLM /\ InLLM' = InLLM \cup {o}
  BY DEF InLLM, At, TypeOK

LEMMA InLLMLeft ==
  ASSUME TypeOK, NEW o \in Origins, At(o, "llm"),
         pc' = [pc EXCEPT ![o] = "persist"]
  PROVE  o \in InLLM /\ InLLM' = InLLM \ {o}
  BY DEF InLLM, At, TypeOK

LEMMA SpeakRequests ==
  ASSUME TypeOK, NEW o \in Origins, ~At(o, "llm"), NEW n \in {0, 1}, Speak(o, n)
  PROVE  Breaker!Request(o) \/ Breaker!Poll
<1>1. CASE MayCall /\ pc' = [pc EXCEPT ![o] = "llm"]
  <2>1. Breaker!Request(o)
    BY <1>1, InLLMEntered
    DEF Speak, MayCall, Allows, Current, ReadState, Breaker!Request,
        Breaker!Allows, Breaker!Current, Breaker!ReadState
  <2> QED  BY <2>1
<1>2. CASE pc' = [pc EXCEPT ![o] = "persist"]
  <2>1. Breaker!Poll
    BY <1>2, InLLMUnchanged
    DEF Speak, ReadState, Current, Breaker!Poll, Breaker!ReadState, Breaker!Current
  <2> QED  BY <2>1
<1> QED  BY <1>1, <1>2 DEF Speak

LEMMA BreakerRefinementStep ==
  TypeOK /\ [Next]_vars => [Breaker!Next]_(Breaker!vars)
<1> SUFFICES ASSUME TypeOK, [Next]_vars
             PROVE  Breaker!Next \/ UNCHANGED <<cbVars, InLLM>>
  BY DEF Breaker!vars, Breaker!cbVars, cbVars
<1>1. ASSUME NEW o \in Origins, Begin(o) PROVE UNCHANGED <<cbVars, InLLM>>
  BY <1>1, InLLMUnchanged DEF Begin, At
<1>2. ASSUME NEW o \in Origins, Think(o)
      PROVE  Breaker!Next \/ UNCHANGED <<cbVars, InLLM>>
  <2>1. ~At(o, "llm")
    BY <1>2 DEF Think, At
  <2>2. CASE Speak(o, 1)
    BY <2>1, <2>2, SpeakRequests DEF Breaker!Next
  <2>3. CASE pc' = [pc EXCEPT ![o] = "dream"] /\ UNCHANGED cbVars
    BY <2>1, <2>3, InLLMUnchanged
  <2> QED  BY <1>2, <2>2, <2>3 DEF Think
<1>3. ASSUME NEW o \in Origins, DreamEnds(o) PROVE Breaker!Next
  <2>1. ~At(o, "llm")
    BY <1>3 DEF DreamEnds, At
  <2> QED  BY <1>3, <2>1, SpeakRequests DEF DreamEnds, Breaker!Next
<1>4. ASSUME NEW o \in Origins, AttemptFails(o) PROVE UNCHANGED <<cbVars, InLLM>>
  BY <1>4 DEF AttemptFails, InLLM
<1>5. ASSUME NEW o \in Origins, LLMReturns(o) PROVE Breaker!Next
  <2>1. Breaker!Succeed(o)
    BY <1>5, InLLMLeft
    DEF LLMReturns, Answer, SuccessThenRead, RecordSuccess, ReadState, Current,
        Breaker!Succeed, Breaker!SuccessThenRead, Breaker!RecordSuccess,
        Breaker!ReadState, Breaker!Current
  <2> QED  BY <2>1 DEF Breaker!Next
<1>6. ASSUME NEW o \in Origins, LLMFails(o) PROVE Breaker!Next
  <2>1. Breaker!Fail(o)
    BY <1>6, InLLMLeft
    DEF LLMFails, Answer, RecordFailure, Trips, Breaker!Fail,
        Breaker!RecordFailure, Breaker!Trips
  <2> QED  BY <2>1 DEF Breaker!Next
<1>7. ASSUME NEW o \in Origins, Finish(o)
      PROVE  Breaker!Next \/ UNCHANGED <<cbVars, InLLM>>
  <2>1. InLLM' = InLLM
    BY <1>7, InLLMUnchanged DEF Finish, At
  <2> QED
    BY <1>7, <2>1
    DEF Finish, SavesState, ReadState, Current, Breaker!Next, Breaker!Poll,
        Breaker!ReadState, Breaker!Current
<1>13. ASSUME NEW o \in Origins, Aborts(o) PROVE Breaker!Next
  <2>1. InLLM' = InLLM \ {o} /\ {o} \in SUBSET InLLM
    BY <1>13 DEF Aborts, InLLM, At, TypeOK
  <2>2. Breaker!Abandon({o})
    BY <1>13, <2>1 DEF Aborts, cbVars, Breaker!Abandon, Breaker!cbVars
  <2> QED  BY <2>1, <2>2 DEF Breaker!Next
<1>8. ASSUME HeartbeatStep \/ IdleThought PROVE UNCHANGED <<cbVars, InLLM>>
  BY <1>8 DEF HeartbeatStep, IdleThought, turnVars, InLLM
<1>9. ASSUME Poll PROVE Breaker!Next
  BY <1>9 DEF Poll, turnVars, InLLM, ReadState, Current, Breaker!Next,
              Breaker!Poll, Breaker!ReadState, Breaker!Current
<1>10. ASSUME Tick PROVE Breaker!Next \/ UNCHANGED <<cbVars, InLLM>>
  <2>1. InLLM' = InLLM
    BY <1>10 DEF Tick, turnVars, InLLM
  <2>2. CASE age < Timeout
    BY <1>10, <2>1, <2>2 DEF Tick, Breaker!Next, Breaker!Tick, Breaker!ClockTick
  <2>3. CASE ~(age < Timeout)
    BY <1>10, <2>1, <2>3 DEF Tick, cbVars
  <2> QED  BY <2>2, <2>3
<1>11. ASSUME Stop PROVE Breaker!Next
  <2>1. InLLM' = InLLM \ InLLM
    BY <1>11 DEF Stop, InLLM
  <2>2. Breaker!Abandon(InLLM)
    BY <1>11, <2>1
    DEF Stop, SavesState, ReadState, Current, cbVars, Breaker!Abandon,
        Breaker!ReadState, Breaker!Current, Breaker!cbVars
  <2> QED  BY <2>2 DEF Breaker!Next
<1>12. ASSUME UNCHANGED vars PROVE UNCHANGED <<cbVars, InLLM>>
  BY <1>12 DEF vars, turnVars, InLLM
<1> QED
  BY <1>1, <1>2, <1>3, <1>4, <1>5, <1>6, <1>7, <1>8, <1>9, <1>10, <1>11, <1>12,
     <1>13
  DEF Next, Resume

(* The session uses the breaker the way BreakerCalls promises, so what     *)
(* BreakerCalls_proofs proves of the breaker holds in the session.         *)
THEOREM SessionImplementsBreaker == Spec => BreakerSpec
<1>1. Init => Breaker!Init
  BY DEF Init, CBInit, InLLM, Breaker!Init, Breaker!CBInit
<1> QED
  BY <1>1, BreakerRefinementStep, TurnsTypeCorrect, PTL
  DEF Spec, BreakerSpec, Breaker!Spec
-----------------------------------------------------------------------------
(* A turn that has met no other: no other is in flight beside it.          *)
NoOther == \A o \in alone : \A p \in Origins \ {o} : At(p, "none")

(* While its call is pending the copy holds all the turn has made, psi     *)
(* still holds the copy, and what psi gained since is newer.               *)
CopyInv ==
    \A o \in alone : At(o, "llm") =>
        /\ own[o] \subseteq saved[o]
        /\ saved[o] \subseteq psi
        /\ \A i \in psi \ saved[o] : \A j \in saved[o] : j < i

Lone == NoOther /\ LoneTurnKept /\ CopyInv
LoneInv == TypeOK /\ Lone

(* A step of another task adds to psi and leaves the turns alone. *)
LEMMA LoneOtherTask ==
  ASSUME LoneInv, EvolveFrom(psi, 1), UNCHANGED turnVars
  PROVE  Lone'
<1>1. NoOther' /\ LoneTurnKept'
  BY DEF LoneInv, Lone, NoOther, LoneTurnKept, EvolveFrom, turnVars, At
<1>2. CopyInv'
  <2> SUFFICES ASSUME NEW o \in alone, At(o, "llm")
               PROVE  /\ own[o] \subseteq saved[o]
                      /\ saved[o] \subseteq psi'
                      /\ \A i \in psi' \ saved[o] : \A j \in saved[o] : j < i
    BY DEF CopyInv, turnVars, At
  <2>1. saved[o] \in SUBSET (1..steps) /\ steps \in Nat
    BY DEF LoneInv, TypeOK
  <2> QED
    BY <2>1 DEF LoneInv, Lone, CopyInv, EvolveFrom, NewSteps
<1> QED  BY <1>1, <1>2 DEF Lone

(* When a turn in flight moves on, it is the only one that can be alone.   *)
LEMMA LoneIsMover ==
  ASSUME LoneInv, NEW o \in Origins, ~At(o, "none"), alone' = alone,
         NEW a, pc' = [pc EXCEPT ![o] = a]
  PROVE  (\A q \in alone' : q = o) /\ NoOther'
<1>1. \A q \in alone : q = o
  BY DEF LoneInv, Lone, NoOther
<1> QED  BY <1>1 DEF LoneInv, TypeOK, Lone, NoOther, At

(* It moves to an await other than the call, its own steps kept. *)
LEMMA LoneMoves ==
  ASSUME LoneInv, NEW o \in Origins, ~At(o, "none"), alone' = alone,
         NEW a, a # "llm", pc' = [pc EXCEPT ![o] = a],
         o \in alone => own'[o] \subseteq psi'
  PROVE  Lone'
<1>1. (\A q \in alone' : q = o) /\ NoOther'
  BY LoneIsMover
<1>2. ~At(o, "llm")'
  BY DEF LoneInv, TypeOK, At
<1> QED  BY <1>1, <1>2 DEF Lone, LoneTurnKept, CopyInv

LEMMA LoneSpeak ==
  ASSUME LoneInv, NEW o \in Origins, ~At(o, "none"), alone' = alone,
         NEW n \in {0, 1}, Speak(o, n)
  PROVE  Lone'
<1>1. CASE /\ EvolveFrom(psi, n)
           /\ own' = [own EXCEPT ![o] = @ \cup NewSteps(n)]
           /\ saved' = [saved EXCEPT ![o] = Backup]
           /\ pc' = [pc EXCEPT ![o] = "llm"]
  <2>1. (\A q \in alone' : q = o) /\ NoOther'
    BY <1>1, LoneIsMover
  <2>2. o \in alone => own'[o] \subseteq psi'
    BY <1>1 DEF LoneInv, TypeOK, Lone, LoneTurnKept, EvolveFrom
  <2>3. saved'[o] = psi'
    BY <1>1 DEF LoneInv, TypeOK, Backup
  <2> QED  BY <2>1, <2>2, <2>3 DEF Lone, LoneTurnKept, CopyInv
<1>2. CASE /\ EvolveFrom(psi, n + 1)
           /\ own' = [own EXCEPT ![o] = @ \cup NewSteps(n + 1)]
           /\ pc' = [pc EXCEPT ![o] = "persist"]
  <2>1. o \in alone => own'[o] \subseteq psi'
    BY <1>2 DEF LoneInv, TypeOK, Lone, LoneTurnKept, EvolveFrom
  <2> QED  BY <1>2, <2>1, LoneMoves
<1> QED  BY <1>1, <1>2 DEF Speak

LEMMA LoneAnswer ==
  ASSUME LoneInv, NEW o \in Origins, NEW base, Answer(o, base),
         o \in alone => own[o] \subseteq base
  PROVE  Lone'
<1>1. o \in alone => own'[o] \subseteq psi'
  BY DEF LoneInv, TypeOK, Answer, EvolveFrom
<1> QED  BY <1>1, LoneMoves DEF Answer, At

LEMMA LoneStep == LoneInv /\ [Next]_vars => LoneInv'
<1> SUFFICES ASSUME LoneInv, [Next]_vars PROVE Lone'
  BY TypeStep DEF LoneInv
<1>1. ASSUME NEW o \in Origins, Begin(o) PROVE Lone'
  <2>1. CASE \A p \in Origins \ {o} : At(p, "none")
    <3>1. alone' = {o} /\ own'[o] = NewSteps(1) /\ psi' = psi \cup NewSteps(1)
      BY <1>1, <2>1 DEF Begin, EvolveFrom, LoneInv, TypeOK
    <3>2. /\ \A p \in Origins \ {o} : At(p, "none")'
          /\ ~At(o, "llm")'
      BY <1>1, <2>1 DEF Begin, LoneInv, TypeOK, At
    <3> QED  BY <3>1, <3>2 DEF Lone, NoOther, LoneTurnKept, CopyInv
  <2>2. CASE ~(\A p \in Origins \ {o} : At(p, "none"))
    <3>1. alone' = {}
      BY <1>1, <2>2 DEF Begin
    <3> QED  BY <3>1 DEF Lone, NoOther, LoneTurnKept, CopyInv
  <2> QED  BY <2>1, <2>2
<1>2. ASSUME NEW o \in Origins, Think(o) PROVE Lone'
  <2>1. ~At(o, "none") /\ alone' = alone
    BY <1>2 DEF Think, At
  <2>2. CASE Speak(o, 1)
    BY <2>1, <2>2, LoneSpeak
  <2>3. CASE /\ EvolveFrom(psi, 1)
             /\ own' = [own EXCEPT ![o] = @ \cup NewSteps(1)]
             /\ pc' = [pc EXCEPT ![o] = "dream"]
    <3>1. o \in alone => own'[o] \subseteq psi'
      BY <2>3 DEF EvolveFrom, LoneInv, TypeOK, Lone, LoneTurnKept
    <3> QED  BY <2>1, <2>3, <3>1, LoneMoves
  <2> QED  BY <1>2, <2>2, <2>3 DEF Think
<1>3. ASSUME NEW o \in Origins, DreamEnds(o) PROVE Lone'
  <2>1. ~At(o, "none") /\ alone' = alone
    BY <1>3 DEF DreamEnds, At
  <2> QED  BY <1>3, <2>1, LoneSpeak DEF DreamEnds
<1>4. ASSUME NEW o \in Origins, AttemptFails(o) PROVE Lone'
  BY <1>4 DEF AttemptFails, LoneInv, Lone, NoOther, LoneTurnKept, CopyInv, At,
              psiVars
<1>5. ASSUME NEW o \in Origins, LLMReturns(o) PROVE Lone'
  <2>1. o \in alone => own[o] \subseteq psi
    BY DEF LoneInv, Lone, LoneTurnKept
  <2> QED  BY <1>5, <2>1, LoneAnswer DEF LLMReturns
<1>6. ASSUME NEW o \in Origins, LLMFails(o) PROVE Lone'
  <2>1. o \in alone => own[o] \subseteq saved[o]
    BY <1>6 DEF LLMFails, Answer, LoneInv, Lone, CopyInv
  <2> QED  BY <1>6, <2>1, LoneAnswer DEF LLMFails
<1>7. ASSUME NEW o \in Origins, Finish(o) PROVE Lone'
  <2>1. own'[o] = {}
    BY <1>7 DEF Finish, LoneInv, TypeOK
  <2> QED  BY <1>7, <2>1, LoneMoves DEF Finish, At
<1>8. ASSUME NEW o \in Origins, Aborts(o) PROVE Lone'
  <2>1. own'[o] = {}
    BY <1>8 DEF Aborts, LoneInv, TypeOK
  <2> QED  BY <1>8, <2>1, LoneMoves DEF Aborts, At
<1>9. ASSUME HeartbeatStep \/ IdleThought PROVE Lone'
  BY <1>9, LoneOtherTask DEF HeartbeatStep, IdleThought
<1>10. ASSUME Poll \/ Tick \/ UNCHANGED vars PROVE Lone'
  BY <1>10 DEF Poll, Tick, vars, psiVars, turnVars, LoneInv, Lone, NoOther,
               LoneTurnKept, CopyInv, At
<1>11. ASSUME Stop PROVE Lone'
  BY <1>11 DEF Stop, LoneInv, TypeOK, Lone, NoOther, LoneTurnKept, CopyInv, At
<1> QED
  BY <1>1, <1>2, <1>3, <1>4, <1>5, <1>6, <1>7, <1>8, <1>9, <1>10, <1>11
  DEF Next, Resume

LEMMA LoneInvariant == Spec => []LoneInv
<1>1. Init => LoneInv
  BY TypeInit DEF Init, LoneInv, Lone, NoOther, LoneTurnKept, CopyInv
<1> QED  BY <1>1, LoneStep, PTL DEF Spec

(* Whatever the other tasks do while its call is pending and however it    *)
(* ends, a turn that meets no other keeps all it evolved.                  *)
THEOREM LoneTurnKeepsItsSteps == Spec => []LoneTurnKept
  BY LoneInvariant, PTL DEF LoneInv, Lone

(* And its rollback undoes only what was evolved while it was pending.     *)
THEOREM LoneRollback == Spec => LoneRollbackScope
<1> DEFINE A ==
      /\ \A i \in psi \ psi' : \E o \in InLLM : \A j \in saved[o] : j < i
      /\ psi' \subseteq psi \cup (steps + 1 .. steps')
<1>1. LoneInv /\ [Next]_vars => [alone # {} => A]_psiVars
  <2> SUFFICES ASSUME LoneInv, Next, ~UNCHANGED psiVars, alone # {} PROVE A
    BY DEF vars
  <2>1. ASSUME NEW n \in {0, 1, 2}, EvolveFrom(psi, n) PROVE A
    BY <2>1 DEF EvolveFrom, NewSteps
  <2>2. ASSUME NEW o \in Origins, LLMFails(o) PROVE A
    <3>1. o \in alone /\ At(o, "llm")
      BY <2>2 DEF LLMFails, Answer, LoneInv, TypeOK, Lone, NoOther, At
    <3>2. /\ saved[o] \subseteq psi /\ o \in InLLM
          /\ \A i \in psi \ saved[o] : \A j \in saved[o] : j < i
      BY <3>1 DEF LoneInv, Lone, CopyInv, InLLM, At
    <3>3. psi' = saved[o] \cup NewSteps(1) /\ steps' = steps + 1
      BY <2>2 DEF LLMFails, Answer, EvolveFrom
    <3> QED  BY <3>2, <3>3 DEF NewSteps
  <2>3. ASSUME NEW o \in Origins, Think(o) \/ DreamEnds(o) PROVE A
    <3>1. \/ EvolveFrom(psi, 0) \/ EvolveFrom(psi, 1)
          \/ EvolveFrom(psi, 0 + 1) \/ EvolveFrom(psi, 1 + 1)
      BY <2>3, ZenonT(60) DEF Think, DreamEnds, Speak
    <3>2. 0 + 1 = 1 /\ 1 + 1 = 2
      OBVIOUS
    <3> QED  BY <2>1, <3>1, <3>2
  <2> QED
    BY <2>1, <2>2, <2>3
    DEF Next, Begin, Resume, AttemptFails, LLMReturns, Answer, Aborts, Finish,
        HeartbeatStep, IdleThought, Poll, Tick, Stop, psiVars
<1> QED  BY <1>1, LoneInvariant, PTL DEF Spec, LoneRollbackScope
=============================================================================
