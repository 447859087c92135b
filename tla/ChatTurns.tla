------------------------------ MODULE ChatTurns ------------------------------
(***************************************************************************)
(* The chat session's turns and the other asyncio tasks that evolve the    *)
(* same cognitive state (luna/chat/session.py, ChatSession.send).          *)
(*                                                                         *)
(* A turn is a coroutine; it yields only at its awaits: the memory search, *)
(* a legacy dream, the LLM call with its retries, and the write of the     *)
(* seed memory.  Each action is what runs between two awaits.  An await    *)
(* the code skips (no keywords, no memory) is one that ends at once.       *)
(*                                                                         *)
(* Psi is abstracted to the set of evolution steps it integrates: step n   *)
(* is the n-th call of ConsciousnessState.evolve, whoever made it.  A      *)
(* rollback assigns an older value, which integrates fewer steps.          *)
(***************************************************************************)
EXTENDS CircuitBreaker, FiniteSets

CONSTANTS
    Origins,        \* who may start a turn: {"user", "endogenous"} or fewer
    RetryMax,       \* orchestrator.retry_max
    IdleAfter,      \* 60 s of user silence, in clock ticks
    MinIdle,        \* 360 s of user silence, in clock ticks
    MaxSteps        \* bound on evolution steps

ASSUME TurnAssumption ==
    /\ Origins \subseteq {"user", "endogenous"}
    /\ RetryMax \in Nat
    /\ IdleAfter \in Nat
    /\ MinIdle \in Nat
    /\ MaxSteps \in Nat

VARIABLES
    running,        \* the session is started
    steps,          \* cs.step_count
    psi,            \* cs.psi: the steps it integrates
    pc,             \* the await each turn is at, "none" between turns
    attempt,        \* retry_async: failed attempts of the pending call
    saved,          \* psi_before_llm of each turn
    own,            \* history variable: the steps each turn has made
    alone,          \* history variable: the last turn begun, if no other
                    \* turn has been in flight since
    llmReady,       \* self._llm is not None
    quiet           \* age of _last_user_activity, saturating at MinIdle

turnVars == <<pc, attempt, saved, own, alone, llmReady>>
psiVars  == <<steps, psi>>
vars     == <<cbVars, running, psiVars, turnVars, quiet>>

TypeOK ==
    /\ CBTypeOK
    /\ running \in BOOLEAN
    /\ steps \in Nat
    /\ psi \subseteq 1..steps
    /\ pc \in [Origins -> {"none", "search", "dream", "llm", "persist"}]
    /\ attempt \in [Origins -> 0..RetryMax]
    /\ saved \in [Origins -> SUBSET (1..steps)]
    /\ own \in [Origins -> SUBSET (1..steps)]
    /\ alone \subseteq Origins
    /\ llmReady \in BOOLEAN
    /\ quiet \in 0..MinIdle

Init ==
    /\ CBInit
    /\ running = TRUE
    /\ steps = 0
    /\ psi = {}
    /\ pc = [o \in Origins |-> "none"]
    /\ attempt = [o \in Origins |-> 0]
    /\ saved = [o \in Origins |-> {}]
    /\ own = [o \in Origins |-> {}]
    /\ alone = {}
    /\ llmReady \in BOOLEAN
    /\ quiet = 0

InLLM == {o \in Origins : pc[o] = "llm"}

At(o, a) == pc[o] = a

NewSteps(n) == steps + 1 .. steps + n

(* cs.evolve called n times from the value `base' of psi. *)
EvolveFrom(base, n) == steps' = steps + n /\ psi' = base \cup NewSteps(n)

(* The bound on steps: a new turn or another task's step must leave room   *)
(* for the steps that turns in flight still have to make, so that the      *)
(* bound never stops a turn half way.                                      *)
Owed == Cardinality({o \in Origins : pc[o] \in {"search", "dream", "llm"}})
          + Cardinality({o \in Origins : At(o, "search")})

RoomFor(n) == steps + n + Owed <= MaxSteps

-----------------------------------------------------------------------------
(* send, up to the memory search: the idle heartbeat.  _watch_endogenous   *)
(* starts a turn only after min_idle of user silence.                      *)
Begin(o) ==
    /\ running
    /\ At(o, "none")
    /\ o = "endogenous" => quiet = MinIdle
    /\ RoomFor(3)
    /\ quiet' = IF o = "user" THEN 0 ELSE quiet
    /\ EvolveFrom(psi, 1)
    /\ own' = [own EXCEPT ![o] = NewSteps(1)]
    /\ alone' = IF \A p \in Origins \ {o} : At(p, "none") THEN {o} ELSE {}
    /\ pc' = [pc EXCEPT ![o] = "search"]
    /\ UNCHANGED <<cbVars, running, attempt, saved, llmReady>>

(* psi_before_llm: the value after the input evolution of this same step.  *)
(* Mutant: the copy is taken before it.                                    *)
BackupEarly == psi
Backup == psi'

(* Mutant: the breaker is not asked. *)
MayCallUnasked == llmReady'
MayCall == llmReady' /\ Allows

(* From the decision to the LLM await, or, when the breaker rejects the    *)
(* call or there is no LLM, through the output evolution to the seed       *)
(* write.  n input evolutions are still to be counted.                     *)
Speak(o, n) ==
    /\ ReadState
    /\ llmReady' \in {llmReady, TRUE}      \* lazy init, when it succeeds
    /\ \/ /\ MayCall
          /\ EvolveFrom(psi, n)
          /\ own' = [own EXCEPT ![o] = @ \cup NewSteps(n)]
          /\ saved' = [saved EXCEPT ![o] = Backup]
          /\ attempt' = [attempt EXCEPT ![o] = 0]
          /\ pc' = [pc EXCEPT ![o] = "llm"]
       \/ /\ ~MayCall
          /\ EvolveFrom(psi, n + 1)
          /\ own' = [own EXCEPT ![o] = @ \cup NewSteps(n + 1)]
          /\ pc' = [pc EXCEPT ![o] = "persist"]
          /\ UNCHANGED <<attempt, saved>>

(* The memory search returns: think, _input_evolve, decide; then speak, or *)
(* first run a legacy dream when the Decider asks for one.                 *)
Think(o) ==
    /\ At(o, "search")
    /\ \/ Speak(o, 1)
       \/ /\ EvolveFrom(psi, 1)
          /\ own' = [own EXCEPT ![o] = @ \cup NewSteps(1)]
          /\ pc' = [pc EXCEPT ![o] = "dream"]
          /\ UNCHANGED <<cbVars, attempt, saved, llmReady>>
    /\ UNCHANGED <<running, alone, quiet>>

DreamEnds(o) ==
    /\ At(o, "dream")
    /\ Speak(o, 0)
    /\ UNCHANGED <<running, alone, quiet>>

(* Mutants: the retry loop starts over; it makes one attempt too many. *)
AttemptFailsForever(o) ==
    /\ At(o, "llm")
    /\ attempt' = [attempt EXCEPT ![o] = IF @ < RetryMax THEN @ + 1 ELSE 0]
    /\ UNCHANGED <<cbVars, running, psiVars, pc, saved, own, alone, llmReady, quiet>>
(* retry_async: an attempt fails and another one is left. *)
AttemptFails(o) ==
    /\ At(o, "llm")
    /\ attempt[o] < RetryMax
    /\ attempt' = [attempt EXCEPT ![o] = @ + 1]
    /\ UNCHANGED <<cbVars, running, psiVars, pc, saved, own, alone, llmReady, quiet>>

(* The call ended; the output evolution follows from the value `base'.     *)
Answer(o, base) ==
    /\ At(o, "llm")
    /\ EvolveFrom(base, 1)
    /\ own' = [own EXCEPT ![o] = @ \cup NewSteps(1)]
    /\ pc' = [pc EXCEPT ![o] = "persist"]
    /\ UNCHANGED <<running, attempt, saved, alone, llmReady, quiet>>

(* The cycle record that reads the breaker again may fail before it does.  *)
LLMReturns(o) == Answer(o, psi) /\ (RecordSuccess \/ SuccessThenRead)

(* The last attempt failed: record_failure, roll psi back, fall back. *)
LLMFails(o) ==
    /\ attempt[o] = RetryMax
    /\ Answer(o, saved[o])
    /\ RecordFailure

(* The provider's reply has an unexpected shape: an error that is not an   *)
(* LLMBridgeError passes through send, with no verdict and no rollback.    *)
(* _watch_endogenous logs it; the REPL ends on it and stops the session.   *)
Aborts(o) ==
    /\ At(o, "llm")
    /\ pc' = [pc EXCEPT ![o] = "none"]
    /\ own' = [own EXCEPT ![o] = {}]
    /\ running' = (running /\ o = "endogenous")
    /\ UNCHANGED <<cbVars, psiVars, attempt, saved, alone, llmReady, quiet>>

(* A checkpoint, due every checkpoint_interval turns and at stop, writes   *)
(* the breaker's state into session_state.json.                            *)
SavesState == ReadState \/ UNCHANGED cbVars

(* The seed memory is written (or its failure logged): the turn returns. *)
Finish(o) ==
    /\ At(o, "persist")
    /\ pc' = [pc EXCEPT ![o] = "none"]
    /\ own' = [own EXCEPT ![o] = {}]
    /\ SavesState
    /\ UNCHANGED <<running, psiVars, attempt, saved, alone, llmReady, quiet>>

(* Ctrl+C, then stop(): every task of the session is cancelled at its      *)
(* await. A pending call leaves neither a verdict nor a rollback.          *)
Stop ==
    /\ running \/ \E o \in Origins : ~At(o, "none")
    /\ running' = FALSE
    /\ pc' = [o \in Origins |-> "none"]
    /\ own' = [o \in Origins |-> {}]
    /\ SavesState
    /\ UNCHANGED <<psiVars, attempt, saved, alone, llmReady, quiet>>

(* Other tasks that evolve psi: Heartbeat.idle_step on every beat, and     *)
(* _idle_cognitive_tick after a minute of user silence.                    *)
HeartbeatStep ==
    /\ RoomFor(1)
    /\ EvolveFrom(psi, 1)
    /\ UNCHANGED <<cbVars, running, turnVars, quiet>>

IdleThought ==
    /\ running
    /\ quiet >= IdleAfter
    /\ RoomFor(1)
    /\ EvolveFrom(psi, 1)
    /\ UNCHANGED <<cbVars, running, turnVars, quiet>>

(* The dashboard's GET reads the breaker. *)
Poll ==
    /\ ReadState
    /\ UNCHANGED <<running, psiVars, turnVars, quiet>>

(* One clock for the breaker and for the user's silence. *)
Tick ==
    /\ age < Timeout \/ quiet < MinIdle
    /\ age' = IF age < Timeout THEN age + 1 ELSE age
    /\ quiet' = IF quiet < MinIdle THEN quiet + 1 ELSE quiet
    /\ UNCHANGED <<cbState, failures, running, psiVars, turnVars>>

Resume(o) ==
    Think(o) \/ DreamEnds(o) \/ AttemptFails(o) \/ LLMReturns(o) \/ LLMFails(o)
      \/ Aborts(o) \/ Finish(o)

Next ==
    \/ \E o \in Origins : Begin(o) \/ Resume(o)
    \/ HeartbeatStep \/ IdleThought \/ Poll \/ Tick \/ Stop

Spec == Init /\ [][Next]_vars

(* Every await of a turn ends: reads and writes of the memory finish, and  *)
(* the provider's client gives up at the latest after its own timeout.     *)
FairSpec == Spec /\ \A o \in Origins : WF_vars(Resume(o))

-----------------------------------------------------------------------------
(* What a turn has contributed to psi stays there until it has returned:   *)
(* "cognitive state integrates the message" (session.py:1662).             *)
OwnStepsKept == \A o \in Origins : own[o] \subseteq psi

(* It does for a turn that meets no other, whatever the heartbeat and the  *)
(* idle tick evolve while its call is pending and however the call ends.   *)
LoneTurnKept == \A o \in alone : own[o] \subseteq psi

(* The rollback of such a turn undoes nothing but steps made while its     *)
(* call was pending, and brings back no step that was undone before.       *)
LoneRollbackScope ==
    [][alone # {} =>
         /\ \A i \in psi \ psi' : \E o \in InLLM : \A j \in saved[o] : j < i
         /\ psi' \subseteq psi \cup (steps + 1 .. steps')]_psiVars

(* Every message gets its response, whatever fails. *)
EveryTurnEnds == \A o \in Origins : ~At(o, "none") ~> At(o, "none")

(* The session uses the breaker the way BreakerCalls promises: no call     *)
(* starts without its leave, and every verdict is one call's.              *)
Breaker == INSTANCE BreakerCalls WITH Callers <- Origins, calls <- InLLM
BreakerSpec == Breaker!Spec
=============================================================================
