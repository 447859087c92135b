------------------------------- MODULE Dreams -------------------------------
(***************************************************************************)
(* Who dreams when, and what a dream does to the history of psi.           *)
(*                                                                         *)
(* While the causal graph is immature every dream is a legacy cycle        *)
(* (luna/dream/_legacy_cycle.py): a coroutine with four phases, each in a  *)
(* worker thread (asyncio.to_thread), of which the third rewrites          *)
(* cs.history while the event loop goes on evolving psi.  Five callers     *)
(* start one: the heartbeat and the API go through the SleepManager, the   *)
(* cognitive tick, the inactivity watcher and the user's own turn do not.  *)
(*                                                                         *)
(* An entry of the history is the number of its evolution step and the     *)
(* place psi was at: states closer than the tolerance share a place.       *)
(***************************************************************************)
EXTENDS Integers, Sequences, FiniteSets

CONSTANTS
    Dreamers,       \* the callers that start dreams
    Dashboard,      \* the REPL serves the API too, in a thread of its own
    Workers,        \* worker threads
    Places,         \* the states psi can be in, up to the tolerance
    MinHistory,     \* entries a dream needs, 10
    MaxHistory,     \* the cap of the defragmentation, 200
    Threshold,      \* dream.inactivity_threshold, in clock ticks
    MaxSteps        \* bound on evolution steps

ASSUME DreamAssumption ==
    /\ Dreamers \subseteq {"heartbeat", "api", "session", "turn", "tick"}
    /\ Dashboard \in BOOLEAN
    /\ {MinHistory, MaxHistory, Threshold, MaxSteps} \subseteq Nat \ {0}

VARIABLES
    chat,           \* the process is the REPL, with a session attached
    history,        \* cs.history
    steps,          \* evolution steps made
    since,          \* ages of the user's last message, of the managed cycle's
                    \* _last_activity and of the caller's own _last_activity
    sleep,          \* SleepManager._state; sleeping_event is set iff awake
    pc,             \* where each caller is in its dream
    worker          \* the threads that run a defragmentation

vars == <<chat, history, steps, since, sleep, pc, worker>>

(* The daemon's tick dreams, in the REPL the session does; the daemon's    *)
(* API shares the event loop.                                              *)
Callers ==
    Dreamers \cap ({"heartbeat"} \cup
        IF chat THEN {"session", "turn"} \cup (IF Dashboard THEN {"api"} ELSE {})
                ELSE {"tick", "api"})

Managed == Callers \cap {"heartbeat", "api"}

Free == [at |-> "free", copy |-> <<>>, for |-> "nobody"]

Init ==
    /\ chat \in BOOLEAN
    /\ history = <<>>
    /\ steps = 0
    /\ since = [t \in {"user", "cycle", "own"} |-> 0]
    /\ sleep = "awake"
    /\ pc = [d \in Dreamers |-> "awake"]
    /\ worker = [w \in Workers |-> Free]

Dreaming(d) == pc[d] \in {"before", "defrag", "after"}

-----------------------------------------------------------------------------
(* The event loop.                                                         *)

(* ConsciousnessState.evolve: a state identical to the last one is not     *)
(* recorded.                                                               *)
Evolve(p) ==
    /\ steps < MaxSteps
    /\ steps' = steps + 1
    /\ \/ history' = Append(history, [step |-> steps', place |-> p])
       \/ /\ history # <<>> /\ history[Len(history)].place = p
          /\ UNCHANGED history

(* The beats, ticks, thoughts and turns that are not suspended by a dream  *)
(* of their own.                                                           *)
Beat(p) ==
    /\ \/ chat
       \/ \E d \in {"heartbeat", "tick"} : d \in Callers => pc[d] = "awake"
    /\ Evolve(p)
    /\ UNCHANGED <<chat, since, sleep, pc, worker>>

ResetByMessage == [since EXCEPT !["user"] = 0, !["own"] = 0]

UserTurn(p) ==
    /\ chat
    /\ "turn" \in Callers => pc["turn"] = "awake"
    /\ Evolve(p)
    /\ since' = ResetByMessage
    /\ UNCHANGED <<chat, sleep, pc, worker>>

Tick ==
    /\ since' = [t \in DOMAIN since |->
                   IF since[t] < Threshold THEN since[t] + 1 ELSE Threshold]
    /\ UNCHANGED <<chat, history, steps, sleep, pc, worker>>

-----------------------------------------------------------------------------
(* When a caller starts a dream.                                           *)

Long == Len(history) >= MinHistory

Begin(d) ==
    /\ d \in Callers /\ pc[d] = "awake"
    /\ pc' = [pc EXCEPT ![d] = "before"]
    /\ UNCHANGED <<chat, history, steps, sleep, worker>>

(* _watch_inactivity: every minute it compares its timer. *)
InactivityDream ==
    /\ since["own"] = Threshold /\ Long
    /\ Begin("session")
    /\ UNCHANGED since

(* /dream, or the Decider's choice in send. *)
TurnDream ==
    /\ Long
    /\ Begin("turn")
    /\ UNCHANGED since

(* _trigger_autonomous_dream: the tick's timer is reset even when the      *)
(* history is too short for a dream.                                       *)
AutonomousDream ==
    /\ since["own"] = Threshold
    /\ IF Long
       THEN Begin("tick") /\ UNCHANGED since
       ELSE /\ "tick" \in Callers /\ pc["tick"] = "awake"
            /\ since' = [since EXCEPT !["own"] = 0]
            /\ UNCHANGED <<chat, history, steps, sleep, pc, worker>>

(* The heartbeat asks should_dream of the managed cycle; a POST to         *)
(* /dream/trigger asks nothing.                                            *)
ShouldDream(d) ==
    d = "heartbeat" => Long /\ since["cycle"] = Threshold

(* enter_sleep: the state is tested and set without an await between, so   *)
(* at once among the tasks of one loop, in two steps when the API runs in  *)
(* another thread.  Mutant: the state is not tested.                       *)
SleepAnyway(d) == TRUE

MaySleep(d) == sleep = "awake"

Look(d) ==
    /\ chat /\ Dashboard
    /\ d \in Managed
    /\ pc[d] = "awake" /\ ShouldDream(d) /\ MaySleep(d)
    /\ pc' = [pc EXCEPT ![d] = "looked"]
    /\ UNCHANGED <<chat, history, steps, since, sleep, worker>>

EnterSleep(d) ==
    /\ d \in Managed
    /\ IF chat /\ Dashboard
       THEN pc[d] = "looked"
       ELSE pc[d] = "awake" /\ ShouldDream(d) /\ MaySleep(d)
    /\ sleep' = "sleeping"
    /\ pc' = [pc EXCEPT ![d] = "before"]
    /\ UNCHANGED <<chat, history, steps, since, worker>>

-----------------------------------------------------------------------------
(* The third phase, in a worker thread.                                    *)

StartDefragment(d, w) ==
    /\ pc[d] = "before" /\ worker[w] = Free
    /\ pc' = [pc EXCEPT ![d] = "defrag"]
    /\ worker' = [worker EXCEPT ![w] = [Free EXCEPT !.at = "queued", !.for = d]]
    /\ UNCHANGED <<chat, history, steps, since, sleep>>

(* The thread ends: its caller goes on, if it still waits. *)
Done(w) ==
    /\ worker' = [worker EXCEPT ![w] = Free]
    /\ pc' = [d \in Dreamers |->
                IF d = worker[w].for /\ pc[d] = "defrag" THEN "after" ELSE pc[d]]

(* Reads the history; one shorter than two entries is left alone. *)
Copy(w) ==
    /\ worker[w].at = "queued"
    /\ IF Len(history) < 2
       THEN Done(w)
       ELSE /\ worker' = [worker EXCEPT ![w].at = "copied", ![w].copy = history]
            /\ UNCHANGED pc
    /\ UNCHANGED <<chat, history, steps, since, sleep>>

(* Mutant: what is kept is put after the history. *)
AppendUnique(s) == history \o s

(* Keeps each entry that is not near the last one kept, which is the entry *)
(* before it or shares its place.                                          *)
Kept(s) == {i \in DOMAIN s : i > 1 => s[i].place # s[i - 1].place}
Rank(i, s) == Cardinality({j \in Kept(s) : j <= i})
Unique(s) ==
    [k \in 1..Cardinality(Kept(s)) |-> s[CHOOSE i \in Kept(s) : Rank(i, s) = k]]

(* cs.history = unique *)
Publish(w) ==
    /\ worker[w].at = "copied"
    /\ history' = Unique(worker[w].copy)
    /\ worker' = [worker EXCEPT ![w].at = "published", ![w].copy = <<>>]
    /\ UNCHANGED <<chat, steps, since, sleep, pc>>

(* The length is tested and the end of the history read ... *)
Slice(w) ==
    /\ worker[w].at = "published"
    /\ IF Len(history) <= MaxHistory
       THEN Done(w)
       ELSE /\ worker' = [worker EXCEPT ![w].at = "sliced",
                ![w].copy = SubSeq(history, Len(history) - MaxHistory + 1, Len(history))]
            /\ UNCHANGED pc
    /\ UNCHANGED <<chat, history, steps, since, sleep>>

(* ... and assigned. *)
Cap(w) ==
    /\ worker[w].at = "sliced"
    /\ history' = worker[w].copy
    /\ Done(w)
    /\ UNCHANGED <<chat, steps, since, sleep>>

-----------------------------------------------------------------------------
(* How a dream ends.                                                       *)

(* The timers a caller resets when its dream is over: the managed cycle    *)
(* resets its own only when it completes, the watcher and the tick theirs  *)
(* in any case.                                                            *)
AfterDream(d, completed) ==
    [since EXCEPT
        !["cycle"] = IF d \in Managed /\ completed THEN 0 ELSE @,
        !["own"] = IF d \in {"session", "tick"} THEN 0 ELSE @]

(* The finally of enter_sleep, which passes through WAKING_UP without an   *)
(* await.  Mutant: it only wakes up after a complete dream.                *)
WakeIfCompleted(d, completed) ==
    sleep' = IF d \in Managed /\ completed THEN "awake" ELSE sleep

WakeUp(d, completed) ==
    sleep' = IF d \in Managed THEN "awake" ELSE sleep

Finish(d) ==
    /\ pc[d] = "after"
    /\ pc' = [pc EXCEPT ![d] = "awake"]
    /\ since' = AfterDream(d, TRUE)
    /\ WakeUp(d, TRUE)
    /\ UNCHANGED <<chat, history, steps, worker>>

(* A phase, the report or an insight fails; each caller catches it. *)
Fail(d) ==
    /\ pc[d] \in {"before", "after"}
    /\ pc' = [pc EXCEPT ![d] = "awake"]
    /\ since' = AfterDream(d, FALSE)
    /\ WakeUp(d, FALSE)
    /\ UNCHANGED <<chat, history, steps, worker>>

(* wait_for cancels a managed dream after max_dream_duration; a thread it  *)
(* waits for runs on.                                                      *)
Timeout(d) ==
    /\ d \in Managed
    /\ Dreaming(d)
    /\ pc' = [pc EXCEPT ![d] = "awake"]
    /\ since' = AfterDream(d, FALSE)
    /\ WakeUp(d, FALSE)
    /\ UNCHANGED <<chat, history, steps, worker>>

-----------------------------------------------------------------------------
Next ==
    \/ \E p \in Places : Beat(p) \/ UserTurn(p)
    \/ Tick \/ InactivityDream \/ TurnDream \/ AutonomousDream
    \/ \E d \in Callers :
          \/ Look(d) \/ EnterSleep(d)
          \/ Finish(d) \/ Fail(d) \/ Timeout(d)
          \/ \E w \in Workers : StartDefragment(d, w)
    \/ \E w \in Workers : Copy(w) \/ Publish(w) \/ Slice(w) \/ Cap(w)

(* wait_for's timer fires; nothing is assumed of the threads. *)
Fairness == \A d \in Dreamers : WF_vars(Timeout(d))

Spec == Init /\ [][Next]_vars /\ Fairness

-----------------------------------------------------------------------------
(* However many dreams rewrite the history at once, and however stale the  *)
(* copies they publish, its entries stay in the order they were made, each *)
(* at most once: phi_iit is a statistic over consecutive entries.          *)
OrderKept ==
    \A i, j \in DOMAIN history : i < j => history[i].step < history[j].step

(* "Cannot enter sleep if already sleeping" (tests/test_sleep_manager.py:71): *)
(* one dream at a time goes through the SleepManager, which sleeps exactly *)
(* as long.                                                                *)
OneSleeper ==
    /\ \A d, e \in Managed : Dreaming(d) /\ Dreaming(e) => d = e
    /\ sleep = "sleeping" <=> \E d \in Managed : Dreaming(d)

(* Whatever a dream runs into, the SleepManager wakes up. *)
AlwaysWakes == sleep = "sleeping" ~> sleep = "awake"

(* Whatever dreams overlap, neither the history nor the manager loses track. *)
DreamsInOrder == OrderKept /\ OneSleeper
=============================================================================
