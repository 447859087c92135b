------------------------------ MODULE Impulses ------------------------------
(***************************************************************************)
(* The impulses of EndogenousSource: what the subsystems push into the one *)
(* buffer, who collects them (the user's turn, the watcher of the session, *)
(* the tick of the loop when no session is attached) and how each of them  *)
(* reaches the user.  A buffer is the set of its impulses: an impulse is   *)
(* its number in order of arrival, which is how the stable sort by urgency *)
(* ranks equals.  One action runs from one await to the next.              *)
(***************************************************************************)
EXTENDS Naturals, Sequences, FiniteSets

CONSTANTS
    Urgencies,      \* the urgencies that impulses come with
    MaxBuffer,      \* MAX_IMPULSE_BUFFER
    Cooldown,       \* ENDOGENOUS_COOLDOWN, in steps of psi
    MaxFeed,        \* bound: impulses that one feed pushes
    MaxImpulses     \* bound: impulses in all

ASSUME ImpulseAssumption ==
    /\ Urgencies \subseteq Nat
    /\ MaxBuffer \in Nat \ {0}
    /\ {Cooldown, MaxFeed, MaxImpulses} \subseteq Nat

Origins == {"user", "luna"}

VARIABLES
    attached,       \* a session is attached to the loop
    urgency,        \* urgency[i], of the i-th impulse pushed
    buffer,         \* the impulses that wait
    since,          \* steps of psi since the last collection, counted up to Cooldown
    at,             \* the await at which the turn of an origin is
    carried,        \* what the turn of an origin brings: at most one impulse
    queued,         \* the answers to impulses that wait for the prompt
    told            \* the impulses shown to the user, or kept in the journal

impulseVars == <<attached, urgency, buffer, since, at, carried, queued, told>>

Pending == buffer \cup carried["user"] \cup carried["luna"] \cup queued

ImpulsesTypeOK ==
    /\ attached \in BOOLEAN
    /\ urgency \in Seq(Urgencies) /\ Len(urgency) <= MaxImpulses
    /\ since \in 0..Cooldown
    /\ at \in [Origins -> {"idle", "search", "llm", "persist"}]
    /\ carried \in [Origins -> SUBSET (1..Len(urgency))]
    /\ buffer \subseteq 1..Len(urgency) /\ Cardinality(buffer) <= MaxBuffer
    /\ queued \cup told \subseteq 1..Len(urgency)

-----------------------------------------------------------------------------
(* The source.                                                             *)

\* The stable sort by urgency, descending, has i before j.
Before(u, i, j) == u[i] > u[j] \/ (u[i] = u[j] /\ i < j)

Strongest(u, S, n) ==
    {i \in S : Cardinality({j \in S : Before(u, j, i)}) < n}

\* Mutant of Push: keeps what came first instead of the strongest.
PushOldest(u, S, new) ==
    {i \in S \cup new : Cardinality({j \in S \cup new : j < i}) < MaxBuffer}

\* Mutant of Push: the buffer is never trimmed.
PushAll(u, S, new) == S \cup new

\* Pushing one by one and trimming each time leaves the strongest of all.
Push(u, S, new) == Strongest(u, S \cup new, MaxBuffer)

\* What collect takes from S when psi made n steps since the last collection.
Collect(u, S, n) == IF n < Cooldown THEN {} ELSE Strongest(u, S, 1)

\* `since` after `steps` more steps, or after a collection and them.
Evolved(got, steps) ==
    LET n == steps + IF got = {} THEN since ELSE 0
    IN  IF n < Cooldown THEN n ELSE Cooldown

Feeds == UNION {[1..n -> Urgencies] : n \in 0..MaxFeed}

\* us are pushed, and numbered from the last impulse on.
Fed(us) ==
    /\ Len(urgency) + Len(us) <= MaxImpulses
    /\ urgency' = urgency \o us

New == Len(urgency) + 1 .. Len(urgency')

ImpulsesInit ==
    /\ attached = FALSE
    /\ urgency = <<>>
    /\ buffer = {} /\ queued = {} /\ told = {}
    /\ since = Cooldown
    /\ at = [o \in Origins |-> "idle"]
    /\ carried = [o \in Origins |-> {}]

-----------------------------------------------------------------------------
(* The loop and the tasks that only feed.                                  *)

\* CognitiveLoop._do_tick; without a session it collects for its journal.
LoopTick ==
    \E us \in Feeds :
        /\ Fed(us)
        /\ LET fed == Push(urgency', buffer, New)
               got == IF attached THEN {} ELSE Collect(urgency', fed, since)
           IN  /\ buffer' = fed \ got
               /\ told' = told \cup got
               /\ since' = IF attached THEN since ELSE Evolved(got, 1)
        /\ UNCHANGED <<attached, at, carried, queued>>

\* The idle cognitive tick of a session: one step of psi, then the feeds.
IdleThought ==
    /\ attached
    /\ \E us \in Feeds : Fed(us)
    /\ buffer' = Push(urgency', buffer, New)
    /\ since' = Evolved({}, 1)
    /\ UNCHANGED <<attached, at, carried, queued, told>>

\* A dream ends, of the session or of the loop.
DreamInsight ==
    /\ \E u \in Urgencies : Fed(<<u>>)
    /\ buffer' = Push(urgency', buffer, New)
    /\ UNCHANGED <<attached, since, at, carried, queued, told>>

\* The heartbeat makes a step of psi.
HeartBeat ==
    /\ since' = Evolved({}, 1)
    /\ UNCHANGED <<attached, urgency, buffer, at, carried, queued, told>>

-----------------------------------------------------------------------------
(* Turns.                                                                  *)

\* Mutant of Prompted: the drain before the prompt shows, and does not empty the queue.
PromptedKeeps ==
    /\ attached /\ at["user"] = "idle"
    /\ told' = told \cup queued
    /\ UNCHANGED queued

\* The prompt returns: what waited is shown, and a message starts a turn.
Prompted ==
    /\ attached /\ at["user"] = "idle"
    /\ told' = told \cup queued
    /\ queued' = {}

Ask ==
    /\ Prompted
    /\ at' = [at EXCEPT !["user"] = "search"]
    /\ since' = Evolved({}, 1)
    /\ UNCHANGED <<attached, urgency, buffer, carried>>

Command ==
    /\ Prompted
    /\ UNCHANGED <<attached, urgency, buffer, since, at, carried>>

\* The watcher collects, and voices what it got in a turn of its own.
Watch ==
    /\ attached /\ at["luna"] = "idle"
    /\ LET got == Collect(urgency, buffer, since)
       IN  /\ got # {}
           /\ buffer' = buffer \ got
           /\ carried' = [carried EXCEPT !["luna"] = got]
           /\ since' = Evolved(got, 1)
    /\ at' = [at EXCEPT !["luna"] = "search"]
    /\ UNCHANGED <<attached, urgency, queued, told>>

\* The watcher's turn meets the sentinel of an emergency stop: the impulse it
\* collected is gone, and what is queued is the notice of the stop.
WatchStopped ==
    /\ attached /\ at["luna"] = "idle"
    /\ LET got == Collect(urgency, buffer, since)
       IN  /\ got # {}
           /\ buffer' = buffer \ got
           /\ since' = Evolved(got, 0)
    /\ UNCHANGED <<attached, urgency, at, carried, queued, told>>

\* The memory search is over: thinking and the input's step of psi.
Think(o) ==
    /\ at[o] = "search"
    /\ at' = [at EXCEPT ![o] = "llm"]
    /\ since' = Evolved({}, 1)
    /\ UNCHANGED <<attached, urgency, buffer, carried, queued, told>>

\* The LLM has answered, or not: the output's step, the feeds of the turn, the
\* collection of a user's turn, then those of the cycle's record.
Answer(o) ==
    /\ at[o] = "llm"
    /\ at' = [at EXCEPT ![o] = "persist"]
    /\ \E us, late \in Feeds :
        /\ Fed(us \o late)
        /\ LET last == Len(urgency) + Len(us)
               fed  == Push(urgency', buffer, Len(urgency) + 1 .. last)
               got  == IF o = "user" THEN Collect(urgency', fed, since + 1) ELSE {}
           IN  /\ buffer' = Push(urgency', fed \ got, last + 1 .. Len(urgency'))
               /\ carried' = [carried EXCEPT ![o] = @ \cup got]
               /\ since' = IF got = {} THEN Evolved({}, 1) ELSE 0
    /\ UNCHANGED <<attached, queued, told>>

\* The REPL prints the answer with its impulse, then what waited for the prompt.
UserReturns ==
    /\ at["user"] = "persist"
    /\ at' = [at EXCEPT !["user"] = "idle"]
    /\ carried' = [carried EXCEPT !["user"] = {}]
    /\ told' = told \cup carried["user"] \cup queued
    /\ queued' = {}
    /\ UNCHANGED <<attached, urgency, buffer, since>>

VoiceReturns ==
    /\ at["luna"] = "persist"
    /\ at' = [at EXCEPT !["luna"] = "idle"]
    /\ queued' = queued \cup carried["luna"]
    /\ carried' = [carried EXCEPT !["luna"] = {}]
    /\ UNCHANGED <<attached, urgency, buffer, since, told>>

\* The watcher logs whatever its turn raises, and goes on.
VoiceFails ==
    /\ at["luna"] # "idle"
    /\ at' = [at EXCEPT !["luna"] = "idle"]
    /\ carried' = [carried EXCEPT !["luna"] = {}]
    /\ UNCHANGED <<attached, urgency, buffer, since, queued, told>>

-----------------------------------------------------------------------------
(* Sessions and processes.                                                 *)

Attach ==
    /\ ~attached
    /\ attached' = TRUE
    /\ UNCHANGED <<urgency, buffer, since, at, carried, queued, told>>

SessionEnds ==
    /\ attached
    /\ attached' = FALSE
    /\ queued' = {}
    /\ at' = [o \in Origins |-> "idle"]
    /\ carried' = [o \in Origins |-> {}]
    /\ UNCHANGED <<urgency, buffer, since>>

\* Interrupted, at the end of its input, or by an error of the user's turn.
Detach == SessionEnds /\ UNCHANGED told

\* /quit comes from the prompt, after what waited was shown.
Quit ==
    /\ at["user"] = "idle"
    /\ told' = told \cup queued
    /\ SessionEnds

\* Another process: nothing of the source is saved.
Restart ==
    /\ attached' = FALSE
    /\ buffer' = {} /\ queued' = {}
    /\ since' = Cooldown
    /\ at' = [o \in Origins |-> "idle"]
    /\ carried' = [o \in Origins |-> {}]
    /\ UNCHANGED <<urgency, told>>

ImpulsesNext ==
    \/ LoopTick \/ IdleThought \/ DreamInsight \/ HeartBeat
    \/ Ask \/ Command \/ Watch \/ WatchStopped
    \/ \E o \in Origins : Think(o) \/ Answer(o)
    \/ UserReturns \/ VoiceReturns \/ VoiceFails
    \/ Attach \/ Detach \/ Quit \/ Restart

ImpulsesSpec == ImpulsesInit /\ [][ImpulsesNext]_impulseVars

-----------------------------------------------------------------------------
(* Properties.                                                             *)

\* An impulse is in one place: it is told once, and what was told waits
\* nowhere, though the user's turn, the watcher and the loop all collect.
ToldOnce ==
    /\ told \cap Pending = {}
    /\ buffer \cap (carried["user"] \cup carried["luna"] \cup queued) = {}
    /\ carried["user"] \cap carried["luna"] = {}
    /\ queued \cap (carried["user"] \cup carried["luna"]) = {}

\* i was pushed out by MaxBuffer stronger impulses.
Outranked(i) ==
    Cardinality({j \in buffer \cup New : Before(urgency', j, i)}) >= MaxBuffer

\* What is pushed is told in the end or still waits, unless the buffer
\* overflowed with stronger impulses, the turn that carried it failed or met an
\* emergency stop, or its session or process ended.
OnlyTheWeakVanish ==
    [][\A i \in Pending \cup New :
         \/ i \in Pending' \cup told'
         \/ i \in buffer \cup New /\ Outranked(i)
         \/ i \in carried["luna"] /\ VoiceFails
         \/ i \in Strongest(urgency, buffer, 1) /\ WatchStopped
         \/ i \in carried["user"] \cup carried["luna"] \cup queued /\ Detach
         \/ i \in carried["user"] \cup carried["luna"] /\ Quit
         \/ Restart]_impulseVars

\* Whoever collects, no impulse that stays in the buffer was there as strong
\* and as early as the one taken: a weak one does not overtake.
StrongestFirst ==
    [][\A i, j \in buffer :
         i \in Pending' \cup told' /\ i \notin buffer' /\ j \in buffer'
             => Before(urgency, i, j)]_impulseVars
=============================================================================
