# LUNA's cognitive engine in TLA+

This directory holds a TLA+ model of LUNA (packages `luna` and `luna_common`), the TLC
configurations that check it on small instances, and the theorems TLAPS proves about it
for every value of the constants. The reference is the source: `PROJECT.json` names, for
every definition, the lines it stands for.

LUNA is one Python process. Everything that matters here runs on one asyncio event loop:
a coroutine keeps the processor until its next `await`, so the unit of atomicity is the
code between two awaits. Three things break that rule and are what makes the program hard:
work handed to threads (`asyncio.to_thread`), files that survive a crash or are read
by another process, and state read before an await and used after it.

## 1. Inventory

| Component | Code | State | Operations |
|---|---|---|---|
| Circuit breaker | `llm_bridge/circuit_breaker.py` | state, failure count, time of last failure | read state, allow, record success, record failure |
| Chat turns | `chat/session.py` (`send`), `orchestrator/retry.py` | the await a turn is at, the copy of psi taken before the LLM call | start, think, call with retries, roll back, finish, cancel |
| Chat history | `chat/session.py` | history list, index of the session's first message, archive file, saved history | append, archive and trim, compress, checkpoint, load |
| REPL and daemon | `chat/repl.py`, `__main__.py`, `orchestrator/cognitive_loop.py` | PID file, tmux session, checkpoint, journal of autonomous impulses | launch, kill the daemon, load, attach, save, spawn a daemon |
| Emergency stop | `safety/kill_switch.py`, `heartbeat/heartbeat.py`, `cli/commands/kill.py` | killed flag, registered tasks, sentinel file | kill, register, check the sentinel, audit |
| Heartbeat | `heartbeat/*.py`, `observability/*.py` | task, monitor's previous vitals, rhythm, audit trail | beat, compare, alert, record, dream, checkpoint |
| Cognitive loop | `orchestrator/cognitive_loop.py` | attached session, tick counters, journal | tick, attach, detach, dream, start, stop |
| Sleep and dreams | `dream/sleep_manager.py`, `_legacy_cycle.py`, `dream_cycle.py` | sleep state, history of psi, Psi0, journal | enter sleep, dream, defragment, consolidate, catch up |
| Dream learning | `dream/learning.py`, `priors.py`, `learnable_optimizer.py`, `dream_journal.py` | skills, priors, parameters, journal file | learn, populate, age, search, append |
| Fractal memory | `memory/memory_manager.py`, `chat/session.py` (`_run_gc`) | hot files by level, one cold archive | write, archive |
| Cycle store | `memory/cycle_store.py` | one JSON-lines file a day, index file | append, read, rebuild |
| Component files, epoch reset | `cognitive_loop.py` (`save_v35_state`, `_init_v35_components`), `maintenance/epoch_reset.py` | one file a component, archives of eras | load all or none, save in order, move to an archive |
| State backup | `safety/state_backup.py` | archives, metadata, hash of the last backup | back up, roll, restore |
| Endogenous impulses | `consciousness/endogenous.py`, `initiative.py`, `watcher.py` | impulse buffer, cooldowns, counters of needs, snapshot, events | register, collect, track, evaluate, scan, drain |
| Observation factory | `consciousness/observation_factory.py` | candidates with support and age | observe, tick, save, load |
| Cognitive state | `consciousness/state.py`, `luna_common/consciousness`, `phi_engine` | psi, Psi0, phase, metrics, emergent phi, checkpoint | evolve, move the phase, refine phi, checkpoint, load |
| Thinker, Reactor, Decider, Evaluator | `consciousness/*.py` | none but the cycles' memory of rewards | observe, find causes, needs, proposals, deepen, react, decide, judge |
| Episodes, causal graph | `consciousness/episodic_memory.py`, `causal_graph.py` | bounded episodes, links, counts | record, evict, load, reinforce, promote, prune |
| Affect | `consciousness/affect.py`, `appraisal.py` | affect, mood | appraise a turn, relive an episode, rest, save |
| Self-improvement, lexicon | `consciousness/self_improvement.py`, `lexicon.py` | threshold, proposals, words | mature, propose, learn, save |
| Identity | `identity/*.py` | bundle, ledger | hash, verify, recover, append |
| Voice | `llm_bridge/voice_validator.py` | corrections made | check, sanitize, signal |
| Autonomy | `autonomy/window.py`, `safety/snapshot_manager.py` | level W, cooldown, outcomes, snapshots | evaluate, apply, roll back, escalate |
| Requests | `api/middleware/*.py`, `api/app.py` | windows of timestamps, token | limit, sweep, authenticate, answer |
| Validation | `validation/*.py` | results | run the corpus, compare, judge |
| The rest | CLI, dashboard, exporters, runners, simulations | | see `PROJECT.json` |

**How they interact.** `CognitiveLoop.start` starts the heartbeat and the tick loop and
owns the engine; `ChatSession.start` attaches to it and from then on writes to the same
`ConsciousnessState`, initiative engine, endogenous source and observation factory. The
loop's tick leaves the collection of impulses and the dreams to an attached session. The
session runs five more tasks: user turns, endogenous turns, the inactivity watcher, the
idle cognitive tick, and the garbage collection that follows a dream. None of them takes
a lock on the shared state. The sentinel file is how another process asks for a stop.

**What is hard.** Two turns in flight at once; a rollback that spans an await; five ways to
start a dream and no common guard; file pairs (data and index, archive and source) written
one after the other; read-modify-write of archives in worker threads; files found unreadable
and replaced by empty ones; cancellation that arrives inside a clean-up.

**What makes each part correct.** The breaker: it probes in the end. A turn: it ends, and its
contribution to psi survives its own rollback. The history: no message is lost or moved across the
session's border. The stop: a killed heart beats no more, no stop it has read is forgotten, every
request is heard while it beats. Dreams: entries in order, one sleeper, the sleeper wakes. The hand-over: one owner of the
state, no step and no impulse lost. Files: what a write returned is found, no save replaces a file
by less, a backup that is skipped is not needed, a ledger's verdict is true of the documents. What
two parties share (sensors, impulses, anchors, metrics) counts once and agrees. And of the rules
of thought, speech, feeling and learning: that what several of them decide together is what each of
them is written for, e.g. that sensors stay below their fifth after every cap, that a tuned
parameter is never worse on the cycles it was tuned by, or that a validated mind is better.

## 2. Modules

An arrow `<-` means EXTENDS, `=>` means "is shown to implement". A composing MC module has a
variable `part`, chosen by the first state, that says which of its components moves: they share
no state, and one run serves them all.

    CircuitBreaker <- BreakerCalls <--+
                      Impulses <------+
                      CycleStore <----+- MCParts        Parts_proofs (all of MCParts),
                      SavedState <----+                 BreakerCalls_proofs
                   EmergencyStop <----+
                        Requests <----+
    CircuitBreaker <- ChatTurns <- MCChatTurns          ChatTurns_proofs
                      ChatTurns => BreakerCalls
    Dreams, Sensors, Initiative, Vigil, Growth <- MCInner    Inner_proofs
    Archives <- MCArchives                              Archives_proofs
    Archives, ChatHistory, Backups, Identity,
                             Scores, Handoff <- MCStores     ChatHistory_, Stores_proofs
    Thinker <- TurnRules <------------+
    Consolidation, Recall, Phases,    |
    EmergentPhi, Autonomy, Voice,     +- MCMind         Mind_proofs
    Affect, Optimizer, Verdict <------+
    Sums <- Thinker, Optimizer, Verdict

`MCArchives` instantiates one component for a run that expects a violation, with a symmetry; the
other such runs check a component's module or a composing module itself. `Sums` adds up lists.

Each module carries mutated forms of some of its own definitions, marked as *Mutants* in
the comment before them and used by no specification. Putting one in the place of the
definition it names is a plausible slip in the code, and breaks the property that
`PROJECT.json` lists beside it: this is how we know that the property looks at the code.

Numbers: a module that computes works in integers, thousandths of the code's floats unless its
header says otherwise. Bounds of this arithmetic are exact where a property depends on them;
where a float is a correlation or the solution of a differential equation it is a choice.

### The running process

**CircuitBreaker, BreakerCalls.** `CircuitBreaker` holds the breaker's state (`_state`,
`_failure_count`, and the age of `_last_failure_time`) and its operations as action fragments. The
clock is that age, in ticks, saturating at `recovery_timeout`, since the code compares it with
nothing else. `Current` is what the `state` property returns: reading it is a write, so every
reader is an action. `BreakerCalls` is the abstract specification: any number of callers, each with
at most one call in flight, whose answers arrive in any order, or never (`Abandon`).

**ChatTurns.** One coroutine for a user's turn, one for an endogenous turn (`_watch_endogenous`),
and the tasks that evolve the same psi: heartbeat, idle tick. `pc` is the await a turn is at (memory
search, dream, LLM call, seed memory), and an action is the code between two awaits. Psi is the
set of evolution steps it integrates; `psi_before_llm` is `saved`. `LLMFails` rolls back to it;
`Aborts` is the error `send` does not catch, which ends the REPL when the turn was the user's. The
breaker is `CircuitBreaker`'s, and `BreakerSpec` says that the session uses it as `BreakerCalls`
allows. Assumed: `idle_heartbeat` is on (its default).

**Dreams.** The five callers that start a dream, the `SleepManager`, and what the third phase of a
legacy cycle does to `cs.history` from a worker thread, while the causal graph is immature.
`Look` separates the test of the sleep state from its assignment only when the dashboard serves
the API in a thread of its own. **Consolidation** is the mature cycle, which runs without
an await: skills, priors and their age, Psi0 with its projection, the evaluator's copy of it, the
journal's lines (an entry, no JSON, or half a character; with their newline or without, so that the
next is glued to them). Over a journal that cannot be decoded no dreamer starts. Who dreams is a session (when it starts after a long absence,
from a turn, when idle) or, in a daemon, the loop; a kill may come between any two saves or cut the
journal's line, and the append may fail, which is swallowed.
**Optimizer** is the search such a dream makes: samples from any distribution over `Draws`, clamped,
judged by a replay of the last cycles.

**EmergencyStop.** The sentinel file, the kill switch, the heartbeat with its self-cancellation and
its audit line, the chat session and the API's stop. `HeartFails` is an audit line, a checkpoint or a
sentinel that raises out of `_run`; `AuditEnd` says how the audit of the stop itself ends the task:
cancelled by its own `kill`, or by the error of the write where the switch is disabled. `Watchdog` watches nothing at this commit,
because no caller outside the tests reports to it: its stop is not an action.

**Vigil.** The rest of the heartbeat: `Conditions` are the states psi, phi and phase may be in,
`LunaEvolves` is anybody's step, a beat compares them with the beat before and decides the interval,
an alert and one audit line per anomaly; a line that cannot be written ends the heart. **Sensors**:
watcher, its ring buffer, the factory that tick and turn both advance. **Initiative**:
the counters of needs, phi's decline, the cooldown, the curiosity; both turn and idle tick use them.
**Growth**: maturity, proposals by turn and tick, words, and what a kill costs them.

**Impulses.** The one buffer of `EndogenousSource`, what every subsystem pushes into it, and its
three collectors: the user's turn, the session's watcher (whose turn carries the impulse through
search, LLM and record) and the loop's tick when no session is attached. `since` is the step
count less `_last_emit_step`, saturating at the cooldown; the heartbeat, the idle tick and the
turns make those steps. `told` is what the REPL has printed or the loop's journal has taken;
`Handoff` follows the journal from there. Its idle timers are left to chance.

**Requests.** What the API's middleware does to a request before and after its route: the window of
its address, the sweep, `Retry-After`, the token. Requests overlap in their routes.

### One turn, one mind

**Thinker** is `Thinker.think` rule by rule: what is observed in a stimulus, causes, needs,
proposals, the iterations, the synthesis. The four vectors' correlation is any value of
`Confidences`. **TurnRules** continues with what a turn makes of the thought: deltas with the
sensors' capped contribution, decision, reward, dominance. **Voice** is the validator: a reply is a
row of cells, a violation a span of them; that repeated timestamps are collapsed (`voice_validator.py:191`)
and spaces before the note stripped (`:313`) is left out. **Affect** is appraisal, affect, mood through turns, dreams
and restarts. **Recall** is the episodic memory and the causal graph with their files. **Phases** and
**EmergentPhi** are the state's phase under thresholds that move, with `PhaseTransitionMachine` as
its reference, and the estimate of phi with memory that runs out. **Autonomy** is the window W:
evaluation of ghosts, the application of a change file by file with tests and rollback while cycles
go on. **Verdict** is the benchmark by which all this is said to be of use.

### What is on disk

**ChatHistory.** Messages are numbered in the order they are said. `history` is `_history`, `start`
is `_session_start_index`; `file` and `archive` are the two JSON files, each replaced atomically.
`Answer` is `_finalize_turn` with its trim, `Finish` the checkpoint every `checkpoint_interval`
turns, `Stop` the save at the end, `Crash` a kill. `Start` restores any turn count, since dreams and
the stop save it too.

**Archives.** `_run_gc` after a dream: `archive_old_dreams` on the event loop, then `archive_cold`
in a worker thread that the next dream does not wait for. Each reads the archive, appends and
unlinks file by file, and writes the archive at the end. Faults: a kill, an unreadable archive, a
write that fails, a file that stays. At this commit nothing writes `insights/dream_*.json`, so the
dream archive only meets the files of older versions (`Insights`).

**CycleStore.** One file a day, the index in memory and the index on disk. An append cut short is
`"bare"` (all but the newline), `"cut"` or `"split"` (inside a character). What a file yields is
`Readable`: a line glued to what a cut append left does not parse, and a file with a split
character cannot be decoded at all. `Opens` trusts a readable index; a rebuild that raises leaves
the process without any component (`CannotOpen`).

**SavedState.** The component files in the order of `save_v35_state`, one of them
(`affect_engine.json`) written in place. A file or a component is the era it began in and its
worth, the amount of what was lived that went into it. `Boot` loads all or, with one cut file,
nothing; `MoveFile` is the loop of `epoch_reset`, a process of its own. `InPlace` and `Statistical`
are constants read off the code in the cfg.

**Backups.** A file is a stamp (content, size, time of change), which a restore brings back; a backup
is due when the hash of the stamps moved, kept in memory only. **Identity**: versions of the founding
documents, ledger lines that are a bundle, an event, no JSON or half a character, with their newline
or without, two processes starting; a line keeps the bundles whose text is in it (`versions`). **Scores**: the metrics that
turn, heartbeat and stop each save in one checkpoint; a metric is the number of measurements in it.

**Handoff.** Chats and daemons are processes, each with a copy of psi and of the journal loaded at
its start; what they share is on disk: PID file, tmux session, checkpoint, journal. The launch,
`_kill_existing_daemon`, the load, the PID, the attachment, the display of the journal, the saves, and
the spawning of a daemon at `/quit` are separate actions, and a process may be killed between any two.
`write_text` of the journal is two steps, either of which may fail (`behind`: the daemons that hold
more than the file); so may the emptying of the file when a chat attaches (`again`: what was left in
it). The checkpoint is a rename. `lost` and `unseen` are what died with a daemon and with a chat. `Patient` is the assumption on users that
separates the passing run from the violation: nobody starts a chat while a daemon has yet to write
its PID file. Left out: the daemon with `--api` (uvicorn decides its shutdown), recycled PIDs.

## 3. Runs

| Run | Components and instance | Shows |
|---|---|---|
| `turns_pair` | a user turn and an endogenous turn, one retry, threshold 1, timeout 2, 8 steps | a turn that meets no other keeps its steps (`LoneTurnKept`), turns end (`EveryTurnEnds`), and the session implements `BreakerCalls` |
| `parts` | breaker: 3 callers, threshold 3, timeout 3 | it probes in the end (`EventuallyProbes`) |
| | impulses: 2 urgencies, buffer of 2, cooldown 3, 4 impulses | told once (`ToldOnce`), lost only in the named ways, the weakest first (`OnlyTheWeakVanish`) |
| | cycle store: 2 days, 4 records, 3 faults | acknowledged records are found (`AckedAreFound`) |
| | component files: 3 files, 2 eras, 2 mishaps | saves never lose (`WorthGrows`), eras stay apart (`EraIsolated`) |
| | emergency stop: 3 requests, switch enabled or not | a killed heart stops, and what stopped it is on record though writes fail (`StopHolds`), a request is heard unless an error ends the heart (`StopIsHeard`) |
| | requests: a client and a proxy, 2 a window, sweep every second one, 2 in flight | no window holds more than its limit, and `Retry-After` is true (`LimitIsFair`) |
| `inner` | dreams: five callers, 2 threads, 2 places | history in order and one sleeper (`DreamsInOrder`), who wakes (`AlwaysWakes`) |
| | sensors: 1 path, buffer of 3 events | no event counts twice (`SensorsAreEarned`), unused ones go (`UnusedSensorsGo`) |
| | initiative: one need, three values of phi | a standing need is voiced again and again (`NeedsAreVoiced`) |
| | vigil: 3 beats over a resting, a drifted and a broken state | each fall is on record once (`FallsOnRecord`) |
| | growth: phi_iit of .6, 1.5, 1.7; two ideas, one word | nothing but integration ripens a proposal (`RipeByIntegration`) |
| `stores` | archives, chat history, backups (window of 1), identity (2 versions, 2 processes), metrics (2, 4 measurements), hand-over (2 chats, 2 daemons, a step, 3 impulses) | nothing is erased without a failure (`OnlyFailuresErase`, `OnlyFailuresDelete`), sessions are whole (`SessionsWhole`), a restore finds what it should (`RestoreFindsIt`), the ledger's verdict is true until a cut line swallows a record (`IntegrityHonest`), metrics are kept (`MetricsKept`), one owner (`OneOwner`), no step lost (`WorkKept`), the journal shown exactly once, but for what died with its only holder (`JournalExact`) |
| `mind` | thinker and turn: some thousand stimuli | what a thought is summed up by is near the top of its needs, and the three rules it never meets (`ThoughtsHold`); promoted sensors move psi by a fifth at most (`FifthAtMost`) |
| | consolidation: 3 dreams, 2 lines cut short, any number of kills | while the journal can be decoded, a line cut short costs it two dreams at most, and evaluator and state agree on Psi0 (`CutsCostLittle`) |
| | recall: 3 tags | tags that came together often enough are linked both ways, across restarts (`TiedTagsLinked`) |
| | phases: phi up to 17/8; precision up to step 21 | one step brings the phase to the one that the phi engine's machine would be in (`PhaseConverges`), the precision reported was computed, through failures and restarts (`PrecisionHonest`) |
| | autonomy: one change of 2 files | after a rollback nothing is applied for three cycles, and a restored directory is as it was (`RollbackIsFelt`) |
| | voice: replies of 4 cells | every span is replaced and nothing else touched (`SpokenAsCorrected`) |
| | affect: 4 turns of feelings | she is never aroused, and the rules for it never fire (`StaysCalm`) |
| | optimizer: 2 generations | tuned parameters are never worse on the cycles they were judged by (`NeverWorse`) |
| | verdict: a corpus of 3 tasks | a mind is validated only if it did better on average, on the same tasks (`ValidatedIsBetter`) |
| `turns_lost_update` | as `turns_pair`, threshold 2, 7 steps | **violation** (`OwnStepsKept`): the rollback of one turn takes back the other's input |
| `history_cut_turn` | limit 4, turns may be cut off | **violation** (`NeverDeleted`) of "messages are NEVER deleted": a turn cut off leaves one message more than `stop` saves |
| `dreams_two_sleepers` | heartbeat and API, dashboard thread | **violation** (`OneSleeper`) of "cannot enter sleep if already sleeping" |
| `archives_overlap` | 2 seeds, 2 collections, no fault | **violation** (`NeverErased`) of "never deleted": the second collection overwrites what the first archived |
| `handoff_hasty` | as the hand-over, 3 daemons, users in a hurry | **violation** (`KillsAnyDaemon`) of "kill any running autonomous daemon before starting chat" |
| `recall_founding` | as `mind` | **violation** (`FoundingStay`) of "pinned survives decay and FIFO": a full memory loses its founding episodes at the next start |
| `voice_override` | as `mind` | **violation** (`ContradictionsBlocked`) of "blocks emotional contradictions": such a reply is spoken as it came |

A composed run says of a component what a run of its own would: the others keep one initial
state, and fairness and liveness are guarded by `part = ...`. `PartsTypeOK` is the type invariant of
`parts`.

**Why the bounds suffice.** Each is the least number at which every interesting case occurs.
Three callers let a late failure, a late success and a probe overlap. Two origins are all the code
has. Three steps (one entry kept, one dropped, one made meanwhile) and two threads let one stale
copy be published over another. Nine messages are four turns and a half: two sessions that trim, with
a restart between. Two faults let a failure hit the recovery from another (three in the cycle store). Four
impulses overflow a buffer of two while one is carried. Three files are one before, one after and
the one written in place. Two daemons are the one replaced and its successor. Two requests a window
and two in flight let an address be swept, refused and served in each order. Three beats are a
fall, its repetition and a recovery. Four cells and three spans hold nested, adjacent and distant
violations. Two cuts among three dreams leave a line open, glue another cut or
an entry to it, and one whole. Three
episodes overflow a memory of two with one founder. Step 21 lets the precision grow, fail, freeze and be
retried at a Fibonacci step. Two generations let the best sample come first and the mean move away.
Bounds are constants that begin with `Max` (and `Cells`, `Generations`, `Draws`); each is a guard of the
action that counts, and `RoomFor` in `ChatTurns` reserves the steps a turn in flight still needs, so
that a bound never stops a turn half way. Deadlock is checked except where the bounded inputs may
run out (`ChatTurns`, `MCStores` for history and hand-over).

**Values.** The Thinker's stimuli (`Moods`, `FeltAs`, `ToldOf`) vary psi, phase, phi, needs, episodes,
rewards and sensors over values on both sides of each threshold, one group of inputs at a time; the
product of all is out of reach. `Factor` (the weight of Integration's needs; the other three keep their default), `Draws`,
`ReplayCycles`, `Corpus`, `Tendencies` and `Marks` are chosen so that each rule fires and each clamp binds in some
state.

**Fairness.** `EveryTurnEnds` assumes that each await of a turn ends: a provider's client has
a timeout, and the memory's reads and writes are local. `EventuallyProbes` assumes
that time passes and that somebody reads the breaker. `AlwaysWakes` assumes only that the
timer of `wait_for` fires, nothing of the worker threads. `StopIsHeard` assumes
that the event loop runs each of its ready tasks, and that a dream or a turn ends; files may fail at
any time, and a heart that fails of it hears nothing more, which the property says.
`UnusedSensorsGo` assumes the loop's tick, `NeedsAreVoiced` the session's idle tick, which are tasks
that sleep and run. No fairness is assumed of users or of other processes.

**Symmetry** is used for the entries and collections of `Archives`, whose properties in `MCStores`
never order or choose their elements.

## 4. Proofs

TLAPS proves, for every value of the constants (no bound on failures, messages or steps is
used beyond its being a natural number):

| Module | Theorems | Invariant and argument |
|---|---|---|
| `BreakerCalls_proofs` | `BreakerTypeCorrect`, `BreakerAgreesWithCounter`, `BreakerCoolsDown`, `BreakerBlocksWhileHot`, `BreakerClosesFromHalfOpen` | `BreakerInv`: type, closed exactly below the threshold, half open only when cooled. The three together are inductive: a success in HALF_OPEN resets the counter, so the second conjunct needs the state, and a failure trips at the threshold, so the state needs the counter |
| `ChatTurns_proofs` | `TurnsTypeCorrect`, `SessionImplementsBreaker`, `LoneTurnKeepsItsSteps`, `LoneRollback` | `LoneInv`: while a turn is alone, its copy of psi lies within psi, precedes everything evolved since, and holds the turn's steps so far. The refinement maps each action to one of `BreakerCalls` or a stutter |
| `ChatHistory_proofs` | `HistoryTypeCorrect`, `HistorySplitsSessions`, `ConversationKept`, `HistoryWhole` (both: `SessionsWhole`) | `StartSplitsSessions` is inductive with the types, since `Shift` and `Excess` agree. `WholeInv`: until something fails, archive and history (between sessions, archive and file) are the conversation, a history that no turn is about to trim fits the limit, so that `stop` saves all of it, and a file is empty as long as the history is |
| `Stores_proofs` (hand-over) | `HandoffOneOwner`, `HandoffKeepsWork`, `HandoffShowsOnce` (`JournalExact`) | under `Patient`; `OwnerInv`: two processes are alive only while a chat just launched takes over from the daemon of the PID file, and an owner's psi holds every step of the checkpoint. `JournalInv`: who has loaded the file, and every daemon, holds what is in it; a shown impulse is neither in the file nor in a journal that may still be shown or written, unless the file could not be emptied; one that is not shown is in the file, or in the hands of a process that has yet to write or show it, or died with one |
| `Stores_proofs` (backups) | `RestoreFindsAlways` (`RestoreFindsIt`) | `BackupsInv`: whatever the last hash says of a file is archived, or written over with a stamp that never comes back but from an archive; the rolling window lies in the directory, and the roll moves only what is older. What `Exceeding` gives to the roll is exactly what is before the window, by the cardinality of intervals |
| `Stores_proofs` (identity, metrics) | `IdentityIsHonest` (`IntegrityHonest`), `MeasurementsStay` (`MetricsKept`) | `IdentityInv`: the ledger forgets no text that was written and mends no line; what a process holds was written, and what it holds to be altered stands on a line that cannot be parsed. `ScoresInv`: the cached checkpoint is the file's, the scorer is never below it, and the tracker knows what the file calls measured |
| `Inner_proofs` (dreams) | `DreamsStayInOrder` (`DreamsInOrder`) | `DreamInv`: the history and every worker's copy are chronicles, ordered and of steps that were made. `SleepInv`: one managed caller dreams at most, and exactly while the manager sleeps |
| `Inner_proofs` (sensors, vigil, growth) | `SensorsHaveEarned`, `EveryFallOnRecord`, `ProposesByIntegration` | `SensorsInv`: support held and events still queued are together at most what was emitted, the file holds no more, and who is heard has earned it. `VigilInv`: the heart remembers the last beat, the alerts of the present beat tell of its fall, lines and entries are of past beats and each fall past its audit has one. `GrowthInv`: a product of parts of two wholes is at most that of the wholes, so that maturity without integration stays below the threshold |
| `Archives_proofs` | `ArchivesTypeCorrect`, `ArchivesVividStay`, `ArchivesOnlyGrow`, `ArchivesLoseNothing` | `VividInv`: what is listed, in hand or archived is faint, and of the kind of its store. `GrowInv`: without overlap and unreadable archives, one collection at a time is at a store, and its copy of the archive is the archive. `LossInv`: a memory appended and not yet deleted still has its file |
| `Parts_proofs` (stop) | `StopTypeCorrect`, `StopKillsHeart`, `StopLeavesCause`, `StopIsRecorded`, `StopStays` (all: `StopHolds`) | `StopInv`: the task of a live heartbeat is registered with the switch; the switch is only thrown where it is enabled; a heart that was cancelled, or that stopped where the switch is enabled, has had it thrown |
| `Parts_proofs` (impulses) | `ImpulsesToldOnce`, `ImpulsesRarelyVanish`, `ImpulsesStrongestFirst`, `ImpulsesTypeCorrect` | `ImpulsesInv`: every place holds only numbers given out, the places are disjoint, an idle turn carries nothing. Overflow compares cardinalities: what one of two pushes drops is outranked in the union of all that was there; the rank of an element bounds how many are kept |
| `Parts_proofs` (cycle store) | `CyclesTypeCorrect`, `AcknowledgedFound`, `IndexPointsAtLines` | `CyclesInv`: an acknowledged record has its line in some file and no other entry (else a rebuild could index a cut one); each index, in memory while open and on disk while readable, covers the acknowledged records that no cut append precedes, and points at lines |
| `Parts_proofs` (component files) | `SavedTypeCorrect`, `SavesGainWorth`, `CutFilesStay`, `SavedPrefix`, `EraKeptApart` | `MemAhead`: who is up holds at least what the files hold. `Ordered`: in the first era components and files fall along the order of the pass, and behind the pass they agree. `Isolated`: an undisturbed reset runs while no process is up, and what it has not listed or has moved is of its era |
| `Parts_proofs` (requests) | `LimitStaysFair` (`LimitIsFair`) | `LimitInv`: an entry is in order and never over the limit, and the passes that have not expired are its last elements (`Covered`), though sweep and purge take entries away: they only take what has expired. So the pass that makes `Rpm + 1` finds the first of them expired, and what was promised to the refused is later than the entry's oldest time |
| `Parts_proofs` | `PartsKeepTheirTypes` (`PartsTypeOK`) | `PartsInv`: the invariants of the six components together; five keep theirs while one moves |
| `Mind_proofs` (phases, precision) | `PhaseAlwaysConverges` (`PhaseConverges`), `PrecisionStaysHonest` (`PrecisionHonest`) | the phase after one step is compared with the engine's machine level by level, for any thresholds the emergent phi may give; a load never falls below the phase saved. `EmergentInv`: what is in memory and in the snapshot was `Computed`: refined only after the bootstrap, and no further than the steps allow |
| `Mind_proofs` (autonomy, consolidation) | `RollbackAlwaysFelt` (`RollbackIsFelt`), `CutsAlwaysCostLittle` (`CutsCostLittle`) | `AutonomyInv`: cooldown left and cycles since add up; while a change is applied, the snapshot holds every guarded file as it was. `DreamerInv`: the dreams without an entry, and what the next line will cost while the last is open (one, or two when it holds an entry that only lacks its newline), are at most twice the cuts; the anchor is Psi0 also while nobody lives |
| `Mind_proofs` (recall) | `TiedAlwaysLinked` (`TiedTagsLinked`) | `GraphInv`, in memory and in the file: a pair was seen as often as its reverse, there are no weak links, and what is tied is linked |
| `Mind_proofs` (optimizer, verdict) | `NeverInstallsWorse` (`NeverWorse`), `ValidatedAlwaysBetter` (`ValidatedIsBetter`) | `TuningInv`: the best vector found is within its bounds and judged, by the cycles replayed, no worse than the one in force. `VerdictInv`: both runs report the tasks in order, the second after the whole first; four criteria of five include the better mean or the effect size, and an effect of that size is a better mean |
| `Mind_proofs` (affect) | `AlwaysCalm` (`StaysCalm`) | `CalmInv`: arousal is at most 552 thousandths, in memory and in the file: an appraisal yields no more, and every later value is a mean of two such, whichever episodes are felt again |
| `Mind_proofs` (voice) | `VoiceSpeaksCorrected` (`SpokenAsCorrected`) | the spans replaced so far, those of the first places, leave the reply as if only they had been marked: a span further to the front lies before all of them, so that up to its end the text is still the reply's and its offsets hold |
| `Mind_proofs` (thinker, turn) | `ThoughtsAlwaysHold` (`ThoughtsHold`), `SensorsAddAFifth` (`FifthAtMost`) | `TurnInv`: the stimulus is sane (psi and the state before it on the simplex, numbers where the rules compute, a finite graph), and the thought has the tags, needs and strengths its rules give. Needs are sorted when found (`InsertAt` behind all as pressing keeps the order); each is questioned once at most, at depth 5, by a factor of .618, so that none behind is above one in front by more than that; depth 7 changes no vector, the confidence stays and the thought ends at 8, before metacognition; links start at .382 and only grow; two points of the simplex differ by zero in the mean. For the sensors: the thought has some delta of its own, and shares of the cap, rounded down, add up to the cap at most |

The assumptions are the `ASSUME`s of the modules, and `Patient` where it is said.

**Inductions over data.** Sums, replays, relived episodes and replacements are recursive functions in
the model, over an index. The library's induction theorems cannot be used (their parameter is an
operator), so `Mind_proofs` begins with three lemmas that do without: `LeastOf` takes from the library
that a set of naturals has a least element, `UpTo` is induction over an interval, stated of a set
instead of an operator, and `Iterated` says that a recursion from step to step defines a function. What is
proved of such a definition is proved for sequences of any length. Sorting is stated by rank or
place (`Place` in `Voice`, the rank in `StrongestAreFew`) where the order of equals does not matter;
the Thinker's is the stable insertion of one need after the other.

**Model-checked only.** Liveness (`EventuallyProbes`, `EveryTurnEnds`, `AlwaysWakes`, `StopIsHeard`,
`UnusedSensorsGo`, `NeedsAreVoiced`) is out of the prover's reach. Every safety property of a
passing run is stated by a theorem. Theorems without a `property` in `PROJECT.json` state facts that no run
checks, or only as a part of a property that one checks.

## 5. Divergences met, without a run

One line of code shows each of these; a state space adds nothing.

- `circuit_breaker.py:6` and `:32` promise "a single probe request": `allow_request` keeps no
  record of the probe, so several turns pass a HALF_OPEN breaker. `circuit_breaker.py:5` says an open
  breaker freezes Psi; a rejected turn evolves it three times.
- `session.py:1681` answers "Session terminee." to a sentinel, and the session stays started;
  having removed the file, it hides the request from the heartbeat. `kill_switch.py:23`: the
  cognitive tick does not ask whether the switch is thrown, and goes on. `luna kill` does not stop the daemon's process.
- `session.py:520`: an unreadable archive is replaced by a fresh one.
- `endogenous.py:34`, `initiative.py:47`: "minimum turns between" counts evolution steps, of
  which a turn makes two or three and the idle tick one more every minute.
- `watcher.py:169`: `drain_events` is "called by session.py before each Thinker.think()", but the
  loop's tick drains the same queue, and `session.py:2840` says that promotions become
  impulses, but the loop's tick (`cognitive_loop.py:947`) drops the events of `factory.tick()`.
- `observation_factory.py`: a demoted candidate is never promoted again, and no watcher event is
  severe enough for `register_watcher_event` to push an impulse.
- `cycle_store.py:237` skips "malformed" lines one by one, but the file is decoded as a whole: a line
  cut inside a character hides its day, and makes the rebuild of an unreadable index raise, upon which
  `cognitive_loop.py:714` gives up all components.
- `dream_journal.py:189`, "Bad lines are logged and skipped - never crash on corrupt data": entries are
  written with `ensure_ascii=False` and hold dashes of several bytes (`thinker.py:1024`), the file is
  decoded outside the `try` that skips lines, and `except OSError` (214) lets `UnicodeDecodeError` pass:
  a line cut inside a character hides every entry, and `cognitive_loop.py:713` gives up all components.
- `core/luna.py:405`, "does NOT halt": a ledger line cut inside the dash of a RESTORED intent
  (`recovery.py:170`) makes `history` (`ledger.py:101`) raise, and no process starts until it is mended.
- `cognitive_loop.py:1143` empties the journal's file when a chat attaches, and the REPL shows the journal
  some awaits later (`repl.py:302`): a chat killed between takes the impulses along, whereas the journal
  "survives restarts" (`cognitive_loop.py:807`). `JournalKept` excepts them as `unseen`.
- `affect_engine.json` is the only component file written in place (`cognitive_loop.py:785`,
  `session.py:686`) and its load the only one that does not tolerate a bad file: one kill degrades every
  later process until a reset moves the file.
- `epoch_reset.py` isolates eras, but a running process writes back what was moved, and neither
  `dream_priors.json` nor the self-improvement, session-state and journal files are moved.
- `session.py:2061` counts curiosity "without resolution": the counters are not reset when a need is resolved.
- Requests: a refused token counts in the window like an answer; an answer makes the entry anew
  that a sweep took away; a limit of 0 or less switches the limiter off; the token is read once,
  at start.
- Validation: `verdict.py`'s docstring asks for 60 % coherence where the default is 0.80, and calls
  "< 3/5" decorative, which 3/5 is too; tasks "in isolation" share one engine; a baseline task that
  fails scores 0 and so counts as an improvement; no verdict uses the p-values.
- Heartbeat: the alert manager is told the severity of the first alert only; an audit line or a
  checkpoint that cannot be written ends the task, nothing starts it again, and a sentinel then waits
  for the next message or the next process; with the switch disabled the same error loses the stop read; the monitor's
  memory of the previous vitals is empty after a restart; the "sleep" rhythm is never chosen.
- `voice_validator.py`: `EMOTIONAL_OVERRIDE` is not among `VOICE_CATEGORIES`, so `VoiceDelta` raises
  and `session.py:1919` swallows it (run `voice_override` shows the reply); a violation inside
  another one moves the outer one's end; `lexicon.words()` (line 375) does not exist.
- Optimizer: a parameter that no replay depends on drifts with each improvement of the others.
- Scores: `phi_scorer.snapshot_values()` (`session.py:1471`, `cognitive_loop.py:541`) does not exist;
  a metric that is not a number becomes 1.0; a checkpoint without sources comes back as bootstrap.
- Identity: documents that were altered are anchored anew without a word, so that "Alterations are
  detectable" (`ledger.py:4`) asks for a reader of the ledger; `recovery.py` promises to halt if all
  fails and does not.
- Recall: the idle tick calls `recall(query="", ...)` (`session.py:1159`), which is not its signature;
  the `TypeError` is swallowed. A link from a tag to itself is reinforced like any other.
- Backups: a file that cannot be read is passed over and yet counts as saved in the hash; a restore
  asks nobody whether LUNA runs.
- Emergent phi: refinement puts the constant in the place of the value found; the step at which the
  precision freezes is not saved.
- Autonomy: escalation weighs the same outcomes again each cycle; a snapshot covers the directory of
  the first file only; a kill while a change is applied leaves it half written, and no cooldown.
- Thinker: metacognition and the 30 to 100 iterations of REFLECTIVE (`thinker.py:234`,
  `docs/MATH.md:895`) never happen, 8 is the most; the counterfactual of a weak link cannot be
  reached; `session.py:1318` omits the synthesis from the base thought, so that a promoted sensor
  may move the deltas by more than the 20 % of `observation_factory.py:42`.
- Consolidation: `update_psi0` projects by a softmax, so that one dream moves Psi0 by more than
  the cap ("Movement capped at max_delta", `learnable_optimizer.py`), and the cumulative cap never
  binds; each dream learns the same cycles again; the dream that catches up does not ask for maturity.
- Affect: the rules for high arousal cannot be reached (`docs/COGNITIVE_ARCHITECTURE.md:217`), and a
  happy memory recalled lowers the valence.
- Redis: `redis_store.py:20` promises a reconnection that only the constructor tries.
- Operations with no caller outside the tests: `CycleStore.consolidate`, `enforce_retention`,
  `reflection.persist_insights`, `MemoryManager.record_access`, `promote`, `search_cold`,
  `AutonomyWindow.auto_apply`, `SafeAction`, `Watchdog.report`, `DreamCycle.record_activity`,
  `InitiativeEngine.record_outcome`, `SelfImprovement.record_result`, `Lexicon.decay` and
  `get_intent`, `CausalGraph.weaken` and `decay_all`, `EpisodicMemory.decay` and
  `recall_autobiographical`, `process_pipeline_result`, `veto`, `detect_system_illusion`, and all of
  `message_bus` and `task_queue`.

## 6. Plan

The modules planned are written. What is left is to compose more:

1. `Thinker`, `Recall` and `Consolidation` over one causal graph: here the Thinker's graph is an
   input, and maturity is a choice of the dream's.
2. `Scores`, `Phases` and `Handoff` over one checkpoint: each has the part of it that concerns it.

## 7. Not modelled, and why

- The providers' HTTP clients and prompts: input and output; their outcomes are the choices of
  `ChatTurns`. The wording of prompts, replies and reports.
- Runners that call external tools for metrics, and their parsers: a metric is a number here.
- The evolution of psi and the phi engine in floating point. A step of psi is an identity where the
  question is which steps psi contains, and a value of a small set where rules read it.
- `luna/dream/simulation.py`, which `.gitignore` leaves out of the repository, as it does the
  emotions' repertoire. The telemetry and synthesis of emotions, which nothing reads back.
- Fingerprints, the message bus, the task queue, the token bucket: no caller runs them, or only asks
  for their status.
- Prometheus and Redis exporters, the dashboard, the command line and the API's routes: each calls one
  operation modelled elsewhere. The scripts under `simulations/`, which draw figures.

`PROJECT.json` has the reason for each component.
