------------------------------ MODULE Handoff ------------------------------
(***************************************************************************)
(* The processes that run Luna, one after the other, over the same files:  *)
(* a chat ends the daemon and takes over (run_repl), and leaves a daemon   *)
(* behind when it ends; the user may also start a daemon (luna start).     *)
(*                                                                         *)
(* What they hand over are the checkpoint, abstracted to the set of        *)
(* evolution steps it integrates, and the journal of impulses a daemon     *)
(* collects while no user is there, which the next chat shows.  A process  *)
(* is found by the PID file or by the name of its tmux session; SIGTERM    *)
(* and SIGHUP end a daemon at once, wherever it is (no handler).           *)
(***************************************************************************)
EXTENDS Integers, Sequences, SequencesExt, FiniteSets

CONSTANTS
    Chats,          \* launches of luna chat
    Daemons,        \* launches of luna start, by a user or by a chat
    Machines,       \* {TRUE}: with tmux; {FALSE}: without; BOOLEAN: either
    Patient,        \* users launch nothing beside a chat, nor beside a daemon
                    \* that has not written its PID yet
    MaxJournal,     \* the 13 of _do_tick
    MaxImpulses,    \* bound on impulses
    MaxSteps        \* bound on evolution steps

Nobody == "nobody"
Torn == <<0>>       \* a file cut short; no impulse is 0

ASSUME HandoffAssumption ==
    /\ Chats \cap Daemons = {} /\ Nobody \notin Chats \cup Daemons
    /\ Machines \subseteq BOOLEAN /\ Patient \in BOOLEAN
    /\ MaxJournal \in Nat \ {0}
    /\ MaxImpulses \in Nat /\ MaxSteps \in Nat

Procs == Chats \cup Daemons

VARIABLES
    tmux,           \* tmux is installed
    stage,          \* where each process is
    psi,            \* the steps the engine of each process integrates
    journal,        \* _autonomous_journal of each process
    pidFile,        \* the process luna_daemon.pid names
    tmuxSession,    \* the process in the tmux session luna-daemon
    checkpoint,     \* the steps the checkpoint file integrates
    journalFile,    \* autonomous_journal.json
    steps,          \* evolution steps so far, of all processes
    impulses,       \* impulses collected so far, of all processes
    behind,         \* the daemons whose last write of the journal failed
    shown,          \* history: how often each impulse was shown
    gone,           \* history: impulses the cap of the journal dropped
    lost,           \* history: died with a daemon that could not, or was about to,
                    \* write them
    unseen,         \* history: died with a chat that was about to show them
    again           \* history: left in the file by a chat that could not empty it

procVars == <<stage, psi, journal, behind>>
fileVars == <<pidFile, tmuxSession, checkpoint, journalFile>>
counters == <<steps, impulses>>
histories  == <<shown, gone, lost, unseen, again>>
handoffVars == <<tmux, procVars, fileVars, counters, histories>>

Stages == {"new", "launched", "cleared", "loaded", "attached", "running",
           "writing", "stopped", "dead"}

HandoffInit ==
    /\ tmux \in Machines
    /\ stage = [p \in Procs |-> "new"]
    /\ psi = [p \in Procs |-> {}]
    /\ journal = [p \in Procs |-> <<>>]
    /\ pidFile = Nobody /\ tmuxSession = Nobody
    /\ checkpoint = {} /\ journalFile = <<>>
    /\ steps = 0 /\ impulses = 0
    /\ shown = [i \in 1..MaxImpulses |-> 0]
    /\ behind = {}
    /\ gone = {} /\ lost = {} /\ unseen = {} /\ again = {}

Alive(p) == stage[p] \notin {"new", "dead"}

(* It has loaded the state and works on it. *)
Owns(p) == stage[p] \in {"loaded", "attached", "running", "writing", "stopped"}

-----------------------------------------------------------------------------
(* Death.  What a process holds of the journal and the file does not,     *)
(* dies with it: the write_text of a daemon under way or failed, and what  *)
(* a chat has been handed and not shown.                                   *)

Dies(dead) ==
    /\ lost' = lost \cup UNION {Range(journal[p]) :
                               p \in {q \in dead : stage[q] = "writing" \/ q \in behind}}
    /\ unseen' = unseen \cup UNION {Range(journal[p]) :
                                   p \in {q \in dead : stage[q] = "attached"}}

(* SIGKILL, a power cut, the terminal closed. *)
CrashProcess(p) ==
    /\ Alive(p)
    /\ stage' = [stage EXCEPT ![p] = "dead"]
    /\ Dies({p})
    /\ tmuxSession' = IF tmuxSession = p THEN Nobody ELSE tmuxSession
    /\ UNCHANGED <<tmux, psi, journal, behind, pidFile, checkpoint, journalFile,
                   counters, shown, gone, again>>

-----------------------------------------------------------------------------
(* Starting.                                                               *)

(* python -m luna start, by hand. *)
LaunchDaemon(d) ==
    /\ stage[d] = "new"
    /\ Patient => \A p \in Procs : ~Alive(p)
    /\ stage' = [stage EXCEPT ![d] = "launched"]
    /\ UNCHANGED <<tmux, psi, journal, behind, fileVars, counters, histories>>

LaunchChat(c) ==
    /\ stage[c] = "new"
    /\ Patient => \A p \in Procs : Alive(p) => p = pidFile
    /\ stage' = [stage EXCEPT ![c] = "launched"]
    /\ UNCHANGED <<tmux, psi, journal, behind, fileVars, counters, histories>>

(* SIGTERM to the daemon of the PID file, SIGHUP to that of the session. *)
Kill(c, victims) ==
    /\ stage' = [p \in Procs |-> IF p \in victims THEN "dead"
                                 ELSE IF p = c THEN "cleared"
                                 ELSE stage[p]]
    /\ Dies(victims)
    /\ pidFile' = Nobody
    /\ tmuxSession' = IF tmuxSession \in victims THEN Nobody ELSE tmuxSession
    /\ UNCHANGED <<tmux, psi, journal, behind, checkpoint, journalFile, counters,
                   shown, gone, again>>

(* _kill_existing_daemon: without a PID file it returns, whatever tmux     *)
(* runs.  Mutant: it looks for the tmux session only.                      *)
KillTmuxSession(c) ==
    /\ stage[c] = "launched"
    /\ Kill(c, {d \in Daemons : Alive(d) /\ d = tmuxSession})

KillExistingDaemon(c) ==
    /\ stage[c] = "launched"
    /\ Kill(c, {d \in Daemons : /\ Alive(d) /\ pidFile # Nobody
                                /\ d \in {pidFile, tmuxSession}})

LoadAs(p, steps0, journal0) ==
    /\ stage[p] = IF p \in Chats THEN "cleared" ELSE "launched"
    /\ stage' = [stage EXCEPT ![p] = "loaded"]
    /\ psi' = [psi EXCEPT ![p] = steps0]
    /\ journal' = [journal EXCEPT ![p] = journal0]
    /\ UNCHANGED <<tmux, behind, fileVars, counters, histories>>

ReadableJournal == IF journalFile = Torn THEN <<>> ELSE journalFile

(* CognitiveLoop.start: the checkpoint and the journal.  Mutant: the    *)
(* checkpoint is forgotten.                                                *)
LoadNoCheckpoint(p) == LoadAs(p, {}, ReadableJournal)

Load(p) == LoadAs(p, checkpoint, ReadableJournal)

(* _write_pid, once the loop has started. *)
WritePid(d) ==
    /\ stage[d] = "loaded"
    /\ stage' = [stage EXCEPT ![d] = "running"]
    /\ pidFile' = d
    /\ UNCHANGED <<tmux, psi, journal, behind, tmuxSession, checkpoint, journalFile,
                   counters, histories>>

Attach(c, left, twice) ==
    /\ stage[c] = "loaded"
    /\ stage' = [stage EXCEPT ![c] = "attached"]
    /\ journalFile' = left
    /\ again' = again \cup twice
    /\ UNCHANGED <<tmux, psi, journal, behind, pidFile, tmuxSession, checkpoint,
                   counters, shown, gone, lost, unseen>>

(* attach_session hands the journal to the chat and empties the file; a    *)
(* write that fails is swallowed, and leaves it (one cut in the middle     *)
(* leaves a file that reads as empty).  Mutant: the file is left always.   *)
AttachKeepsFile(c) == Attach(c, journalFile, {})

AttachSession(c) == Attach(c, <<>>, {}) \/ Attach(c, journalFile, Range(journal[c]))

(* _display_autonomous_journal.  In between the chat starts its watchers   *)
(* and its dashboard, and dreams if it missed a dream; until then Ctrl+C   *)
(* ends it like a kill (the try of run_repl begins after it).              *)
ShowJournal(c) ==
    /\ stage[c] = "attached"
    /\ stage' = [stage EXCEPT ![c] = "running"]
    /\ shown' = [i \in DOMAIN shown |->
                   shown[i] + IF i \in Range(journal[c]) THEN 1 ELSE 0]
    /\ journal' = [journal EXCEPT ![c] = <<>>]
    /\ UNCHANGED <<tmux, psi, behind, fileVars, counters, gone, lost, unseen, again>>

-----------------------------------------------------------------------------
(* Running.                                                                *)

(* A turn of the chat or the dream it starts with, or the idle_step of a   *)
(* daemon's tick.                                                          *)
Evolve(p) ==
    /\ stage[p] \in {"attached", "running"}
    /\ steps < MaxSteps
    /\ steps' = steps + 1
    /\ psi' = [psi EXCEPT ![p] = @ \cup {steps'}]
    /\ UNCHANGED <<tmux, stage, journal, behind, fileVars, impulses, histories>>

(* _do_tick without a session: the impulse is journalled, and the file     *)
(* truncated ...  An error of the write is swallowed.                      *)
CollectImpulse(d) ==
    /\ stage[d] = "running"
    /\ impulses < MaxImpulses
    /\ impulses' = impulses + 1
    /\ LET all == Append(journal[d], impulses')
           kept == IF Len(all) > MaxJournal THEN Tail(all) ELSE all
       IN  /\ journal' = [journal EXCEPT ![d] = kept]
           /\ gone' = gone \cup (Range(all) \ Range(kept))
    /\ \/ /\ journalFile' = Torn
          /\ stage' = [stage EXCEPT ![d] = "writing"]
          /\ UNCHANGED behind
       \/ /\ behind' = behind \cup {d}
          /\ UNCHANGED <<stage, journalFile>>
    /\ UNCHANGED <<tmux, psi, pidFile, tmuxSession, checkpoint, steps, shown,
                   lost, unseen, again>>

(* ... and written, or left truncated.                                     *)
SaveJournal(d) ==
    /\ stage[d] = "writing"
    /\ stage' = [stage EXCEPT ![d] = "running"]
    /\ \/ journalFile' = journal[d] /\ behind' = behind \ {d}
       \/ UNCHANGED journalFile /\ behind' = behind \cup {d}
    /\ UNCHANGED <<tmux, psi, journal, pidFile, tmuxSession, checkpoint,
                   counters, histories>>

(* A temporary file and a rename, under a lock.  The chat saves after a    *)
(* dream and every few turns, the tick every few ticks.                    *)
SaveCheckpoint(p) ==
    /\ stage[p] \in {"attached", "running"}
    /\ checkpoint' = psi[p]
    /\ UNCHANGED <<tmux, procVars, pidFile, tmuxSession, journalFile, counters,
                   histories>>

-----------------------------------------------------------------------------
(* Stopping.                                                               *)

(* Ctrl+C: the loop stops and saves, though not the journal; the PID file  *)
(* goes, whoever it names.                                                 *)
StopDaemon(d) ==
    /\ stage[d] = "running"
    /\ checkpoint' = psi[d]
    /\ pidFile' = Nobody
    /\ tmuxSession' = IF tmuxSession = d THEN Nobody ELSE tmuxSession
    /\ stage' = [stage EXCEPT ![d] = "dead"]
    /\ Dies({d})
    /\ UNCHANGED <<tmux, psi, journal, behind, journalFile, counters, shown, gone,
                   again>>

(* /quit, end of input or Ctrl+C: the session and the loop stop and save ... *)
StopChat(c) ==
    /\ stage[c] = "running"
    /\ checkpoint' = psi[c]
    /\ stage' = [stage EXCEPT ![c] = "stopped"]
    /\ UNCHANGED <<tmux, psi, journal, behind, pidFile, tmuxSession, journalFile,
                   counters, histories>>

(* ... and a daemon is spawned: tmux refuses a second session of the same  *)
(* name; without tmux the chat writes the PID of its child.                *)
SpawnAutonomousDaemon(c, d) ==
    /\ stage[c] = "stopped"
    /\ IF tmux /\ tmuxSession # Nobody
       THEN /\ stage' = [stage EXCEPT ![c] = "dead"]
            /\ UNCHANGED <<pidFile, tmuxSession>>
       ELSE /\ stage[d] = "new"
            /\ stage' = [stage EXCEPT ![c] = "dead", ![d] = "launched"]
            /\ IF tmux THEN tmuxSession' = d /\ UNCHANGED pidFile
                       ELSE pidFile' = d /\ UNCHANGED tmuxSession
    /\ UNCHANGED <<tmux, psi, journal, behind, checkpoint, journalFile, counters,
                   histories>>

-----------------------------------------------------------------------------
HandoffNext ==
    \/ \E p \in Procs : CrashProcess(p) \/ Load(p) \/ Evolve(p) \/ SaveCheckpoint(p)
    \/ \E c \in Chats :
          \/ LaunchChat(c) \/ KillExistingDaemon(c) \/ AttachSession(c)
          \/ ShowJournal(c) \/ StopChat(c)
          \/ \E d \in Daemons : SpawnAutonomousDaemon(c, d)
    \/ \E d \in Daemons :
          LaunchDaemon(d) \/ WritePid(d) \/ CollectImpulse(d) \/ SaveJournal(d)
          \/ StopDaemon(d)

HandoffSpec == HandoffInit /\ [][HandoffNext]_handoffVars

-----------------------------------------------------------------------------
(* When nobody is in a hurry, at most one process works on the state: the  *)
(* old daemon is dead before the chat loads what it saved, the chat has    *)
(* saved before the new daemon loads.                                      *)
OneOwner == \A p, q \in Procs : Owns(p) /\ Owns(q) => p = q

(* No save then drops steps an earlier one held, whoever made it.          *)
WorkKept == [][checkpoint \subseteq checkpoint']_handoffVars

(* No user reads the same impulse twice, unless the file could not be      *)
(* emptied when the journal was handed over.                               *)
JournalOnce == \A i \in DOMAIN shown : shown[i] > 1 => i \in again

(* Shown, to be shown, or in the hands of a process that may show or write it. *)
InHand(i) ==
    \/ shown[i] > 0
    \/ i \in Range(ReadableJournal)
    \/ \E p \in Procs : Alive(p) /\ i \in Range(journal[p])

(* A collected impulse is not lost, whichever processes were killed and    *)
(* whichever writes failed meanwhile, but with a process that died when it *)
(* alone held it: a daemon before a write of the journal had succeeded, a  *)
(* chat between taking the journal and showing it.                         *)
JournalKept == \A i \in (1..impulses) \ gone : InHand(i) \/ i \in lost \cup unseen

(* Both: what a daemon noticed reaches the user exactly once.              *)
JournalExact == JournalOnce /\ JournalKept

(* "Kill any running autonomous daemon before starting chat"               *)
(* (repl.py:37): no daemon that works on the state survives that.          *)
KillsAnyDaemon ==
    [][\A c \in Chats : stage[c] = "launched" /\ stage'[c] = "cleared"
         => \A d \in Daemons : ~Owns(d)']_handoffVars
=============================================================================
