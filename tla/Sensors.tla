------------------------------ MODULE Sensors ------------------------------
(***************************************************************************)
(* The EnvironmentWatcher, which compares snapshots of the repository, and *)
(* the ObservationFactory, which makes sensors of the patterns that recur. *)
(* The tick of the loop and the turns of the session drain one buffer of   *)
(* events and advance one factory.  Only a session runs the watcher; the   *)
(* daemon ticks without it.                                                *)
(*                                                                         *)
(* Every event the watcher emits is severe enough to be fed, and every fed *)
(* event is a hit: accuracy is 1, so that support alone decides.  The four *)
(* patterns are fewer than _MAX_PROMOTED, which therefore never binds.     *)
(***************************************************************************)
EXTENDS Naturals, Sequences, FiniteSets

CONSTANTS
    Paths,              \* files of the repository
    Branches,           \* branches of the repository
    MaxEvents,          \* _MAX_EVENTS
    IdleScans,          \* scans without a change after which IDLE_LONG comes
    ValidateSupport,    \* _VALIDATE_SUPPORT
    PromoteSupport,     \* _PROMOTE_SUPPORT
    DemoteIdle,         \* _DEMOTE_IDLE_CYCLES
    PurgeIdle,          \* _PURGE_IDLE_CYCLES
    MaxEmitting         \* bound: scans that emit an event

ASSUME SensorAssumption ==
    /\ "unknown" \notin Branches
    /\ {MaxEvents, PromoteSupport} \subseteq Nat \ {0}
    /\ {IdleScans, ValidateSupport, DemoteIdle, PurgeIdle, MaxEmitting} \subseteq Nat
    /\ ValidateSupport <= PromoteSupport

Patterns == {"file_churn", "git_shift", "stability_change", "idle_period"}
Forgotten == DemoteIdle + PurgeIdle

VARIABLES
    scanning,       \* a session is attached and its watcher runs
    snapshot,       \* _last_snapshot
    quiet,          \* scans since the last change, counted up to IdleScans
    events,         \* _events: the patterns of the events that wait
    sensors,        \* the candidates of the factory
    sensorFile,     \* observation_factory.json
    turnAt,         \* the session's turn: "idle", or between its start and its record
    emitted,        \* history: how often each event was emitted
    emitting        \* history: scans that emitted an event

sensorVars == <<scanning, snapshot, quiet, events, sensors, sensorFile, turnAt, emitted, emitting>>

-----------------------------------------------------------------------------
(* The watcher.                                                            *)

\* A snapshot; without an answer from git nothing is known.
Snap(files, branch) ==
    [files |-> files, branch |-> branch, status |-> IF files = {} THEN "clean" ELSE "changes"]
Unread == [files |-> {}, branch |-> "unknown", status |-> "unknown"]

Snapshots == {Snap(S, b) : S \in SUBSET Paths, b \in Branches} \cup {Unread}

\* What a comparison finds, in the order of the code.
Differences(old, new) ==
    (IF new.files \ old.files # {} THEN <<"file_churn">> ELSE <<>>)
    \o (IF old.branch # new.branch THEN <<"git_shift">> ELSE <<>>)
    \o (IF (old.status = "clean") # (new.status = "clean") THEN <<"stability_change">> ELSE <<>>)

CompareSnapshots(old, new) ==
    IF Differences(old, new) # <<>> THEN Differences(old, new)
    ELSE IF quiet = IdleScans THEN <<"idle_period">> ELSE <<>>

Occurrences(p, s) == Cardinality({i \in DOMAIN s : s[i] = p})

\* The ring buffer keeps the last events.
Latest(s) == IF Len(s) > MaxEvents THEN SubSeq(s, Len(s) - MaxEvents + 1, Len(s)) ELSE s

ScanOnce ==
    /\ scanning
    /\ \E new \in Snapshots :
         LET found == CompareSnapshots(snapshot, new) IN
         /\ found # <<>> => emitting < MaxEmitting
         /\ snapshot' = new
         /\ quiet' = IF Differences(snapshot, new) # <<>> THEN 0
                     ELSE IF quiet < IdleScans THEN quiet + 1 ELSE quiet
         /\ events' = Latest(events \o found)
         /\ emitted' = [p \in Patterns |-> emitted[p] + Occurrences(p, found)]
         /\ emitting' = IF found = <<>> THEN emitting ELSE emitting + 1
    /\ UNCHANGED <<scanning, sensors, sensorFile, turnAt>>

-----------------------------------------------------------------------------
(* The factory.                                                            *)

NoSensor == [status |-> "none", support |-> 0, idle |-> 0]

\* A first event makes a candidate, each event is an observation and a use.
Observed(c, n) ==
    [status |-> IF c.status = "none" THEN "hypothesis" ELSE c.status,
     support |-> c.support + n, idle |-> 0]

FeedWatcher(c, s) ==
    [p \in Patterns |->
        IF Occurrences(p, s) = 0 THEN c[p] ELSE Observed(c[p], Occurrences(p, s))]

\* Mutant of Lifecycle: a demoted candidate is kept.
LifecycleKeeps(c) ==
    CASE c.status = "hypothesis" /\ c.support >= ValidateSupport -> [c EXCEPT !.status = "validated"]
      [] c.status = "validated" /\ c.support >= PromoteSupport -> [c EXCEPT !.status = "promoted"]
      [] c.status = "promoted" /\ c.idle > DemoteIdle -> [c EXCEPT !.status = "demoted"]
      [] OTHER -> c

\* One candidate moves by one state at most.
Lifecycle(c) ==
    CASE c.status = "hypothesis" /\ c.support >= ValidateSupport -> [c EXCEPT !.status = "validated"]
      [] c.status = "validated" /\ c.support >= PromoteSupport -> [c EXCEPT !.status = "promoted"]
      [] c.status = "promoted" /\ c.idle > DemoteIdle -> [c EXCEPT !.status = "demoted"]
      [] c.status = "demoted" /\ c.idle > Forgotten -> NoSensor
      [] OTHER -> c

\* Ages count up to the one that purges.
Aged(c) == IF c.status # "none" /\ c.idle <= Forgotten THEN [c EXCEPT !.idle = @ + 1] ELSE c

FactoryTick(c) == [p \in Patterns |-> Lifecycle(Aged(c[p]))]

-----------------------------------------------------------------------------
(* Who drains and who ticks.                                               *)

\* Mutant of DrainEvents: the buffer is returned and not cleared.
DrainCopies == UNCHANGED events

DrainEvents == events' = <<>>

\* The loop's tick drains, feeds and advances; its promotions are told nobody.
PerceiveAndObserve ==
    /\ DrainEvents
    /\ sensors' = FactoryTick(FeedWatcher(sensors, events))
    /\ UNCHANGED <<scanning, snapshot, quiet, sensorFile, turnAt, emitted, emitting>>

\* A turn drains before it thinks ...
PerceiveTurn ==
    /\ scanning /\ turnAt = "idle"
    /\ DrainEvents
    /\ sensors' = FeedWatcher(sensors, events)
    /\ turnAt' = "thinking"
    /\ UNCHANGED <<scanning, snapshot, quiet, sensorFile, emitted, emitting>>

\* ... and advances the factory when its cycle is recorded; a failed one does not.
RecordTurn ==
    /\ turnAt = "thinking"
    /\ turnAt' = "idle"
    /\ sensors' \in {FactoryTick(sensors), sensors}
    /\ UNCHANGED <<scanning, snapshot, quiet, events, sensorFile, emitted, emitting>>

SaveSensors ==
    /\ sensorFile' = sensors
    /\ UNCHANGED <<scanning, snapshot, quiet, events, sensors, turnAt, emitted, emitting>>

\* A chat takes over from a daemon, or a daemon from a chat, or a process from a killed one.
RestartSensors ==
    /\ scanning' \in BOOLEAN
    /\ snapshot' \in Snapshots
    /\ quiet' = 0
    /\ events' = <<>>
    /\ sensors' = sensorFile
    /\ turnAt' = "idle"
    /\ UNCHANGED <<sensorFile, emitted, emitting>>

SensorsInit ==
    /\ scanning \in BOOLEAN
    /\ snapshot \in Snapshots
    /\ quiet = 0 /\ events = <<>>
    /\ sensors = [p \in Patterns |-> NoSensor]
    /\ sensorFile = sensors
    /\ turnAt = "idle"
    /\ emitted = [p \in Patterns |-> 0]
    /\ emitting = 0

SensorsNext ==
    \/ ScanOnce \/ PerceiveAndObserve \/ PerceiveTurn \/ RecordTurn
    \/ SaveSensors \/ RestartSensors

(* The cognitive loop ticks as long as the process lives. *)
SensorsSpec == SensorsInit /\ [][SensorsNext]_sensorVars /\ WF_sensorVars(PerceiveAndObserve)

-----------------------------------------------------------------------------
(* Properties.                                                             *)

\* Loop and turn drain one buffer and restarts bring back older counts, yet no
\* event is counted twice, and a sensor the Thinker hears has been earned.
SensorsAreEarned ==
    \A p \in Patterns :
        /\ sensors[p].support <= emitted[p]
        /\ sensors[p].status \in {"promoted", "demoted"} => sensors[p].support >= PromoteSupport

SensorsTypeOK ==
    /\ snapshot \in Snapshots /\ quiet \in 0 .. IdleScans
    /\ events \in Seq(Patterns) /\ Len(events) <= MaxEvents
    /\ \A p \in Patterns :
         /\ sensors[p].idle \in 0 .. Forgotten + 1
         /\ sensors[p].status = "none" => sensors[p] = NoSensor

\* When from some time on the loop's tick is all that happens, no sensor stays
\* that was promoted: whatever it had been fed, it is demoted and purged.
UnusedSensorsGo ==
    <>[][PerceiveAndObserve]_sensorVars
        => <>[](\A p \in Patterns : sensors[p].status \notin {"promoted", "demoted"})
=============================================================================
